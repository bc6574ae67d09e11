---------------------------- MODULE ServerProofs ----------------------------
(***************************************************************************)
(* Proofs about the life of the process, for every set of requests.        *)
(***************************************************************************)
EXTENDS Server, TLAPS

(* While the process runs, and when it stopped gracefully, no request has
   lost its answer; it fails only after the listener has.  When it has ended
   nothing is being served, and once main shuts the server down nothing more
   is accepted. *)
NothingCut == \A r \in Requests : request[r] # "cut"

LifeInv == /\ TypeOK
           /\ exit \in {"none", "gracefully"} => NothingCut
           /\ exit = "server failed" => server = "broken"
           /\ ~Running => Active = {}
           /\ Running => main # "ended" /\ (server = "serving" => main # "shutdown")

Answers == {"unsent", "active", "answered", "cut", "refused"}

LEMMA EndTypes ==
  ASSUME TypeOK, Running, NEW how \in {"server failed", "killed", "gracefully", "forced"}, End(how)
  PROVE  /\ exit' = how /\ ~Running' /\ Active' = {}
         /\ request' \in [Requests -> Answers]
         /\ NothingCut /\ Active = {} => NothingCut'
<1>1. exit' = how
  BY DEF End
<1>2. request' = [r \in Requests |-> IF r \in Active THEN "cut" ELSE request[r]]
  BY DEF End
<1>3. \A r \in Requests : request'[r] # "active"
  BY <1>2 DEF Active
<1> QED BY <1>1, <1>2, <1>3 DEF TypeOK, NothingCut, Running, Active, Answers

LEMMA InitLife == Init => LifeInv
BY DEF Init, LifeInv, TypeOK, NothingCut, Running

(* How the process ends: by one of four steps. *)
LEMMA EndLife ==
  ASSUME LifeInv, Running, NEW how \in {"server failed", "killed", "gracefully", "forced"}, End(how),
         UNCHANGED <<server, signal>>, main' \in {main, "ended"},
         how = "server failed" => server = "broken",
         how = "gracefully" => Active = {}
  PROVE  LifeInv'
<1>1. /\ exit' = how /\ ~Running' /\ Active' = {}
      /\ request' \in [Requests -> Answers]
      /\ NothingCut /\ Active = {} => NothingCut'
  BY EndTypes DEF LifeInv
<1>2. NothingCut
  BY DEF LifeInv, Running
<1>3. TypeOK'
  BY <1>1 DEF LifeInv, TypeOK, Answers
<1> QED BY <1>1, <1>2, <1>3 DEF LifeInv

LEMMA NextLife == LifeInv /\ [Next]_vars => LifeInv'
<1> SUFFICES ASSUME LifeInv, [Next]_vars PROVE LifeInv'
  OBVIOUS
<1> USE DEF LifeInv
<1>1. CASE Listen \/ Break
  <2>1. /\ Running /\ UNCHANGED <<main, signal, exit, request>>
        /\ server' \in {"closed", "serving", "broken"} /\ (server' = "serving" => main # "shutdown")
    BY <1>1 DEF Listen, Break
  <2> QED BY <2>1 DEF TypeOK, NothingCut, Running
<1>2. CASE ServerFails
  BY <1>2, EndLife DEF ServerFails, FatalError
<1>3. CASE Signal
  <2>1. CASE main = "starting"
    BY <1>3, <2>1, EndLife DEF Signal
  <2>2. CASE main # "starting"
    BY <1>3, <2>2 DEF Signal, TypeOK, NothingCut, Running, Active
  <2> QED BY <2>1, <2>2
<1>4. CASE Notify \/ BeginShutdown
  <2>1. /\ Running /\ UNCHANGED <<exit, request>> /\ main' \in {"waiting", "shutdown"}
        /\ signal' \in BOOLEAN /\ server' \in {server, "closed"}
        /\ server' = "serving" => main' # "shutdown"
    BY <1>4 DEF Notify, BeginShutdown, TypeOK
  <2> QED BY <2>1 DEF TypeOK, NothingCut, Running, Active
<1>5. CASE StopGracefully
  BY <1>5, EndLife DEF StopGracefully
<1>6. CASE ForceStop
  BY <1>6, EndLife DEF ForceStop
<1>7. ASSUME NEW r \in Requests, Accept(r) \/ Refuse(r) \/ AnswerRequest(r) PROVE LifeInv'
  <2>1. /\ UNCHANGED <<main, server, signal, exit>>
        /\ \E to \in {"active", "refused", "answered"} :
             request' = [request EXCEPT ![r] = to] /\ (to = "active" => Running)
    BY <1>7 DEF Accept, Refuse, AnswerRequest
  <2>2. ~Running => Active' \subseteq Active
    BY <2>1 DEF Active, TypeOK
  <2>3. TypeOK' /\ (NothingCut => NothingCut')
    BY <2>1 DEF TypeOK, NothingCut
  <2> QED BY <2>1, <2>2, <2>3 DEF Running
<1>8. CASE UNCHANGED vars
  BY <1>8 DEF vars, TypeOK, NothingCut, Running, Active
<1> QED BY <1>1, <1>2, <1>3, <1>4, <1>5, <1>6, <1>7, <1>8 DEF Next, Main

LEMMA LifeInvariant == Spec => []LifeInv
BY InitLife, NextLife, PTL DEF Spec

(* From the moment main shuts the server down no further request is served,
   also when the server goroutine begins to listen only then, and the process
   ends gracefully only when every request has been answered (main). *)
THEOREM DrainsFirst == Spec => ShutdownDrains
<1> DEFINE Drains == /\ main \in {"shutdown", "ended"} => Active' \subseteq Active
                     /\ exit' = "gracefully" => Active = {}
<1>1. LifeInv /\ [Next]_vars => Drains
  <2> SUFFICES ASSUME LifeInv, [Next]_vars PROVE Drains
    OBVIOUS
  <2>1. CASE UNCHANGED <<exit, request>>
    BY <2>1 DEF LifeInv, Active, Running
  <2>2. ASSUME NEW how \in {"server failed", "killed", "gracefully", "forced"}, Running, End(how),
               how = "gracefully" => Active = {}
        PROVE  Drains
    BY <2>2, EndTypes DEF LifeInv
  <2>3. ASSUME NEW r \in Requests, Accept(r) \/ Refuse(r) \/ AnswerRequest(r) PROVE Drains
    <3>1. \E to \in {"active", "refused", "answered"} :
            /\ request' = [request EXCEPT ![r] = to] /\ exit' = exit
            /\ to = "active" => Running /\ server = "serving"
      BY <2>3 DEF Accept, Refuse, AnswerRequest
    <3>2. main \in {"shutdown", "ended"} => Active' \subseteq Active
      BY <3>1 DEF LifeInv, Active, TypeOK
    <3>3. exit' = "gracefully" => Active = {}
      BY <3>1 DEF LifeInv, Running
    <3> QED BY <3>2, <3>3
  <2> HIDE DEF Drains
  <2>4. CASE Listen \/ Break \/ Notify \/ BeginShutdown \/ UNCHANGED vars
    BY <2>1, <2>4 DEF Listen, Break, Notify, BeginShutdown, vars
  <2>5. CASE ServerFails
    BY <2>2, <2>5 DEF ServerFails
  <2>6. CASE Signal
    BY <2>1, <2>2, <2>6 DEF Signal
  <2>7. CASE StopGracefully \/ ForceStop
    BY <2>2, <2>7 DEF StopGracefully, ForceStop
  <2> QED BY <2>3, <2>4, <2>5, <2>6, <2>7 DEF Next, Main
<1> HIDE DEF Drains
<1>2. Spec => [][Drains]_vars
  BY <1>1, LifeInvariant, PTL DEF Spec
<1> QED BY <1>2 DEF Drains, ShutdownDrains

(* An accepted request loses its answer only when its handler outlasts the ten
   seconds of the shutdown, when the signal comes before main has asked to be
   notified, or when the listener had failed on its own (main). *)
THEOREM AnswersKept == Spec => []CutOnlyByForce
<1>1. LifeInv => CutOnlyByForce
  BY DEF LifeInv, TypeOK, NothingCut, CutOnlyByForce
<1> QED BY <1>1, LifeInvariant, PTL
=============================================================================
