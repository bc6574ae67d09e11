------------------------------- MODULE Server -------------------------------
(***************************************************************************)
(* The life of the process in cmd/server/main.go: the goroutine that runs  *)
(* the HTTP server, main waiting for SIGINT or SIGTERM, and the graceful   *)
(* shutdown.  http.Server and the delivery of signals are external.        *)
(***************************************************************************)
CONSTANT Requests   \* the requests clients send

VARIABLES main,     \* what main does: "starting", "waiting", "shutdown", "ended"
          server,   \* what ListenAndServe does: "starting", "serving", or what
                    \* it returned: "closed" (ErrServerClosed) or "broken"
          signal,   \* a signal is in the channel
          exit,     \* how the process ended, "none" while it runs
          request   \* request -> "unsent", "active", "answered", "cut", "refused"

vars == <<main, server, signal, exit, request>>

Init == /\ main = "starting" /\ server = "starting"
        /\ signal = FALSE /\ exit = "none"
        /\ request = [r \in Requests |-> "unsent"]

Running == exit = "none"
Active  == {r \in Requests : request[r] = "active"}

(* When the process ends, what it was still working on gets no answer. *)
End(how) == /\ exit' = how
            /\ request' = [r \in Requests |-> IF r \in Active THEN "cut" ELSE request[r]]

-----------------------------------------------------------------------------
(* The server goroutine *)

Listen == /\ Running /\ server = "starting"
          /\ server' = IF main = "shutdown" THEN "closed" ELSE "serving"
          /\ UNCHANGED <<main, signal, exit, request>>

(* The port is taken, or Accept fails for good. *)
Break == /\ Running /\ server \in {"starting", "serving"}
         /\ server' = "broken"
         /\ UNCHANGED <<main, signal, exit, request>>

(* log.Fatalf for every error but ErrServerClosed. *)
FatalOnAnyError == server \in {"broken", "closed"}   \* mutant: ErrServerClosed is not excepted
FatalError      == server = "broken"

ServerFails == /\ Running /\ FatalError
               /\ End("server failed")
               /\ UNCHANGED <<main, server, signal>>

Accept(r) == /\ Running /\ server = "serving" /\ request[r] = "unsent"
             /\ request' = [request EXCEPT ![r] = "active"]
             /\ UNCHANGED <<main, server, signal, exit>>

Refuse(r) == /\ ~Running \/ server \in {"closed", "broken"}
             /\ request[r] = "unsent"
             /\ request' = [request EXCEPT ![r] = "refused"]
             /\ UNCHANGED <<main, server, signal, exit>>

AnswerRequest(r) == /\ Running /\ request[r] = "active"
                    /\ request' = [request EXCEPT ![r] = "answered"]
                    /\ UNCHANGED <<main, server, signal, exit>>

-----------------------------------------------------------------------------
(* main *)

Notify == /\ Running /\ main = "starting" /\ main' = "waiting"
          /\ UNCHANGED <<server, signal, exit, request>>

(* Before signal.Notify a signal kills the process; after it, it waits in the
   channel, which has room for one, and later ones are dropped. *)
Signal == /\ Running
          /\ IF main = "starting" THEN End("killed") /\ UNCHANGED signal
             ELSE signal' = TRUE /\ UNCHANGED <<exit, request>>
          /\ UNCHANGED <<main, server>>

(* Shutdown closes the listener, upon which ListenAndServe returns; if it is
   only about to listen it will return as well. *)
BeginShutdownOpen ==   \* mutant: main waits for the handlers with the listener still open
  /\ Running /\ main = "waiting" /\ signal
  /\ main' = "shutdown" /\ signal' = FALSE
  /\ UNCHANGED <<server, exit, request>>
BeginShutdown == /\ Running /\ main = "waiting" /\ signal
                 /\ main' = "shutdown" /\ signal' = FALSE
                 /\ server' = IF server = "serving" THEN "closed" ELSE server
                 /\ UNCHANGED <<exit, request>>

(* It returns when no request is being served, or, with the context's error,
   when ten seconds have passed and some still are. *)
StopGracefully == /\ Running /\ main = "shutdown" /\ Active = {}
                  /\ main' = "ended" /\ End("gracefully")
                  /\ UNCHANGED <<server, signal>>

ForceNever == FALSE /\ UNCHANGED vars   \* mutant: Shutdown with context.Background()
ForceStop == /\ Running /\ main = "shutdown" /\ Active # {}
             /\ main' = "ended" /\ End("forced")
             /\ UNCHANGED <<server, signal>>

-----------------------------------------------------------------------------
Main == Notify \/ BeginShutdown \/ StopGracefully \/ ForceStop

Next == \/ Listen \/ Break \/ ServerFails \/ Signal \/ Main
        \/ \E r \in Requests : Accept(r) \/ Refuse(r) \/ AnswerRequest(r)
        \/ ~Running /\ (\A r \in Requests : request[r] # "unsent") /\ UNCHANGED vars

(* main and the server goroutine run and time passes; a handler may take as
   long as it likes, and nobody has to send a signal. *)
Spec == Init /\ [][Next]_vars /\ WF_vars(Main) /\ WF_vars(ServerFails)

-----------------------------------------------------------------------------
(* Properties *)

(* Types: the state of the process and of every request; stated for the proofs. *)
TypeOK == /\ main \in {"starting", "waiting", "shutdown", "ended"}
          /\ server \in {"starting", "serving", "closed", "broken"}
          /\ exit \in {"none", "server failed", "killed", "gracefully", "forced"}
          /\ request \in [Requests -> {"unsent", "active", "answered", "cut", "refused"}]
          /\ signal \in BOOLEAN

(* From the moment main shuts the server down nothing new is served, even if
   the server goroutine is only about to listen: what is being served becomes
   less, until nothing is left and the process ends gracefully, or time is up. *)
ShutdownDrains ==
  [][/\ main \in {"shutdown", "ended"} => Active' \subseteq Active
     /\ exit' = "gracefully" => Active = {}]_vars

(* An accepted request loses its answer only when its handler outlasts the
   ten seconds, when the signal comes before main asked to be notified, or
   when the listener had failed on its own: the return of ListenAndServe that
   Shutdown itself causes never ends the process under a request. *)
CutOnlyByForce ==
  (\E r \in Requests : request[r] = "cut") =>
    \/ exit = "forced"
    \/ exit = "killed"
    \/ exit = "server failed" /\ server = "broken"

(* Once main has been notified of a signal the process ends, even if a
   handler never returns; a further signal neither helps nor hurts. *)
SignalEndsProcess == signal ~> ~Running
=============================================================================
