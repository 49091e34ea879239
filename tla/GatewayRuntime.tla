--------------------------- MODULE GatewayRuntime ---------------------------
(***************************************************************************)
(* GatewayRuntime (appcore-gateway/src/runtime.rs): the owner of one       *)
(* listener and the thread that serves it.  start works under the lock;    *)
(* stop takes the running instance out, waits for its thread without the   *)
(* lock, and puts it back as an orphan when the deadline passes.           *)
(***************************************************************************)
EXTENDS Naturals, FiniteSets

CONSTANTS
  Servers,   \* the threads start may create, one after the other
  Hosts,     \* threads that call the runtime
  NoServer

VARIABLES
  lifecycle,  \* GatewayRuntimeState
  running,    \* RuntimeInner.running
  server,     \* per server: unused, serving, draining, ended, failed
  asked,      \* servers whose shutdown channel carries a request
  stopCall    \* per host: the server its stop waits for

runtimeVars == <<lifecycle, running, server, asked, stopCall>>

RuntimeInit ==
  /\ lifecycle = "Stopped"
  /\ running = NoServer
  /\ server = [s \in Servers |-> "unused"]
  /\ asked = {}
  /\ stopCall = [h \in Hosts |-> NoServer]

Over(s) == server[s] \in {"ended", "failed"}
Calling(h) == stopCall[h] # NoServer

\* refresh_runtime: an instance that ended is joined; unasked, its end is a failure.
Fresh ==
  IF running # NoServer /\ Over(running)
  THEN [lifecycle |-> IF running \in asked /\ server[running] = "ended" THEN "Stopped" ELSE "Failed",
        running |-> NoServer]
  ELSE [lifecycle |-> lifecycle, running |-> running]

\* The address is bound before success is reported: a listener still open on it
\* makes the start fail; so may anything else of prepare_instance.
Bound == \E s \in Servers : server[s] = "serving"

StartIgnored(h) ==
  /\ ~Calling(h) /\ Fresh.lifecycle \notin {"Stopped", "Failed"}
  /\ lifecycle' = Fresh.lifecycle /\ running' = Fresh.running
  /\ UNCHANGED <<server, asked, stopCall>>

StartFails(h) ==
  /\ ~Calling(h) /\ Fresh.lifecycle \in {"Stopped", "Failed"}
  /\ lifecycle' = "Failed" /\ running' = Fresh.running
  /\ UNCHANGED <<server, asked, stopCall>>

RuntimeStart(h) ==
  /\ ~Calling(h) /\ Fresh.lifecycle \in {"Stopped", "Failed"}
  /\ ~Bound
  /\ \E s \in {r \in Servers : server[r] = "unused"} :
       /\ server' = [server EXCEPT ![s] = "serving"]
       /\ running' = s
  /\ lifecycle' = "Running"
  /\ UNCHANGED <<asked, stopCall>>

StopIdle(h) ==
  /\ ~Calling(h) /\ Fresh.running = NoServer
  /\ lifecycle' = IF Fresh.lifecycle = "Orphaned" THEN "Orphaned" ELSE "Stopped"
  /\ running' = NoServer
  /\ UNCHANGED <<server, asked, stopCall>>

StopBegins(h) ==
  /\ ~Calling(h) /\ Fresh.running # NoServer
  /\ stopCall' = [stopCall EXCEPT ![h] = Fresh.running]
  /\ asked' = asked \cup {Fresh.running}
  /\ running' = NoServer
  /\ lifecycle' = "Stopping"
  /\ UNCHANGED server

StopJoins(h) ==
  /\ Calling(h) /\ Over(stopCall[h])
  /\ lifecycle' = IF server[stopCall[h]] = "ended" THEN "Stopped" ELSE "Failed"
  /\ stopCall' = [stopCall EXCEPT ![h] = NoServer]
  /\ UNCHANGED <<running, server, asked>>

\* Slip: the instance that did not end is dropped.
StopExpiresDetached(h) ==
  /\ Calling(h) /\ ~Over(stopCall[h])
  /\ lifecycle' = "Failed"
  /\ stopCall' = [stopCall EXCEPT ![h] = NoServer]
  /\ UNCHANGED <<running, server, asked>>

StopExpires(h) ==
  /\ Calling(h) /\ ~Over(stopCall[h])
  /\ lifecycle' = "Orphaned"
  /\ running' = stopCall[h]
  /\ stopCall' = [stopCall EXCEPT ![h] = NoServer]
  /\ UNCHANGED <<server, asked>>

Snapshot ==
  /\ Fresh.lifecycle # lifecycle
  /\ lifecycle' = Fresh.lifecycle /\ running' = Fresh.running
  /\ UNCHANGED <<server, asked, stopCall>>

\* run_gateway: a request closes the listener, the drain ends or is cut short with
\* an error; the server may also end by itself.
Drains(s) ==
  /\ server[s] = "serving" /\ s \in asked
  /\ server' = [server EXCEPT ![s] = "draining"]
  /\ UNCHANGED <<lifecycle, running, asked, stopCall>>

ServerEnds(s, how) ==
  /\ server[s] = "draining" \/ (server[s] = "serving" /\ how = "failed")
  /\ server' = [server EXCEPT ![s] = how]
  /\ UNCHANGED <<lifecycle, running, asked, stopCall>>

RuntimeNext ==
  \/ \E h \in Hosts : \/ StartIgnored(h) \/ StartFails(h) \/ RuntimeStart(h)
                      \/ StopIdle(h) \/ StopBegins(h) \/ StopJoins(h)
                      \/ StopExpires(h)
  \/ Snapshot
  \/ \E s \in Servers : Drains(s) \/ \E how \in {"ended", "failed"} : ServerEnds(s, how)

RuntimeSpec == RuntimeInit /\ [][RuntimeNext]_runtimeVars

-----------------------------------------------------------------------------
(* Properties.                                                             *)

\* What the theorem needs: hosts call one at a time.
RuntimeAssumption == (\A g, h \in Hosts : g = h) /\ NoServer \notin Servers

Alive == {s \in Servers : server[s] \in {"serving", "draining"}}

\* "Restartable owner of one Gateway listener and all work spawned beneath it":
\* called by one host at a time, the runtime never has two threads, holds the one
\* that lives, and reports Stopped or Failed only once it is gone.
OwnsItsServer ==
  /\ \A s \in Alive : s = running \/ \E h \in Hosts : stopCall[h] = s
  /\ Cardinality(Alive) <= 1
  /\ lifecycle \in {"Stopped", "Failed"} => Alive = {}
=============================================================================
