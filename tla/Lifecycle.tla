----------------------------- MODULE Lifecycle -----------------------------
(***************************************************************************)
(* How the gateway, the auth service and the link sharing service start,   *)
(* serve and stop: the errgroups of their mains, the startup check, the    *)
(* HTTP and DRPC servers, the health flags, and the order in which they    *)
(* close what they have; with a load balancer that asks for their health   *)
(* and sends them clients while the last answer was good.                  *)
(*                                                                         *)
(* Time is in timers that count down.                                      *)
(***************************************************************************)
EXTENDS Naturals, FiniteSets

CONSTANTS
  Services,       \* which of "gateway", "auth" and "linksharing" are looked at
  Conn,           \* requests of clients
  ShutdownDelay, ShutdownTimeout,
  ProbeInterval,  \* how often the load balancer asks
  MaxFaults,      \* bound of the model: servers that fail
  None

Http == {"http", "https"}
Drpc == {"drpc", "drpcTLS"}
Protocols == Http \cup Drpc

ASSUME LifecycleAssumption ==
  /\ Services \subseteq {"gateway", "auth", "linksharing"}
  /\ ShutdownDelay \in Nat /\ ShutdownTimeout \in Nat /\ ProbeInterval \in Nat \ {0}
  /\ MaxFaults \in Nat /\ None \notin Protocols

VARIABLES
  service,
  cancelled,   \* the context of the main's errgroup, or of auth's Run
  run,         \* Run: "checking" (the startup check), "serving" or "returned"
  server,      \* server[p]: the server of protocol p
  timer,       \* timer[p]: what is left of p's delay, or of its timeout
  late,        \* the protocols whose shutdown has timed out
  closer,      \* the goroutine that waits for the context and calls Close
  sleep,       \* what is left of Close's delay
  inShutdown, startup,  \* the flags of the health endpoints
  resource,    \* the pools, the database or the mapper: "open" or "closed"
  exited,
  conn,        \* conn[c]: [state, on]; "queued" is in the kernel's backlog
  orphans,     \* the requests whose handlers run on after their connections were closed
  routes,      \* the load balancer sends requests
  probe,       \* time until it asks again
  faults

procVars == <<service, cancelled, run, server, timer, late, closer, sleep,
              inShutdown, startup, resource, exited>>
clientVars == <<conn, orphans, routes, probe>>
vars == <<procVars, clientVars, faults>>

Uses(p) == service = "auth" \/ p \in Http

Init ==
  /\ service \in Services /\ cancelled = FALSE
  /\ run = IF service = "auth" THEN "serving" ELSE "checking"
  /\ server = [p \in Protocols |-> IF Uses(p) THEN "bound" ELSE "ended"]
  /\ timer = [p \in Protocols |-> 0] /\ late = {}
  /\ closer = "waiting" /\ sleep = 0
  /\ inShutdown = FALSE /\ startup = FALSE
  /\ resource = "open" /\ exited = FALSE
  /\ conn = [c \in Conn |-> [state |-> "idle", on |-> None]]
  /\ orphans = {} /\ routes = FALSE /\ probe = 0 /\ faults = 0

Active(p) == {c \in Conn : conn[c].state = "active" /\ conn[c].on = p}
Queued(p) == {c \in Conn : conn[c].state = "queued" /\ conn[c].on = p}
Become(cs, state) ==
  conn' = [c \in Conn |-> IF c \in cs THEN [conn[c] EXCEPT !.state = state] ELSE conn[c]]

\* Closing a connection does not wait for its handler.
Cut(cs) == Become(cs, "cut") /\ orphans' = orphans \cup cs
AtWork(c) == conn[c].state = "active" \/ c \in orphans

Ended(p) == server[p] \in {"ended", "failed"}
-----------------------------------------------------------------------------
(* Starting and serving.                                                   *)

Signal ==
  /\ ~cancelled /\ ~exited /\ cancelled' = TRUE
  /\ UNCHANGED <<service, run, server, timer, late, closer, sleep, inShutdown,
                 startup, resource, exited, clientVars, faults>>

\* Check dials every node within its timeout; then the servers are started.
StartupCheck ==
  /\ run = "checking" /\ ~exited
  /\ \/ run' = "serving" /\ UNCHANGED <<cancelled, faults>>
     \/ /\ run' = "returned" /\ cancelled' = TRUE
        /\ IF cancelled THEN UNCHANGED faults
           ELSE faults < MaxFaults /\ faults' = faults + 1
  /\ UNCHANGED <<service, server, timer, late, closer, sleep, inShutdown, startup,
                 resource, exited, clientVars>>

SetStartupDone ==
  /\ service = "auth" /\ ~startup /\ startup' = TRUE
  /\ UNCHANGED <<service, cancelled, run, server, timer, late, closer, sleep,
                 inShutdown, resource, exited, clientVars, faults>>

\* Serve returns at once when the server has been shut down before.
Serve(p) ==
  /\ run = "serving" /\ ~exited /\ server[p] = "bound"
  /\ server' = [server EXCEPT ![p] = "serving"]
  /\ Become(Queued(p), "active")
  /\ UNCHANGED <<service, cancelled, run, timer, late, closer, sleep, inShutdown,
                 startup, resource, exited, orphans, routes, probe, faults>>

\* Serve returns another error than ErrServerClosed.  In the auth service that
\* cancels the group; httpserver's group has no context, and goes on.
ServeFails(p) ==
  /\ server[p] = "serving" /\ ~exited
  /\ faults < MaxFaults /\ faults' = faults + 1
  /\ server' = [server EXCEPT ![p] = "failed"]
  /\ cancelled' = (cancelled \/ service = "auth")
  /\ UNCHANGED <<service, run, timer, late, closer, sleep, inShutdown, startup,
                 resource, exited, clientVars>>
-----------------------------------------------------------------------------
(* auth: every server stops by itself when the context is cancelled.       *)

\* ServeHTTP: the liveness turns negative, and the delay begins.
AuthDelay(p) ==
  /\ service = "auth" /\ cancelled /\ p \in Http /\ server[p] = "serving"
  /\ inShutdown' = TRUE
  /\ server' = [server EXCEPT ![p] = "delay"]
  /\ timer' = [timer EXCEPT ![p] = ShutdownDelay]
  /\ UNCHANGED <<service, cancelled, run, late, closer, sleep, startup, resource,
                 exited, clientVars, faults>>

\* A variant: the server is shut down while its delay goes on.
AuthStop_AtOnce(p) ==
  /\ server[p] = "delay"
  /\ server' = [server EXCEPT ![p] = "stopping"]
  /\ timer' = [timer EXCEPT ![p] = ShutdownTimeout]
  /\ UNCHANGED <<service, cancelled, run, late, closer, sleep, inShutdown, startup,
                 resource, exited, clientVars, faults>>

AuthStop(p) ==
  /\ server[p] = "delay" /\ timer[p] = 0
  /\ server' = [server EXCEPT ![p] = "stopping"]
  /\ timer' = [timer EXCEPT ![p] = ShutdownTimeout]
  /\ UNCHANGED <<service, cancelled, run, late, closer, sleep, inShutdown, startup,
                 resource, exited, clientVars, faults>>

\* The DRPC server stops at once, ends the calls and waits for them.
DrpcStop(p) ==
  /\ p \in Drpc /\ cancelled /\ server[p] = "serving"
  /\ server' = [server EXCEPT ![p] = "stopping"]
  /\ Cut(Active(p))
  /\ UNCHANGED <<service, cancelled, run, timer, late, closer, sleep, inShutdown,
                 startup, resource, exited, routes, probe, faults>>

\* A variant: ServeHTTP returns as soon as Serve does.
Drained_AtOnce(p) ==
  /\ server[p] = "stopping" /\ ~exited
  /\ server' = [server EXCEPT ![p] = "ended"]
  /\ UNCHANGED <<service, cancelled, run, timer, late, closer, sleep, inShutdown,
                 startup, resource, exited, clientVars, faults>>

\* shutdownWithTimeout waits in http.Server.Shutdown: the listener is closed, and
\* when the last request has been answered the server has ended.  The DRPC server
\* ends when the handlers of its calls have returned.
Drained(p) ==
  /\ server[p] = "stopping" /\ ~exited
  /\ \A c \in Conn : AtWork(c) => conn[c].on # p
  /\ server' = [server EXCEPT ![p] = "ended"]
  /\ UNCHANGED <<service, cancelled, run, timer, late, closer, sleep, inShutdown,
                 startup, resource, exited, clientVars, faults>>

\* The timeout is over.  The auth service closes the connections that are left, and
\* does not wait for their handlers.
TimedOut(p) ==
  /\ server[p] = "stopping" /\ p \in Http /\ Active(p) # {} /\ timer[p] = 0 /\ ~exited
  /\ server' = [server EXCEPT ![p] = "ended"] /\ late' = late \cup {p}
  /\ IF service = "auth" THEN Cut(Active(p)) ELSE UNCHANGED <<conn, orphans>>
  /\ UNCHANGED <<service, cancelled, run, timer, closer, sleep, inShutdown, startup,
                 resource, exited, routes, probe, faults>>
-----------------------------------------------------------------------------
(* gateway and linksharing: Close is called when the context is cancelled. *)

CloseBegins ==
  /\ service # "auth" /\ cancelled /\ closer = "waiting"
  /\ inShutdown' = TRUE /\ closer' = "sleeping" /\ sleep' = ShutdownDelay
  /\ UNCHANGED <<service, cancelled, run, server, timer, late, startup, resource,
                 exited, clientVars, faults>>

\* The gateway closes its pools before it shuts the servers down.
CloseLayer ==
  /\ closer = "sleeping" /\ sleep = 0 /\ service = "gateway" /\ resource = "open"
  /\ resource' = "closed"
  /\ UNCHANGED <<service, cancelled, run, server, timer, late, closer, sleep,
                 inShutdown, startup, exited, clientVars, faults>>

\* httpserver.Shutdown; the link sharing service's timeout of -1 means now.
Shutdown ==
  /\ closer = "sleeping" /\ sleep = 0
  /\ service = "gateway" => resource = "closed"
  /\ closer' = "stopping"
  /\ server' = [p \in Protocols |->
       CASE server[p] = "bound" -> "ended"
         [] server[p] = "serving" /\ service = "gateway" -> "stopping"
         [] server[p] = "serving" /\ service # "gateway" -> "ended"
         [] OTHER -> server[p]]
  /\ timer' = [p \in Protocols |-> ShutdownTimeout]
  /\ Cut({c \in Conn : conn[c].state = "active" /\ service = "linksharing"
                       /\ server[conn[c].on] # "failed"})
  /\ UNCHANGED <<service, cancelled, run, late, sleep, inShutdown, startup, resource,
                 exited, routes, probe, faults>>

\* The mapper of the link sharing service is closed last.
CloseReturns ==
  /\ closer = "stopping" /\ \A p \in Protocols : Ended(p)
  /\ closer' = "done" /\ resource' = "closed"
  /\ UNCHANGED <<service, cancelled, run, server, timer, late, sleep, inShutdown,
                 startup, exited, clientVars, faults>>

\* A variant: the context is not cancelled when Run fails.
RunReturns_NoCancel ==
  /\ run = "serving"
  /\ \A p \in Protocols :
       Ended(p) \/ (service # "auth" /\ server[p] = "stopping")
  /\ run' = "returned"
  /\ UNCHANGED <<service, cancelled, server, timer, late, closer, sleep, inShutdown,
                 startup, resource, exited, clientVars, faults>>

\* A variant: ServeHTTP of the auth service returns with Serve.
RunReturns_WithServe ==
  /\ run = "serving"
  /\ \A p \in Protocols : Ended(p) \/ server[p] = "stopping"
  /\ run' = "returned"
  /\ cancelled' = (cancelled \/ \E p \in Protocols : server[p] = "failed")
  /\ UNCHANGED <<service, server, timer, late, closer, sleep, inShutdown, startup,
                 resource, exited, clientVars, faults>>

\* Serve has returned in all servers, which it does when a shutdown begins; in the
\* auth service ServeHTTP waits for the end of it.  The mains' errgroup cancels the
\* context if there was an error.
RunReturns ==
  /\ run = "serving"
  /\ \A p \in Protocols :
       Ended(p) \/ (service # "auth" /\ server[p] = "stopping")
  /\ run' = "returned"
  /\ cancelled' = (cancelled \/ \E p \in Protocols : server[p] = "failed")
  /\ UNCHANGED <<service, server, timer, late, closer, sleep, inShutdown, startup,
                 resource, exited, clientVars, faults>>

\* auth's main closes the peer when Run has returned.
AuthClose ==
  /\ service = "auth" /\ run = "returned" /\ closer = "waiting"
  /\ closer' = "done" /\ resource' = "closed"
  /\ UNCHANGED <<service, cancelled, run, server, timer, late, sleep, inShutdown,
                 startup, exited, clientVars, faults>>

Exit ==
  /\ run = "returned" /\ closer = "done" /\ ~exited
  /\ exited' = TRUE
  /\ Become({c \in Conn : conn[c].state = "active"}, "cut") /\ orphans' = {}
  /\ UNCHANGED <<service, cancelled, run, server, timer, late, closer, sleep,
                 inShutdown, startup, resource, routes, probe, faults>>
-----------------------------------------------------------------------------
(* The load balancer, its clients and time.                                *)

Accepts(p) == ~exited /\ server[p] \in {"bound", "serving", "delay"}

\* The health endpoints: getLive of the auth service looks at the database, too.
Healthy ==
  /\ ~exited /\ server["http"] \in {"serving", "delay"} /\ ~inShutdown
  /\ service = "auth" => startup /\ resource = "open"

Probe ==
  /\ probe = 0 /\ probe' = ProbeInterval /\ routes' = Healthy
  /\ UNCHANGED <<procVars, conn, orphans, faults>>

Arrive(c, p) ==
  /\ conn[c].state = "idle" /\ routes /\ Uses(p)
  /\ conn' = [conn EXCEPT ![c] =
       [state |-> CASE ~Accepts(p) -> "refused"
                    [] server[p] = "bound" -> "queued"
                    [] OTHER -> "active",
        on |-> p]]
  /\ UNCHANGED <<procVars, orphans, routes, probe, faults>>

Answer(c) ==
  /\ conn[c].state = "active"
  /\ conn' = [conn EXCEPT ![c].state = "done"]
  /\ UNCHANGED <<procVars, orphans, routes, probe, faults>>

\* A handler returns whose connection was closed.
HandlerEnds(c) ==
  /\ c \in orphans /\ orphans' = orphans \ {c}
  /\ UNCHANGED <<procVars, conn, routes, probe, faults>>

Down(n) == IF n = 0 THEN 0 ELSE n - 1

Tick ==
  /\ probe > 0 /\ probe' = probe - 1
  /\ sleep' = Down(sleep) /\ timer' = [p \in Protocols |-> Down(timer[p])]
  /\ UNCHANGED <<service, cancelled, run, server, late, closer, inShutdown, startup,
                 resource, exited, conn, orphans, routes, faults>>

ServerStep(p) ==
  \/ Serve(p) \/ AuthDelay(p) \/ AuthStop(p) \/ DrpcStop(p) \/ Drained(p) \/ TimedOut(p)

MainStep ==
  \/ StartupCheck \/ SetStartupDone \/ CloseBegins \/ CloseLayer \/ Shutdown
  \/ CloseReturns \/ RunReturns \/ AuthClose \/ Exit

Next ==
  \/ MainStep \/ Signal \/ Probe \/ Tick
  \/ \E p \in Protocols :
       \/ ServerStep(p) \/ ServeFails(p)
       \/ \E c \in Conn : Arrive(c, p)
  \/ \E c \in Conn : Answer(c) \/ HandlerEnds(c)

\* The runtime runs every goroutine that can go on, and time passes.  A request may
\* take for ever, but not a DRPC call whose context the server has cancelled.
Fairness ==
  /\ WF_vars(MainStep) /\ WF_vars(Probe) /\ WF_vars(Tick)
  /\ \A p \in Protocols : WF_vars(ServerStep(p))
  /\ \A c \in Conn : WF_vars(conn[c].on \in Drpc /\ HandlerEnds(c))

Spec == Init /\ [][Next]_vars

FairSpec == Spec /\ Fairness
-----------------------------------------------------------------------------
ConnState == [state : {"idle", "queued", "active", "done", "refused", "cut"},
              on : Protocols \cup {None}]

\* The type of every variable; a service that has closed its database or its mapper
\* was told to stop or has nothing that serves, and only then has it exited.
LifecycleTypeOK ==
  /\ service \in Services
  /\ run \in {"checking", "serving", "returned"}
  /\ closer \in {"waiting", "sleeping", "stopping", "done"}
  /\ resource \in {"open", "closed"}
  /\ cancelled \in BOOLEAN /\ inShutdown \in BOOLEAN /\ startup \in BOOLEAN
  /\ exited \in BOOLEAN /\ routes \in BOOLEAN
  /\ server \in [Protocols -> {"bound", "serving", "delay", "stopping", "ended", "failed"}]
  /\ timer \in [Protocols -> Nat] /\ sleep \in Nat /\ probe \in 0..ProbeInterval
  /\ late \subseteq Http /\ faults \in 0..MaxFaults
  /\ conn \in [Conn -> ConnState] /\ orphans \subseteq Conn
  /\ closer = "done" => resource = "closed"
  /\ exited => run = "returned" /\ \A p \in Protocols : Ended(p)

\* Where the delay is longer than the time between two probes, the load balancer
\* never sends a request to an HTTP server that has closed its listener.
RoutedIsAccepted ==
  \A c \in Conn :
    conn[c].state = "refused" /\ conn[c].on \in Http /\ ShutdownDelay > ProbeInterval
      => server[conn[c].on] = "failed"

\* When the auth service closes its database, no DRPC call is at work, ended or not,
\* and no HTTP request but those that took longer than the shutdown timeout, whose
\* handlers nobody waits for.  (A server that fails does not wait at all.)
DatabaseOutlivesRequests ==
  service = "auth" /\ resource = "closed" =>
    \A c \in Conn : AtWork(c) =>
      server[conn[c].on] = "failed" \/ conn[c].on \in late

\* A request to the gateway or to the HTTP servers of the auth service that was
\* accepted is answered, unless its server failed or it took longer than the
\* shutdown timeout: neither the return of Serve nor another server's end cuts it.
CutOnlyWhenLate ==
  \A c \in Conn :
    conn[c].state = "cut" /\ conn[c].on \in Http /\ service # "linksharing" =>
      server[conn[c].on] = "failed" \/ conn[c].on \in late

\* A service that is told to stop, or none of whose servers serves any longer, exits:
\* nobody waits for a context that nobody cancels.
ShutdownEnds ==
  (cancelled \/ \A p \in Protocols : Ended(p)) ~> exited
=============================================================================
