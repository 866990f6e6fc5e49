-------------------------- MODULE LifecycleProofs --------------------------
(***************************************************************************)
(* What stopping a service does to its requests, for any number of them:   *)
(* the auth service closes its database after the last one that was not    *)
(* late, and a request that was accepted is only cut when its server       *)
(* failed or it was late.                                                  *)
(* Both rest on where a request can be at work: at a server that has ended *)
(* only if that server's timeout was over.                                 *)
(***************************************************************************)
EXTENDS Lifecycle, TLAPS

\* A request at work has a server that is serving, or the end of which it missed.
ServedBy(c) ==
  LET p == conn[c].on
  IN  /\ p \in Protocols /\ server[p] # "bound"
      /\ server[p] = "ended" =>
           service # "auth" /\ (service = "gateway" => p \in late)

ActiveInv == \A c \in Conn : conn[c].state = "active" => ServedBy(c)

\* A handler without its connection has a server that waits for it, or that it missed.
Awaited(c) ==
  /\ conn[c].state = "cut"
  /\ service = "auth" =>
       \/ conn[c].on \in late
       \/ conn[c].on \in Drpc /\ server[conn[c].on] \in {"stopping", "failed"}

OrphanInv == orphans \subseteq Conn /\ \A c \in orphans : Awaited(c)

\* The order in which a service closes what it has.
OrderInv ==
  /\ service = "auth" => closer \in {"waiting", "done"} /\ run # "checking"
  /\ service = "auth" /\ run = "returned" => \A p \in Protocols : Ended(p)
  /\ service = "auth" /\ (closer = "done" \/ resource = "closed") => run = "returned"
  /\ closer = "done" => resource = "closed" /\ \A p \in Protocols : Ended(p)
  /\ exited => run = "returned" /\ \A p \in Protocols : Ended(p)

\* The types of the variables that the flags and the clock do not touch.
CoreTypes ==
  /\ service \in Services
  /\ run \in {"checking", "serving", "returned"}
  /\ closer \in {"waiting", "sleeping", "stopping", "done"}
  /\ resource \in {"open", "closed"}
  /\ server \in [Protocols -> {"bound", "serving", "delay", "stopping", "ended", "failed"}]
  /\ late \subseteq Http
  /\ conn \in [Conn -> ConnState]

FlagTypes ==
  /\ cancelled \in BOOLEAN /\ inShutdown \in BOOLEAN /\ startup \in BOOLEAN
  /\ exited \in BOOLEAN /\ routes \in BOOLEAN

ClockTypes ==
  /\ timer \in [Protocols -> Nat] /\ sleep \in Nat /\ probe \in 0..ProbeInterval
  /\ faults \in 0..MaxFaults

ServiceInv == CoreTypes /\ OrderInv /\ ActiveInv /\ OrphanInv /\ CutOnlyWhenLate

LifecycleInv == FlagTypes /\ ClockTypes /\ ServiceInv

LEMMA InvTypes == LifecycleInv => LifecycleTypeOK
BY DEF LifecycleInv, FlagTypes, ClockTypes, ServiceInv, CoreTypes, OrderInv, OrphanInv,
       LifecycleTypeOK

LEMMA LifecycleInit == Init => LifecycleInv
<1> SUFFICES ASSUME Init PROVE LifecycleInv
  OBVIOUS
<1>1. FlagTypes
  BY DEF Init, FlagTypes
<1>2. ClockTypes
  BY LifecycleAssumption DEF Init, ClockTypes
<1>3. CoreTypes
  BY DEF Init, CoreTypes, ConnState
<1>4. OrderInv
  BY DEF Init, OrderInv
<1>5. ActiveInv /\ OrphanInv /\ CutOnlyWhenLate
  BY DEF Init, ActiveInv, OrphanInv, CutOnlyWhenLate
<1> QED
  BY <1>1, <1>2, <1>3, <1>4, <1>5 DEF LifecycleInv, ServiceInv

-----------------------------------------------------------------------------
\* Become changes the state of some requests and leaves them where they are.
LEMMA BecomeShape ==
  ASSUME CoreTypes, NEW cs, NEW state \in {"active", "cut"}, Become(cs, state)
  PROVE  /\ conn' \in [Conn -> ConnState]
         /\ \A c \in Conn : conn'[c].on = conn[c].on
         /\ \A c \in Conn : conn'[c].state = IF c \in cs THEN state ELSE conn[c].state
<1>1. ASSUME NEW c \in Conn
      PROVE  /\ conn'[c] \in ConnState /\ conn'[c].on = conn[c].on
             /\ conn'[c].state = IF c \in cs THEN state ELSE conn[c].state
  <2>1. PICK x \in ConnState : x = conn[c]
    BY DEF CoreTypes
  <2>2. [x EXCEPT !.state = state] \in ConnState
    BY DEF ConnState
  <2>3. [x EXCEPT !.state = state].on = x.on /\ [x EXCEPT !.state = state].state = state
    BY DEF ConnState
  <2>4. conn'[c] = IF c \in cs THEN [conn[c] EXCEPT !.state = state] ELSE conn[c]
    BY DEF Become
  <2> QED
    BY <2>1, <2>2, <2>3, <2>4
<1>2. conn' = [c \in Conn |-> conn'[c]]
  BY DEF Become
<1> QED
  BY <1>1, <1>2

\* A step that leaves the requests where they are keeps what is said of them, if
\* servers only fail or go on, and end without being late only when they are idle.
LEMMA RequestsStay ==
  ASSUME ServiceInv, service' = service, conn' = conn, orphans' = orphans, late' = late,
         server' \in [Protocols -> {"bound", "serving", "delay", "stopping", "ended", "failed"}],
         \A p \in Protocols :
           /\ server[p] = "failed" => server'[p] = "failed"
           /\ server[p] # "bound" => server'[p] # "bound"
           /\ server[p] = "stopping" => server'[p] \in {"stopping", "ended"}
           /\ server'[p] = "ended" /\ server[p] # "ended" =>
                \A c \in Conn : AtWork(c) => conn[c].on # p
  PROVE  (ActiveInv /\ OrphanInv /\ CutOnlyWhenLate)'
<1>1. ASSUME NEW c \in Conn, conn[c].state = "active"
      PROVE  ServedBy(c)'
  <2>1. ServedBy(c) /\ AtWork(c)
    BY <1>1 DEF ServiceInv, ActiveInv, AtWork
  <2> QED
    BY <1>1, <2>1 DEF ServedBy
<1>2. CutOnlyWhenLate'
  BY DEF ServiceInv, CutOnlyWhenLate, Protocols
<1>3. ASSUME NEW c \in orphans
      PROVE  Awaited(c)'
  <2>1. Awaited(c) /\ AtWork(c) /\ c \in Conn
    BY DEF ServiceInv, OrphanInv, AtWork
  <2> QED
    BY <2>1 DEF Awaited, Protocols
<1> QED
  BY <1>1, <1>2, <1>3 DEF ServiceInv, ActiveInv, OrphanInv

\* The state of the requests is all that OrphanInv says of them.
LEMMA OrphansStay ==
  ASSUME OrphanInv, orphans' = orphans, service' = service, late \subseteq late',
         \A c \in orphans : conn'[c].state = conn[c].state /\ conn'[c].on = conn[c].on,
         \A p \in Drpc : server[p] \in {"stopping", "failed"} => server'[p] = server[p]
  PROVE  OrphanInv'
BY DEF OrphanInv, Awaited

\* Connections are closed by servers that wait for the handlers, or that were late.
LEMMA OrphansCut ==
  ASSUME CoreTypes, OrphanInv, NEW cs \in SUBSET Conn, Cut(cs),
         service' = service, late \subseteq late',
         \A p \in Drpc : server[p] \in {"stopping", "failed"} => server'[p] = server[p],
         service = "auth" =>
           \A c \in cs :
             \/ conn[c].on \in late'
             \/ conn[c].on \in Drpc /\ server'[conn[c].on] \in {"stopping", "failed"}
  PROVE  OrphanInv'
<1>1. /\ orphans' = orphans \cup cs
      /\ \A c \in Conn : conn'[c].on = conn[c].on
      /\ \A c \in Conn : conn'[c].state = IF c \in cs THEN "cut" ELSE conn[c].state
  BY BecomeShape DEF Cut
<1>2. ASSUME NEW c \in orphans'
      PROVE  Awaited(c)'
  <2>1. CASE c \in cs
    BY <1>1, <2>1 DEF Awaited
  <2>2. CASE c \in orphans /\ c \notin cs
    BY <1>1, <2>2 DEF OrphanInv, Awaited
  <2> QED
    BY <1>1, <2>1, <2>2
<1> QED
  BY <1>1, <1>2 DEF OrphanInv

-----------------------------------------------------------------------------
LEMMA FlagStep == FlagTypes /\ [Next]_vars => FlagTypes'
<1> SUFFICES ASSUME FlagTypes, [Next]_vars PROVE FlagTypes'
  OBVIOUS
<1>1. CASE MainStep
  BY <1>1, Zenon
     DEF FlagTypes, MainStep, StartupCheck, SetStartupDone, CloseBegins, CloseLayer,
         Shutdown, CloseReturns, RunReturns, AuthClose, Exit, clientVars
<1>2. ASSUME NEW p \in Protocols, ServerStep(p) \/ ServeFails(p)
      PROVE  FlagTypes'
  BY <1>2, Zenon
     DEF FlagTypes, ServerStep, Serve, AuthDelay, AuthStop, DrpcStop, Drained, TimedOut,
         ServeFails, clientVars
<1>3. ASSUME NEW c \in Conn, NEW p \in Protocols, Arrive(c, p) \/ Answer(c) \/ HandlerEnds(c)
      PROVE  FlagTypes'
  BY <1>3, Zenon DEF FlagTypes, Arrive, Answer, HandlerEnds, procVars
<1>4. CASE Signal \/ Tick
  BY <1>4, Zenon DEF FlagTypes, Signal, Tick, clientVars
<1>5. CASE Probe
  <2>1. Healthy \in BOOLEAN
    BY DEF Healthy
  <2> QED
    BY <1>5, <2>1, Zenon DEF FlagTypes, Probe, procVars
<1>6. CASE UNCHANGED vars
  BY <1>6, Zenon DEF FlagTypes, vars, procVars, clientVars
<1>7. Protocols # {}
  BY DEF Protocols, Http
<1> QED
  BY <1>1, <1>2, <1>3, <1>4, <1>5, <1>6, <1>7 DEF Next

LEMMA ClockStep == ClockTypes /\ [Next]_vars => ClockTypes'
<1> SUFFICES ASSUME ClockTypes, [Next]_vars PROVE ClockTypes'
  OBVIOUS
<1>1. \A n \in Nat : Down(n) \in Nat
  BY DEF Down
<1>2. CASE MainStep
  BY <1>2, LifecycleAssumption
     DEF ClockTypes, MainStep, StartupCheck, SetStartupDone, CloseBegins, CloseLayer,
         Shutdown, CloseReturns, RunReturns, AuthClose, Exit, clientVars
<1>3. ASSUME NEW p \in Protocols, ServerStep(p) \/ ServeFails(p)
      PROVE  ClockTypes'
  BY <1>3, LifecycleAssumption
     DEF ClockTypes, ServerStep, Serve, AuthDelay, AuthStop, DrpcStop, Drained, TimedOut,
         ServeFails, clientVars
<1>4. ASSUME NEW c \in Conn, NEW p \in Protocols, Arrive(c, p) \/ Answer(c) \/ HandlerEnds(c)
      PROVE  ClockTypes'
  BY <1>4 DEF ClockTypes, Arrive, Answer, HandlerEnds, procVars
<1>5. CASE Signal
  BY <1>5 DEF ClockTypes, Signal, clientVars
<1>6. CASE Tick
  <2>1. timer' \in [Protocols -> Nat] /\ sleep' \in Nat
    BY <1>6, <1>1 DEF ClockTypes, Tick
  <2>2. probe' \in 0..ProbeInterval /\ faults' = faults
    BY <1>6, LifecycleAssumption DEF ClockTypes, Tick
  <2> QED
    BY <2>1, <2>2 DEF ClockTypes
<1>7. CASE Probe
  BY <1>7, LifecycleAssumption DEF ClockTypes, Probe, procVars
<1>8. CASE UNCHANGED vars
  BY <1>8 DEF ClockTypes, vars, procVars, clientVars
<1>9. Protocols # {}
  BY DEF Protocols, Http
<1> QED
  BY <1>2, <1>3, <1>4, <1>5, <1>6, <1>7, <1>8, <1>9 DEF Next

-----------------------------------------------------------------------------
\* Steps that leave the requests and the servers' ends alone.
LEMMA MainKeeps ==
  ASSUME ServiceInv,
         \/ StartupCheck \/ SetStartupDone \/ CloseBegins \/ CloseLayer
         \/ CloseReturns \/ RunReturns \/ AuthClose \/ Signal
  PROVE  ServiceInv'
<1>1. CoreTypes' /\ UNCHANGED <<service, server, late, conn, orphans>>
  BY DEF ServiceInv, CoreTypes, StartupCheck, SetStartupDone, CloseBegins, CloseLayer,
         CloseReturns, RunReturns, AuthClose, Signal, clientVars
<1>2. OrderInv'
  BY DEF ServiceInv, CoreTypes, OrderInv, Ended, StartupCheck, SetStartupDone, CloseBegins,
         CloseLayer, CloseReturns, RunReturns, AuthClose, Signal
<1>3. (ActiveInv /\ OrphanInv /\ CutOnlyWhenLate)'
  BY <1>1, RequestsStay DEF ServiceInv, CoreTypes
<1> QED
  BY <1>1, <1>2, <1>3 DEF ServiceInv

\* A server goes on, or fails, while its requests stay where they are.
LEMMA ServerMoves ==
  ASSUME ServiceInv, NEW p \in Protocols,
         AuthDelay(p) \/ AuthStop(p) \/ Drained(p) \/ ServeFails(p)
  PROVE  ServiceInv'
<1>1. /\ CoreTypes' /\ UNCHANGED <<service, late, conn, orphans, run, closer, resource, exited>>
      /\ \A q \in Protocols : q # p => server'[q] = server[q]
      /\ \/ server[p] \in {"serving", "delay"} /\ server'[p] \in {"delay", "stopping", "failed"}
         \/ server[p] = "stopping" /\ server'[p] = "ended"
            /\ \A c \in Conn : AtWork(c) => conn[c].on # p
  BY DEF ServiceInv, CoreTypes, AuthDelay, AuthStop, Drained, ServeFails, clientVars
<1>2. OrderInv'
  BY <1>1 DEF ServiceInv, CoreTypes, OrderInv, Ended
<1>3. (ActiveInv /\ OrphanInv /\ CutOnlyWhenLate)'
  BY <1>1, RequestsStay DEF ServiceInv, CoreTypes
<1> QED
  BY <1>1, <1>2, <1>3 DEF ServiceInv

LEMMA ServeKeeps ==
  ASSUME ServiceInv, NEW p \in Protocols, Serve(p)
  PROVE  ServiceInv'
<1>1. Become(Queued(p), "active")
  BY DEF Serve
<1>2. /\ conn' \in [Conn -> ConnState]
      /\ \A c \in Conn : conn'[c].on = conn[c].on
      /\ \A c \in Conn : conn'[c].state = IF c \in Queued(p) THEN "active" ELSE conn[c].state
  BY <1>1, BecomeShape DEF ServiceInv
<1>3. /\ UNCHANGED <<service, late, run, closer, resource, exited>>
      /\ server[p] = "bound" /\ server'[p] = "serving"
      /\ \A q \in Protocols : q # p => server'[q] = server[q]
      /\ server' \in [Protocols -> {"bound", "serving", "delay", "stopping", "ended", "failed"}]
  BY DEF Serve, ServiceInv, CoreTypes
<1>4. CoreTypes'
  BY <1>2, <1>3 DEF ServiceInv, CoreTypes
<1>5. OrderInv'
  BY <1>3 DEF ServiceInv, OrderInv, Ended
<1>6. ASSUME NEW c \in Conn, conn'[c].state = "active"
      PROVE  ServedBy(c)'
  <2>1. CASE c \in Queued(p)
    BY <2>1, <1>2, <1>3 DEF Queued, ServedBy
  <2>2. CASE conn[c].state = "active"
    BY <2>2, <1>2, <1>3 DEF ServiceInv, ActiveInv, ServedBy
  <2> QED
    BY <2>1, <2>2, <1>2, <1>6
<1>7. CutOnlyWhenLate'
  BY <1>2, <1>3 DEF ServiceInv, CutOnlyWhenLate, Protocols
<1>8. OrphanInv'
  <2>1. orphans' = orphans /\ OrphanInv
    BY DEF Serve, ServiceInv
  <2>2. \A c \in orphans : conn'[c].state = conn[c].state /\ conn'[c].on = conn[c].on
    BY <1>2, <2>1 DEF OrphanInv, Awaited, Queued
  <2>3. \A q \in Drpc : server[q] \in {"stopping", "failed"} => server'[q] = server[q]
    BY <1>3 DEF Protocols
  <2> QED
    BY <1>3, <2>1, <2>2, <2>3, OrphansStay
<1> QED
  BY <1>4, <1>5, <1>6, <1>7, <1>8 DEF ServiceInv, ActiveInv

\* What is cut was at work at servers for which that is said in CutOnlyWhenLate, or
\* at none of the servers it speaks of.
LEMMA CutKeeps ==
  ASSUME CoreTypes, ActiveInv, CutOnlyWhenLate, NEW cs, Become(cs, "cut"),
         service' = service, late \subseteq late',
         server' \in [Protocols -> {"bound", "serving", "delay", "stopping", "ended", "failed"}],
         \A p \in Protocols :
           /\ server[p] = "failed" => server'[p] = "failed"
           /\ server[p] # "bound" => server'[p] # "bound",
         \A c \in Conn \ cs : conn[c].state = "active" /\ ServedBy(c) =>
           LET p == conn[c].on
           IN  server'[p] = "ended" =>
                 service # "auth" /\ (service = "gateway" => p \in late'),
         \A c \in cs : conn[c].on \in Http /\ service # "linksharing" =>
           server'[conn[c].on] = "failed" \/ conn[c].on \in late'
  PROVE  (ActiveInv /\ CutOnlyWhenLate)' /\ conn' \in [Conn -> ConnState]
<1>1. /\ conn' \in [Conn -> ConnState]
      /\ \A c \in Conn : conn'[c].on = conn[c].on
      /\ \A c \in Conn : conn'[c].state = IF c \in cs THEN "cut" ELSE conn[c].state
  BY BecomeShape
<1>2. ASSUME NEW c \in Conn, conn'[c].state = "active"
      PROVE  ServedBy(c)'
  <2>1. c \notin cs /\ conn[c].state = "active" /\ ServedBy(c)
    BY <1>1, <1>2 DEF ActiveInv
  <2> QED
    BY <1>1, <2>1 DEF ServedBy
<1>3. ASSUME NEW c \in Conn, conn'[c].state = "cut",
             conn'[c].on \in Http, service # "linksharing"
      PROVE  server'[conn'[c].on] = "failed" \/ conn'[c].on \in late'
  <2>1. CASE c \in cs
    BY <1>1, <1>3, <2>1
  <2>2. CASE c \notin cs
    BY <1>1, <1>3, <2>2 DEF CutOnlyWhenLate, Protocols
  <2> QED
    BY <2>1, <2>2
<1> QED
  BY <1>1, <1>2, <1>3 DEF ActiveInv, CutOnlyWhenLate

\* The DRPC server cuts its own calls.
LEMMA DrpcStopKeeps ==
  ASSUME ServiceInv, NEW p \in Protocols, DrpcStop(p)
  PROVE  ServiceInv'
<1>1. /\ UNCHANGED <<service, late, run, closer, resource, exited>>
      /\ server[p] = "serving" /\ server'[p] = "stopping" /\ p \notin Http
      /\ \A q \in Protocols : q # p => server'[q] = server[q]
      /\ server' \in [Protocols -> {"bound", "serving", "delay", "stopping", "ended", "failed"}]
      /\ Become(Active(p), "cut")
  BY DEF DrpcStop, ServiceInv, CoreTypes, Cut, Drpc, Http
<1>2. (ActiveInv /\ CutOnlyWhenLate)' /\ conn' \in [Conn -> ConnState]
  <2>1. \A c \in Active(p) : conn[c].on \notin Http
    BY <1>1 DEF Active
  <2>2. \A c \in Conn : ServedBy(c) /\ server'[conn[c].on] = "ended" =>
          server[conn[c].on] = "ended"
    BY <1>1 DEF ServedBy
  <2> QED
    BY <1>1, <2>1, <2>2, CutKeeps DEF ServiceInv, ServedBy
<1>3. OrderInv'
  BY <1>1 DEF ServiceInv, OrderInv, Ended
<1>4. OrphanInv'
  <2>1. Cut(Active(p)) /\ p \in Drpc /\ CoreTypes /\ OrphanInv
    BY DEF DrpcStop, ServiceInv
  <2>2. \A q \in Drpc : server[q] \in {"stopping", "failed"} => server'[q] = server[q]
    BY <1>1 DEF Protocols
  <2>3. Active(p) \in SUBSET Conn /\ \A c \in Active(p) : conn[c].on = p
    BY DEF Active
  <2> QED
    BY <1>1, <2>1, <2>2, <2>3, OrphansCut
<1> QED
  BY <1>1, <1>2, <1>3, <1>4 DEF ServiceInv, CoreTypes

\* The gateway leaves the requests that were late to the end of the process.
LEMMA TimedOutKeeps ==
  ASSUME ServiceInv, NEW p \in Protocols, TimedOut(p)
  PROVE  ServiceInv'
<1>1. /\ UNCHANGED <<service, run, closer, resource, exited>>
      /\ server[p] = "stopping" /\ server'[p] = "ended" /\ p \in Http
      /\ \A q \in Protocols : q # p => server'[q] = server[q]
      /\ server' \in [Protocols -> {"bound", "serving", "delay", "stopping", "ended", "failed"}]
      /\ late' = late \cup {p} /\ late' \subseteq Http
  BY DEF TimedOut, ServiceInv, CoreTypes
<1>2. OrderInv'
  BY <1>1 DEF ServiceInv, OrderInv, Ended
<1>3. (ActiveInv /\ CutOnlyWhenLate)' /\ conn' \in [Conn -> ConnState]
  <2>1. CASE service = "auth"
    <3>1. Become(Active(p), "cut")
      BY <2>1 DEF TimedOut, Cut
    <3>2. \A c \in Active(p) : conn[c].on \in late'
      BY <1>1 DEF Active
    <3>3. \A c \in Conn \ Active(p) : conn[c].state = "active" /\ ServedBy(c) =>
            server'[conn[c].on] # "ended"
      BY <1>1, <2>1 DEF Active, ServedBy
    <3> QED
      BY <1>1, <3>1, <3>2, <3>3, CutKeeps DEF ServiceInv
  <2>2. CASE service # "auth"
    <3>1. conn' = conn
      BY <2>2 DEF TimedOut
    <3>2. ASSUME NEW c \in Conn, conn[c].state = "active"
          PROVE  ServedBy(c)'
      BY <1>1, <2>2, <3>1, <3>2 DEF ServiceInv, ActiveInv, ServedBy
    <3>3. CutOnlyWhenLate'
      BY <1>1, <3>1 DEF ServiceInv, CutOnlyWhenLate, Protocols
    <3> QED
      BY <3>1, <3>2, <3>3 DEF ActiveInv, ServiceInv, CoreTypes
  <2> QED
    BY <2>1, <2>2
<1>4. OrphanInv'
  <2>1. \A q \in Drpc : server[q] \in {"stopping", "failed"} => server'[q] = server[q]
    BY <1>1 DEF Protocols, Http, Drpc
  <2>2. CASE service = "auth"
    <3>1. Cut(Active(p)) /\ CoreTypes /\ OrphanInv
      BY <2>2 DEF TimedOut, ServiceInv
    <3>2. Active(p) \in SUBSET Conn /\ \A c \in Active(p) : conn[c].on \in late'
      BY <1>1 DEF Active
    <3> QED
      BY <1>1, <2>1, <3>1, <3>2, OrphansCut
  <2>3. CASE service # "auth"
    <3>1. UNCHANGED <<conn, orphans>> /\ OrphanInv
      BY <2>3 DEF TimedOut, ServiceInv
    <3> QED
      BY <1>1, <2>1, <3>1, OrphansStay
  <2> QED
    BY <2>2, <2>3
<1> QED
  BY <1>1, <1>2, <1>3, <1>4 DEF ServiceInv, CoreTypes

\* The link sharing service cuts what its servers have; the gateway lets it go on.
LEMMA ShutdownKeeps ==
  ASSUME ServiceInv, Shutdown
  PROVE  ServiceInv'
<1> DEFINE cs == {c \in Conn : conn[c].state = "active" /\ service = "linksharing"
                               /\ server[conn[c].on] # "failed"}
<1>1. /\ UNCHANGED <<service, late, run, resource, exited>>
      /\ closer = "sleeping" /\ closer' = "stopping" /\ service # "auth"
      /\ Become(cs, "cut")
  BY DEF Shutdown, ServiceInv, OrderInv, Cut
<1>2. ASSUME NEW p \in Protocols
      PROVE  /\ server'[p] \in {"bound", "serving", "delay", "stopping", "ended", "failed"}
             /\ server[p] = "failed" => server'[p] = "failed"
             /\ server[p] # "bound" => server'[p] # "bound"
             /\ Ended(p) => Ended(p)'
             /\ server'[p] = "ended" /\ server[p] \notin {"bound", "ended"} =>
                  service = "linksharing" \/ service # "gateway"
  BY DEF Shutdown, ServiceInv, CoreTypes, Ended
<1>3. server' \in [Protocols -> {"bound", "serving", "delay", "stopping", "ended", "failed"}]
  BY <1>2 DEF Shutdown
<1>4. OrderInv'
  BY <1>1, <1>2 DEF ServiceInv, OrderInv
<1>5. ASSUME NEW c \in Conn \ cs, conn[c].state = "active", ServedBy(c),
             server'[conn[c].on] = "ended"
      PROVE  service # "auth" /\ (service = "gateway" => conn[c].on \in late')
  <2>1. CASE server[conn[c].on] = "ended"
    BY <1>1, <1>5, <2>1 DEF ServedBy
  <2>2. CASE server[conn[c].on] # "ended"
    BY <1>1, <1>2, <1>5, <2>2 DEF ServedBy
  <2> QED
    BY <2>1, <2>2
<1>6. \A c \in cs : service = "linksharing"
  OBVIOUS
<1>7. (ActiveInv /\ CutOnlyWhenLate)' /\ conn' \in [Conn -> ConnState]
  <2> HIDE DEF cs
  <2> QED
    BY <1>1, <1>2, <1>3, <1>5, <1>6, CutKeeps DEF ServiceInv
<1>8. OrphanInv'
  <2>1. Cut(cs) /\ CoreTypes /\ OrphanInv
    BY DEF Shutdown, ServiceInv
  <2>2. cs \in SUBSET Conn
    OBVIOUS
  <2>3. \A q \in Drpc : server[q] \in {"stopping", "failed"} => server'[q] = server[q]
    BY DEF Shutdown, Protocols
  <2> HIDE DEF cs
  <2> QED
    BY <1>1, <2>1, <2>2, <2>3, OrphansCut
<1> QED
  BY <1>1, <1>3, <1>4, <1>7, <1>8 DEF ServiceInv, CoreTypes

\* What is at work when the process exits was late, or its server had failed.
LEMMA ExitKeeps ==
  ASSUME ServiceInv, Exit
  PROVE  ServiceInv'
<1> DEFINE cs == {c \in Conn : conn[c].state = "active"}
<1>1. /\ UNCHANGED <<service, server, late, run, closer, resource>>
      /\ \A p \in Protocols : Ended(p)
      /\ run = "returned"
      /\ Become(cs, "cut")
  BY DEF Exit, ServiceInv, OrderInv, Cut
<1>2. OrderInv'
  BY <1>1 DEF ServiceInv, OrderInv, Ended
<1>3. ASSUME NEW c \in cs, service # "linksharing"
      PROVE  server[conn[c].on] = "failed" \/ conn[c].on \in late
  <2>1. ServedBy(c)
    BY DEF ServiceInv, ActiveInv
  <2> QED
    BY <1>1, <1>3, <2>1, LifecycleAssumption DEF ServedBy, Ended, ServiceInv, CoreTypes
<1>4. (ActiveInv /\ CutOnlyWhenLate)' /\ conn' \in [Conn -> ConnState]
  <2>1. \A c \in Conn \ cs : conn[c].state # "active"
    OBVIOUS
  <2> HIDE DEF cs
  <2> QED
    BY <1>1, <1>3, <2>1, CutKeeps DEF ServiceInv, CoreTypes
<1>5. OrphanInv'
  BY DEF Exit, OrphanInv
<1> QED
  BY <1>1, <1>2, <1>4, <1>5 DEF ServiceInv, CoreTypes

\* A request comes to a server that accepts it, and has its answer.
LEMMA ClientKeeps ==
  ASSUME ServiceInv,
         \/ \E c \in Conn, p \in Protocols : Arrive(c, p)
         \/ \E c \in Conn : Answer(c) \/ HandlerEnds(c)
         \/ Probe \/ Tick \/ UNCHANGED vars
  PROVE  ServiceInv'
<1>1. UNCHANGED <<service, server, late, run, closer, resource, exited>>
  BY DEF Arrive, Answer, HandlerEnds, Probe, Tick, procVars, vars
<1>2. OrderInv'
  BY <1>1 DEF ServiceInv, OrderInv, Ended
<1>3. ASSUME NEW c \in Conn, NEW p \in Protocols, Arrive(c, p)
      PROVE  conn' \in [Conn -> ConnState] /\ (ActiveInv /\ OrphanInv /\ CutOnlyWhenLate)'
  <2>1. PICK state \in {"refused", "queued", "active"} :
          /\ conn' = [conn EXCEPT ![c] = [state |-> state, on |-> p]]
          /\ state = "active" => server[p] \in {"serving", "delay"}
    <3> DEFINE s == CASE ~Accepts(p) -> "refused"
                      [] server[p] = "bound" -> "queued"
                      [] OTHER -> "active"
    <3>1. s \in {"refused", "queued", "active"}
      OBVIOUS
    <3>2. s = "active" => server[p] \in {"serving", "delay"}
      BY DEF Accepts
    <3>3. conn' = [conn EXCEPT ![c] = [state |-> s, on |-> p]]
      BY <1>3, Zenon DEF Arrive
    <3> QED
      BY <3>1, <3>2, <3>3
  <2>2. [state |-> state, on |-> p] \in ConnState
    BY DEF ConnState
  <2>3. conn' \in [Conn -> ConnState]
    BY <2>1, <2>2 DEF ServiceInv, CoreTypes
  <2>4. /\ conn'[c].state = state /\ conn'[c].on = p
        /\ \A d \in Conn : d # c => conn'[d] = conn[d]
    BY <2>1 DEF ServiceInv, CoreTypes
  <2>5. ASSUME NEW d \in Conn, conn'[d].state = "active"
        PROVE  ServedBy(d)'
    BY <1>1, <2>1, <2>4, <2>5 DEF ServiceInv, ActiveInv, ServedBy
  <2>6. CutOnlyWhenLate'
    BY <1>1, <2>1, <2>4 DEF ServiceInv, CutOnlyWhenLate
  <2>7. OrphanInv'
    <3>1. conn[c].state = "idle" /\ orphans' = orphans /\ OrphanInv
      BY <1>3 DEF Arrive, ServiceInv
    <3> QED
      BY <1>1, <2>4, <3>1, OrphansStay DEF OrphanInv, Awaited
  <2> QED
    BY <2>3, <2>5, <2>6, <2>7 DEF ActiveInv
<1>4. ASSUME NEW c \in Conn, Answer(c)
      PROVE  conn' \in [Conn -> ConnState] /\ (ActiveInv /\ OrphanInv /\ CutOnlyWhenLate)'
  <2>1. PICK x \in ConnState : x = conn[c]
    BY DEF ServiceInv, CoreTypes
  <2>2. [x EXCEPT !.state = "done"] \in ConnState /\ [x EXCEPT !.state = "done"].state = "done"
    BY DEF ConnState
  <2>3. conn' = [conn EXCEPT ![c] = [conn[c] EXCEPT !.state = "done"]]
    BY <1>4 DEF Answer
  <2>4. /\ conn' \in [Conn -> ConnState]
        /\ conn'[c].state = "done"
        /\ \A d \in Conn : d # c => conn'[d] = conn[d]
    BY <2>1, <2>2, <2>3 DEF ServiceInv, CoreTypes
  <2>5. ASSUME NEW d \in Conn, conn'[d].state = "active"
        PROVE  ServedBy(d)'
    BY <1>1, <2>4, <2>5 DEF ServiceInv, ActiveInv, ServedBy
  <2>6. CutOnlyWhenLate'
    BY <1>1, <2>4 DEF ServiceInv, CutOnlyWhenLate
  <2>7. OrphanInv'
    <3>1. conn[c].state = "active" /\ orphans' = orphans /\ OrphanInv
      BY <1>4 DEF Answer, ServiceInv
    <3> QED
      BY <1>1, <2>4, <3>1, OrphansStay DEF OrphanInv, Awaited
  <2> QED
    BY <2>4, <2>5, <2>6, <2>7 DEF ActiveInv
<1>5. ASSUME Probe \/ Tick \/ UNCHANGED vars
      PROVE  conn' \in [Conn -> ConnState] /\ (ActiveInv /\ OrphanInv /\ CutOnlyWhenLate)'
  <2>1. conn' = conn /\ orphans' = orphans
    BY <1>5 DEF Probe, Tick, vars, clientVars
  <2> QED
    BY <1>1, <2>1, RequestsStay DEF ServiceInv, CoreTypes
<1>6. ASSUME NEW c \in Conn, HandlerEnds(c)
      PROVE  conn' \in [Conn -> ConnState] /\ (ActiveInv /\ OrphanInv /\ CutOnlyWhenLate)'
  <2>1. conn' = conn /\ orphans' \subseteq orphans
    BY <1>6 DEF HandlerEnds
  <2> QED
    BY <1>1, <2>1 DEF ServiceInv, CoreTypes, ActiveInv, ServedBy, OrphanInv, Awaited,
                      CutOnlyWhenLate
<1> QED
  BY <1>1, <1>2, <1>3, <1>4, <1>5, <1>6 DEF ServiceInv, CoreTypes

-----------------------------------------------------------------------------
LEMMA ServiceStep == ServiceInv /\ [Next]_vars => ServiceInv'
<1> SUFFICES ASSUME ServiceInv, [Next]_vars PROVE ServiceInv'
  OBVIOUS
<1>1. CASE MainStep \/ Signal
  BY <1>1, MainKeeps, ShutdownKeeps, ExitKeeps DEF MainStep
<1>2. ASSUME NEW p \in Protocols, ServerStep(p) \/ ServeFails(p)
      PROVE  ServiceInv'
  BY <1>2, ServerMoves, ServeKeeps, DrpcStopKeeps, TimedOutKeeps DEF ServerStep
<1>3. ASSUME NEW p \in Protocols, NEW c \in Conn, Arrive(c, p)
      PROVE  ServiceInv'
  BY <1>3, ClientKeeps
<1>4. ASSUME NEW c \in Conn, Answer(c) \/ HandlerEnds(c)
      PROVE  ServiceInv'
  BY <1>4, ClientKeeps
<1>5. CASE Probe \/ Tick \/ UNCHANGED vars
  BY <1>5, ClientKeeps
<1> QED
  BY <1>1, <1>2, <1>3, <1>4, <1>5 DEF Next

\* Where requests are at work, and what a service closes when.
THEOREM LifecycleIsKept == Spec => []LifecycleInv
<1>1. LifecycleInv /\ [Next]_vars => LifecycleInv'
  BY FlagStep, ClockStep, ServiceStep DEF LifecycleInv
<1> QED
  BY <1>1, LifecycleInit, PTL DEF Spec

\* The variables keep their types, and a service exits after its servers have ended.
THEOREM LifecycleTypes == Spec => []LifecycleTypeOK
BY LifecycleIsKept, InvTypes, PTL

\* The auth service closes its database under no DRPC call, and under no HTTP request
\* but of a server that has failed or whose shutdown timeout was over, whose handlers
\* run on without their connections.
THEOREM DatabaseIsClosedLast == Spec => []DatabaseOutlivesRequests
<1>1. LifecycleInv => DatabaseOutlivesRequests
  <2> SUFFICES ASSUME LifecycleInv, service = "auth", resource = "closed",
                      NEW c \in Conn, AtWork(c)
               PROVE  server[conn[c].on] = "failed" \/ conn[c].on \in late
    BY DEF DatabaseOutlivesRequests
  <2>1. \A p \in Protocols : server[p] \in {"ended", "failed"}
    BY DEF LifecycleInv, ServiceInv, OrderInv, Ended
  <2>2. CASE conn[c].state = "active"
    BY <2>1, <2>2 DEF LifecycleInv, ServiceInv, ActiveInv, ServedBy
  <2>3. CASE c \in orphans
    BY <2>1, <2>3 DEF LifecycleInv, ServiceInv, OrphanInv, Awaited, Protocols
  <2> QED
    BY <2>2, <2>3 DEF AtWork
<1> QED
  BY <1>1, LifecycleIsKept, PTL

\* A request that the gateway or an HTTP server of the auth service has accepted is
\* only cut when its server has failed or the shutdown timeout was over.
THEOREM OnlyLateAreCut == Spec => []CutOnlyWhenLate
<1>1. LifecycleInv => CutOnlyWhenLate
  BY DEF LifecycleInv, ServiceInv
<1> QED
  BY <1>1, LifecycleIsKept, PTL

-----------------------------------------------------------------------------
(* While the load balancer sends requests, its last probe is less than an  *)
(* interval old, so that what is left of a delay is more than what is left *)
(* of the interval.                                                        *)

\* Before the liveness turns negative nobody stops.
BeforeShutdown ==
  ~inShutdown =>
    /\ \A p \in Http : server[p] \in {"bound", "serving", "failed"}
    /\ service # "auth" => closer = "waiting"

DelayCovers(left) == ShutdownDelay + probe <= left + ProbeInterval

WhileRouted ==
  routes /\ ShutdownDelay > ProbeInterval =>
    /\ \A p \in Http :
         /\ server[p] \in {"bound", "serving", "delay", "failed"}
         /\ server[p] = "delay" => DelayCovers(timer[p])
    /\ service # "auth" =>
         closer = "waiting" \/ (closer = "sleeping" /\ DelayCovers(sleep))

RouteInv == BeforeShutdown /\ WhileRouted /\ RoutedIsAccepted

\* Steps by which nothing is refused and the clock does not move.
LEMMA RoutesStay ==
  ASSUME LifecycleInv, RouteInv, NEW conns \in [Conn -> ConnState],
         conn' = conns, probe' = probe, routes' = routes, service' = service,
         \A c \in Conn : conn'[c].state = "refused" => conn'[c] = conn[c],
         \A p \in Http :
           \/ server'[p] = server[p] /\ timer'[p] = timer[p]
           \/ server[p] = "bound" /\ server'[p] = "serving"
           \/ server[p] = "serving" /\ server'[p] = "failed"
           \/ inShutdown' /\ server[p] = "serving" /\ server'[p] = "delay"
                /\ timer'[p] = ShutdownDelay
           \/ server[p] = "delay" /\ timer[p] = 0 /\ server'[p] = "stopping"
           \/ server[p] = "stopping" /\ server'[p] = "ended",
         inShutdown' = inShutdown \/ inShutdown' = TRUE,
         service # "auth" =>
           \/ closer' = closer /\ sleep' = sleep
           \/ inShutdown' /\ closer' = "sleeping" /\ sleep' = ShutdownDelay
           \/ closer = "stopping"
  PROVE  RouteInv'
<1>t. /\ probe \in Nat /\ probe <= ProbeInterval /\ sleep \in Nat
      /\ \A p \in Http : timer[p] \in Nat
      /\ ShutdownDelay \in Nat /\ ProbeInterval \in Nat
      /\ inShutdown \in BOOLEAN
  BY LifecycleAssumption DEF LifecycleInv, ClockTypes, FlagTypes, Protocols
<1>1. BeforeShutdown'
  BY <1>t DEF RouteInv, BeforeShutdown
<1>2. WhileRouted'
  <2> SUFFICES ASSUME routes, ShutdownDelay > ProbeInterval
               PROVE  (/\ \A p \in Http :
                            /\ server[p] \in {"bound", "serving", "delay", "failed"}
                            /\ server[p] = "delay" => DelayCovers(timer[p])
                       /\ service # "auth" =>
                            closer = "waiting" \/ (closer = "sleeping" /\ DelayCovers(sleep)))'
    BY DEF WhileRouted
  <2>1. /\ \A p \in Http :
            /\ server[p] \in {"bound", "serving", "delay", "failed"}
            /\ server[p] = "delay" => DelayCovers(timer[p])
        /\ service # "auth" =>
             closer = "waiting" \/ (closer = "sleeping" /\ DelayCovers(sleep))
    BY DEF RouteInv, WhileRouted
  <2>2. ShutdownDelay + probe <= ShutdownDelay + ProbeInterval
        /\ ~ ShutdownDelay + probe <= 0 + ProbeInterval
    BY <1>t
  <2>3. ASSUME NEW p \in Http
        PROVE  /\ server'[p] \in {"bound", "serving", "delay", "failed"}
               /\ server'[p] = "delay" => DelayCovers(timer[p])'
    BY <2>1, <2>2 DEF DelayCovers
  <2>4. service # "auth" =>
          (closer = "waiting" \/ (closer = "sleeping" /\ DelayCovers(sleep)))'
    BY <2>1, <2>2 DEF DelayCovers
  <2> QED
    BY <2>3, <2>4
<1>3. RoutedIsAccepted'
  BY DEF RouteInv, RoutedIsAccepted
<1> QED
  BY <1>1, <1>2, <1>3 DEF RouteInv

\* The steps of the servers.
LEMMA ServersKeepRoutes ==
  ASSUME LifecycleInv, RouteInv, NEW p \in Protocols, ServerStep(p) \/ ServeFails(p)
  PROVE  RouteInv'
<1>t. /\ server \in [Protocols -> {"bound", "serving", "delay", "stopping", "ended", "failed"}]
      /\ timer \in [Protocols -> Nat] /\ conn \in [Conn -> ConnState] /\ CoreTypes
      /\ Http \subseteq Protocols /\ inShutdown \in BOOLEAN /\ Http \cap Drpc = {}
  BY DEF LifecycleInv, ServiceInv, CoreTypes, ClockTypes, FlagTypes, Protocols, Http, Drpc
<1>s. ASSUME NEW s, server' = [server EXCEPT ![p] = s], NEW q \in Http
      PROVE  IF q = p THEN server'[q] = s ELSE server'[q] = server[q]
  <2>1. q \in Protocols
    BY DEF Protocols
  <2> QED
    BY <1>t, <1>s, <2>1
<1>1. CASE Serve(p) \/ DrpcStop(p)
  <2>1. /\ UNCHANGED <<service, timer, closer, sleep, inShutdown, routes, probe>>
        /\ \E cs : Become(cs, "active") \/ Become(cs, "cut")
    BY <1>1 DEF Serve, DrpcStop, Cut
  <2>2. /\ conn' \in [Conn -> ConnState]
        /\ \A c \in Conn : conn'[c].state = "refused" => conn'[c] = conn[c]
    <3>1. PICK cs : \E s \in {"active", "cut"} : Become(cs, s)
      BY <2>1
    <3>s. PICK s \in {"active", "cut"} : Become(cs, s)
      BY <3>1
    <3>2. conn' \in [Conn -> ConnState]
      BY <1>t, <3>s, BecomeShape
    <3>3. \A c \in Conn :
            conn'[c] = IF c \in cs THEN [conn[c] EXCEPT !.state = s] ELSE conn[c]
      BY <3>s DEF Become
    <3>4. \A c \in Conn : c \in cs => conn'[c].state = s
      BY <1>t, <3>s, BecomeShape
    <3> QED
      BY <3>2, <3>3, <3>4
  <2>3. \A q \in Http :
          server'[q] = server[q] \/ (server[q] = "bound" /\ server'[q] = "serving")
    <3>1. CASE Serve(p)
      BY <1>s, <3>1 DEF Serve
    <3>2. CASE DrpcStop(p)
      <4>1. p \notin Http /\ server' = [server EXCEPT ![p] = "stopping"]
        BY <1>t, <3>2 DEF DrpcStop
      <4> QED
        BY <1>s, <4>1
    <3> QED
      BY <1>1, <3>1, <3>2
  <2> QED
    BY <2>1, <2>2, <2>3, RoutesStay
<1>2. CASE ServeFails(p) \/ AuthStop(p) \/ Drained(p)
  <2>1. /\ UNCHANGED <<service, closer, sleep, inShutdown, routes, probe, conn>>
        /\ \A q \in Http :
             \/ server'[q] = server[q] /\ timer'[q] = timer[q]
             \/ server[q] = "serving" /\ server'[q] = "failed"
             \/ server[q] = "delay" /\ timer[q] = 0 /\ server'[q] = "stopping"
             \/ server[q] = "stopping" /\ server'[q] = "ended"
    BY <1>2, <1>t DEF ServeFails, AuthStop, Drained, clientVars
  <2> QED
    BY <1>t, <2>1, RoutesStay
<1>3. CASE AuthDelay(p)
  <2>1. /\ UNCHANGED <<service, closer, sleep, routes, probe, conn>> /\ inShutdown' = TRUE
        /\ \A q \in Http :
             \/ server'[q] = server[q] /\ timer'[q] = timer[q]
             \/ server[q] = "serving" /\ server'[q] = "delay" /\ timer'[q] = ShutdownDelay
    BY <1>3, <1>t DEF AuthDelay, clientVars
  <2> QED
    BY <1>t, <2>1, RoutesStay
<1>4. CASE TimedOut(p)
  <2>1. /\ UNCHANGED <<service, timer, closer, sleep, inShutdown, routes, probe>>
        /\ UNCHANGED conn \/ Become(Active(p), "cut")
        /\ \A q \in Http :
             server'[q] = server[q] \/ (server[q] = "stopping" /\ server'[q] = "ended")
    <3>1. /\ UNCHANGED <<service, timer, closer, sleep, inShutdown, routes, probe>>
          /\ UNCHANGED conn \/ Become(Active(p), "cut")
      BY <1>4, Zenon DEF TimedOut, Cut
    <3>2. server[p] = "stopping" /\ server' = [server EXCEPT ![p] = "ended"]
      BY <1>4 DEF TimedOut
    <3>3. \A q \in Http :
            server'[q] = server[q] \/ (server[q] = "stopping" /\ server'[q] = "ended")
      BY <1>s, <3>2
    <3> QED
      BY <3>1, <3>3
  <2>2. /\ conn' \in [Conn -> ConnState]
        /\ \A c \in Conn : conn'[c].state = "refused" => conn'[c] = conn[c]
    <3>1. CASE UNCHANGED conn
      BY <1>t, <3>1
    <3>2. CASE Become(Active(p), "cut")
      <4>1. conn' \in [Conn -> ConnState]
        BY <1>t, <3>2, BecomeShape
      <4>2. \A c \in Conn :
              conn'[c] = IF c \in Active(p) THEN [conn[c] EXCEPT !.state = "cut"] ELSE conn[c]
        BY <3>2 DEF Become
      <4>3. \A c \in Conn : c \in Active(p) => conn'[c].state = "cut"
        BY <1>t, <3>2, BecomeShape
      <4> QED
        BY <4>1, <4>2, <4>3
    <3> QED
      BY <2>1, <3>1, <3>2
  <2> QED
    BY <2>1, <2>2, RoutesStay
<1> QED
  BY <1>1, <1>2, <1>3, <1>4 DEF ServerStep

\* The steps of the mains: the servers stop when the delay is over, by when the load
\* balancer has asked again.
LEMMA MainKeepsRoutes ==
  ASSUME LifecycleInv, RouteInv, MainStep \/ Signal
  PROVE  RouteInv'
<1>t. /\ server \in [Protocols -> {"bound", "serving", "delay", "stopping", "ended", "failed"}]
      /\ timer \in [Protocols -> Nat] /\ conn \in [Conn -> ConnState] /\ CoreTypes
      /\ Http \subseteq Protocols /\ inShutdown \in BOOLEAN /\ OrderInv
      /\ probe \in Nat /\ ShutdownDelay \in Nat /\ ProbeInterval \in Nat
  BY LifecycleAssumption
     DEF LifecycleInv, ServiceInv, CoreTypes, ClockTypes, FlagTypes, Protocols, Http, Drpc
<1>1. CASE StartupCheck \/ SetStartupDone \/ CloseLayer \/ RunReturns \/ Signal
  <2>1. UNCHANGED <<service, server, timer, closer, sleep, inShutdown, routes, probe, conn>>
    BY <1>1 DEF StartupCheck, SetStartupDone, CloseLayer, RunReturns, Signal, clientVars
  <2> QED
    BY <1>t, <2>1, RoutesStay
<1>2. CASE CloseBegins
  <2>1. /\ UNCHANGED <<service, server, timer, routes, probe, conn>>
        /\ inShutdown' = TRUE /\ closer' = "sleeping" /\ sleep' = ShutdownDelay
    BY <1>2 DEF CloseBegins, clientVars
  <2> QED
    BY <1>t, <2>1, RoutesStay
<1>3. CASE CloseReturns \/ AuthClose
  <2>1. /\ UNCHANGED <<service, server, timer, sleep, inShutdown, routes, probe, conn>>
        /\ service # "auth" => closer = "stopping"
    BY <1>3 DEF CloseReturns, AuthClose, clientVars
  <2> QED
    BY <1>t, <2>1, RoutesStay
<1>4. CASE Exit
  <2>1. /\ UNCHANGED <<service, server, timer, closer, sleep, inShutdown, routes, probe>>
        /\ \E cs : Become(cs, "cut")
    BY <1>4 DEF Exit, Cut
  <2>2. PICK cs : Become(cs, "cut")
    BY <2>1
  <2>3. conn' \in [Conn -> ConnState]
    BY <1>t, <2>2, BecomeShape
  <2>4. \A c \in Conn : conn'[c] = IF c \in cs THEN [conn[c] EXCEPT !.state = "cut"] ELSE conn[c]
    BY <2>2 DEF Become
  <2>5. \A c \in Conn : c \in cs => conn'[c].state = "cut"
    BY <1>t, <2>2, BecomeShape
  <2> QED
    BY <2>1, <2>3, <2>4, <2>5, RoutesStay
<1>5. CASE Shutdown
  <2>1. /\ closer = "sleeping" /\ sleep = 0 /\ service # "auth"
        /\ UNCHANGED <<service, routes, probe, inShutdown>>
        /\ \E cs : Become(cs, "cut")
        /\ \A p \in Protocols : server[p] = "failed" => server'[p] = "failed"
    BY <1>5, <1>t DEF Shutdown, Cut, OrderInv
  <2>2. inShutdown
    BY <2>1 DEF RouteInv, BeforeShutdown
  <2>3. ~(routes /\ ShutdownDelay > ProbeInterval)
    BY <1>t, <2>1 DEF RouteInv, WhileRouted, DelayCovers
  <2>4. \A c \in Conn : conn'[c].on = conn[c].on
          /\ (conn'[c].state = "refused" => conn[c].state = "refused")
    <3>1. PICK cs : Become(cs, "cut")
      BY <2>1
    <3> QED
      BY <1>t, <3>1, BecomeShape
  <2>5. RoutedIsAccepted'
    BY <1>t, <2>1, <2>4 DEF RouteInv, RoutedIsAccepted
  <2> QED
    BY <2>1, <2>2, <2>3, <2>5 DEF RouteInv, BeforeShutdown, WhileRouted
<1> QED
  BY <1>1, <1>2, <1>3, <1>4, <1>5 DEF MainStep

\* The load balancer asks, clients come, and time passes.
LEMMA ClientsKeepRoutes ==
  ASSUME LifecycleInv, RouteInv,
         \/ Probe \/ Tick \/ UNCHANGED vars
         \/ \E c \in Conn : Answer(c) \/ HandlerEnds(c) \/ \E p \in Protocols : Arrive(c, p)
  PROVE  RouteInv'
<1>t. /\ server \in [Protocols -> {"bound", "serving", "delay", "stopping", "ended", "failed"}]
      /\ timer \in [Protocols -> Nat] /\ conn \in [Conn -> ConnState] /\ CoreTypes
      /\ Http \subseteq Protocols /\ inShutdown \in BOOLEAN /\ OrderInv
      /\ probe \in Nat /\ probe <= ProbeInterval /\ sleep \in Nat
      /\ ShutdownDelay \in Nat /\ ProbeInterval \in Nat
  BY LifecycleAssumption
     DEF LifecycleInv, ServiceInv, CoreTypes, ClockTypes, FlagTypes, Protocols, Http, Drpc
<1>1. CASE Probe
  <2>1. UNCHANGED <<service, server, timer, closer, sleep, inShutdown, conn>>
        /\ routes' = Healthy
    BY <1>1 DEF Probe, procVars
  <2>2. routes' => ~inShutdown
    BY <2>1 DEF Healthy
  <2>3. WhileRouted'
    <3>1. CASE ~routes'
      BY <3>1 DEF WhileRouted
    <3>2. CASE routes'
      <4>1. /\ \A p \in Http : server'[p] \in {"bound", "serving", "failed"}
            /\ service' # "auth" => closer' = "waiting"
        BY <2>1, <2>2, <3>2 DEF RouteInv, BeforeShutdown
      <4>2. \A p \in Http : server'[p] # "delay"
        BY <4>1
      <4> QED
        BY <4>1, <4>2 DEF WhileRouted
    <3> QED
      BY <3>1, <3>2
  <2> QED
    BY <2>1, <2>3 DEF RouteInv, BeforeShutdown, RoutedIsAccepted
<1>2. CASE Tick
  <2>1. /\ UNCHANGED <<service, server, closer, inShutdown, routes, conn>>
        /\ probe > 0 /\ probe' = probe - 1 /\ sleep' = Down(sleep)
        /\ timer' = [p \in Protocols |-> Down(timer[p])]
    BY <1>2 DEF Tick
  <2>2. ASSUME NEW left \in Nat, ShutdownDelay > ProbeInterval, DelayCovers(left)
        PROVE  ShutdownDelay + probe' <= Down(left) + ProbeInterval
    BY <1>t, <2>1, <2>2 DEF DelayCovers, Down
  <2>3. WhileRouted'
    <3> SUFFICES ASSUME routes, ShutdownDelay > ProbeInterval
                 PROVE  (/\ \A p \in Http :
                              /\ server[p] \in {"bound", "serving", "delay", "failed"}
                              /\ server[p] = "delay" => DelayCovers(timer[p])
                         /\ service # "auth" =>
                              closer = "waiting" \/ (closer = "sleeping" /\ DelayCovers(sleep)))'
      BY <2>1 DEF WhileRouted
    <3>1. /\ \A p \in Http :
              /\ server[p] \in {"bound", "serving", "delay", "failed"}
              /\ server[p] = "delay" => DelayCovers(timer[p])
          /\ service # "auth" =>
               closer = "waiting" \/ (closer = "sleeping" /\ DelayCovers(sleep))
      BY DEF RouteInv, WhileRouted
    <3>2. \A p \in Http : timer'[p] = Down(timer[p]) /\ timer[p] \in Nat
      BY <1>t, <2>1
    <3>3. ASSUME NEW p \in Http, server'[p] = "delay"
          PROVE  DelayCovers(timer[p])'
      BY <2>1, <2>2, <3>1, <3>2, <3>3 DEF DelayCovers
    <3>4. closer = "sleeping" /\ DelayCovers(sleep) => DelayCovers(sleep)'
      BY <1>t, <2>1, <2>2 DEF DelayCovers
    <3>5. \A p \in Http :
            (/\ server[p] \in {"bound", "serving", "delay", "failed"}
             /\ server[p] = "delay" => DelayCovers(timer[p]))'
      BY <2>1, <3>1, <3>3
    <3>6. (service # "auth" =>
             closer = "waiting" \/ (closer = "sleeping" /\ DelayCovers(sleep)))'
      <4>1. closer' = closer /\ service' = service
        BY <2>1
      <4> QED
        BY <3>1, <3>4, <4>1
    <3> QED
      BY <3>5, <3>6
  <2> QED
    BY <2>1, <2>3 DEF RouteInv, BeforeShutdown, RoutedIsAccepted
<1>3. ASSUME NEW c \in Conn, Answer(c)
      PROVE  RouteInv'
  <2>1. UNCHANGED <<service, server, timer, closer, sleep, inShutdown, routes, probe>>
        /\ conn' = [conn EXCEPT ![c].state = "done"]
    BY <1>3 DEF Answer, procVars
  <2>2. PICK x \in ConnState : x = [conn[c] EXCEPT !.state = "done"] /\ x.state = "done"
    <3>1. PICK y \in ConnState : y = conn[c]
      BY <1>t
    <3>2. [y EXCEPT !.state = "done"] \in ConnState /\ [y EXCEPT !.state = "done"].state = "done"
      BY DEF ConnState
    <3> QED
      BY <3>1, <3>2
  <2>3. conn' = [conn EXCEPT ![c] = x]
    BY <2>1, <2>2
  <2>4. conn' \in [Conn -> ConnState]
        /\ \A d \in Conn : conn'[d].state = "refused" => conn'[d] = conn[d]
    BY <1>t, <2>2, <2>3
  <2> QED
    BY <2>1, <2>4, RoutesStay
<1>4. ASSUME NEW c \in Conn, NEW p \in Protocols, Arrive(c, p)
      PROVE  RouteInv'
  <2>1. UNCHANGED <<service, server, timer, closer, sleep, inShutdown, routes, probe, exited>>
        /\ routes
    BY <1>4 DEF Arrive, procVars
  <2> DEFINE state == CASE ~Accepts(p) -> "refused"
                        [] server[p] = "bound" -> "queued"
                        [] OTHER -> "active"
  <2>2. /\ conn' = [conn EXCEPT ![c] = [state |-> state, on |-> p]]
        /\ state = "refused" => ~Accepts(p)
    <3>1. conn' = [conn EXCEPT ![c] = [state |-> state, on |-> p]]
      BY <1>4 DEF Arrive
    <3>2. state = "refused" => ~Accepts(p)
      OBVIOUS
    <3> QED
      BY <3>1, <3>2
  <2> HIDE DEF state
  <2>3. /\ conn'[c].state = state /\ conn'[c].on = p
        /\ \A d \in Conn \ {c} : conn'[d] = conn[d]
    BY <1>t, <2>2
  <2>4. ASSUME state = "refused", p \in Http, ShutdownDelay > ProbeInterval
        PROVE  server[p] = "failed"
    <3>1. server[p] \in {"bound", "serving", "delay", "failed"}
      BY <2>1, <2>4 DEF RouteInv, WhileRouted
    <3>2. exited => server[p] = "failed"
      BY <1>t, <3>1 DEF OrderInv, Ended
    <3> QED
      BY <2>2, <2>4, <3>1, <3>2 DEF Accepts
  <2>5. RoutedIsAccepted'
    <3> SUFFICES ASSUME NEW d \in Conn, conn'[d].state = "refused", conn'[d].on \in Http,
                        ShutdownDelay > ProbeInterval
                 PROVE  server[conn'[d].on] = "failed"
      BY <2>1 DEF RoutedIsAccepted
    <3>1. CASE d = c
      BY <2>3, <2>4, <3>1
    <3>2. CASE d # c
      BY <2>3, <3>2 DEF RouteInv, RoutedIsAccepted
    <3> QED
      BY <3>1, <3>2
  <2> QED
    BY <2>1, <2>5 DEF RouteInv, BeforeShutdown, WhileRouted, DelayCovers
<1>5. CASE UNCHANGED vars \/ \E c \in Conn : HandlerEnds(c)
  <2>1. UNCHANGED <<procVars, conn, routes, probe>>
    BY <1>5 DEF HandlerEnds, vars, clientVars
  <2> QED
    BY <2>1 DEF procVars, RouteInv, BeforeShutdown, WhileRouted, RoutedIsAccepted,
                DelayCovers
<1> QED
  BY <1>1, <1>2, <1>3, <1>4, <1>5

LEMMA RouteStep == LifecycleInv /\ RouteInv /\ [Next]_vars => RouteInv'
BY ServersKeepRoutes, MainKeepsRoutes, ClientsKeepRoutes DEF Next

\* Where the delay is longer than the time between two probes, no request that the
\* load balancer sends finds the listener of an HTTP server closed, unless it failed.
THEOREM RoutedAreAccepted == Spec => []RoutedIsAccepted
<1>1. Init => RouteInv
  <2>1. Http \subseteq Protocols
    BY DEF Protocols
  <2> QED
    BY <2>1 DEF Init, RouteInv, BeforeShutdown, WhileRouted, RoutedIsAccepted, Uses
<1>2. RouteInv => RoutedIsAccepted
  BY DEF RouteInv
<1> QED
  BY <1>1, <1>2, RouteStep, LifecycleIsKept, PTL DEF Spec
=============================================================================
