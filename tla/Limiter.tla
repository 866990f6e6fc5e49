------------------------------ MODULE Limiter ------------------------------
(***************************************************************************)
(* The concurrency limiter of pkg/server/middleware: a request counts      *)
(* itself under its key, looks at the count in a second critical section,  *)
(* and takes itself out again when its handler has returned, also when it  *)
(* was turned away.  A key that counts 0 is no longer in the map.          *)
(***************************************************************************)
EXTENDS Naturals, FiniteSets

CONSTANTS
  Request,   \* requests that are served at the same time
  LimitKey,  \* macaroon heads, and the one key of all who have none
  Allowed,   \* requests of one key that may be served at a time
  None

Slot == [phase: {"counted", "inside", "refused"}, key: LimitKey]

\* What a module that uses the limiter has to assume of its constants.
LimiterAssumption ==
  /\ IsFiniteSet(Request) /\ Allowed \in Nat
  /\ None \notin Slot

VARIABLES
  limits,  \* limits[k]: the count under k
  slot,    \* slot[r]: how far r is in the limiter, and its key; or None
  leaked   \* leaked[k]: history: requests of k whose handler panicked

limiterVars == <<limits, slot, leaked>>

LimiterInit ==
  /\ limits = [k \in LimitKey |-> 0]
  /\ slot = [r \in Request |-> None]
  /\ leaked = [k \in LimitKey |-> 0]

\* r is in the limiter, in one of the phases.
In(r, phases) == slot[r] # None /\ slot[r].phase \in phases

MoveTo(r, phase) == slot' = [slot EXCEPT ![r] = [@ EXCEPT !.phase = phase]]

Leave(r) == slot' = [slot EXCEPT ![r] = None]

Increment(r, k) ==
  /\ slot[r] = None
  /\ limits' = [limits EXCEPT ![k] = @ + 1]
  /\ slot' = [slot EXCEPT ![r] = [phase |-> "counted", key |-> k]]
  /\ UNCHANGED leaked

\* A variant: a request is let in while the count is at most one too many.
Admit_OneMore(r) ==
  /\ In(r, {"counted"})
  /\ limits[slot[r].key] <= Allowed + 1
  /\ MoveTo(r, "inside")
  /\ UNCHANGED <<limits, leaked>>

Admit(r) ==
  /\ In(r, {"counted"})
  /\ limits[slot[r].key] <= Allowed
  /\ MoveTo(r, "inside")
  /\ UNCHANGED <<limits, leaked>>

\* A variant: who would be the last one for whom there is room is turned away.
Refuse_Early(r) ==
  /\ In(r, {"counted"})
  /\ limits[slot[r].key] >= Allowed
  /\ MoveTo(r, "refused")
  /\ UNCHANGED <<limits, leaked>>

\* limitFunc answers the request.
Refuse(r) ==
  /\ In(r, {"counted"})
  /\ limits[slot[r].key] > Allowed
  /\ MoveTo(r, "refused")
  /\ UNCHANGED <<limits, leaked>>

\* A variant: who was turned away stays counted.
Decrement_Served(r) ==
  /\ In(r, {"inside", "refused"})
  /\ limits' = [limits EXCEPT ![slot[r].key] =
       IF slot[r].phase = "inside" THEN @ - 1 ELSE @]
  /\ Leave(r)
  /\ UNCHANGED leaked

\* The handler or limitFunc has returned.
Decrement(r) ==
  /\ In(r, {"inside", "refused"})
  /\ limits' = [limits EXCEPT ![slot[r].key] = @ - 1]
  /\ Leave(r)
  /\ UNCHANGED leaked

\* The handler panics: the decrement is not deferred.
Panic(r) ==
  /\ In(r, {"inside"})
  /\ leaked' = [leaked EXCEPT ![slot[r].key] = @ + 1]
  /\ Leave(r)
  /\ UNCHANGED limits

LimiterNext ==
  \E r \in Request :
    \/ \E k \in LimitKey : Increment(r, k)
    \/ Admit(r) \/ Refuse(r) \/ Decrement(r) \/ Panic(r)

LimiterSpec == LimiterInit /\ [][LimiterNext]_limiterVars
-----------------------------------------------------------------------------
\* The requests that hold or want one of k's slots, and those that have one.
Counted(k) == {r \in Request : slot[r] # None /\ slot[r].key = k}
Inside(k)  == {r \in Counted(k) : slot[r].phase = "inside"}

LimiterTypeOK ==
  /\ limits \in [LimitKey -> Nat]
  /\ slot \in [Request -> Slot \cup {None}]
  /\ leaked \in [LimitKey -> Nat]

\* The counts survive any interleaving of their critical sections: every count is
\* the number of requests that will still take themselves out, plus those whose
\* handler panicked, which never will.
SlotsAccounted ==
  \A k \in LimitKey : limits[k] = Cardinality(Counted(k)) + leaked[k]

\* Although a request compares the count later than it increments it, there are
\* never more than Allowed handlers at work for one key.
AtMostAllowed == \A k \in LimitKey : Cardinality(Inside(k)) <= Allowed

\* A request is turned away only when Allowed others are there or have panicked:
\* nobody who has left is held against it.
RefusedOnlyWhenCrowded ==
  [][\A r \in Request :
       In(r, {"counted"}) /\ In(r, {"refused"})' =>
         LET k == slot[r].key
         IN  Cardinality(Counted(k) \ {r}) + leaked[k] >= Allowed]_limiterVars
=============================================================================
