------------------------------- MODULE GcsLock -------------------------------
(***************************************************************************)
(* The distributed lock of pkg/gcslock: whoever creates the lock object in *)
(* the bucket holds the lock, refreshes the object's expiration while it   *)
(* does, and deletes it when it is done.  Others delete an object that has *)
(* expired.  Every delete and refresh is conditional on the metageneration *)
(* of the object, which is 1 for every object that is created.             *)
(*                                                                         *)
(* Time is counted down: what the object has left, what is left until the  *)
(* next refresh.  The processes' clocks agree.                             *)
(***************************************************************************)
EXTENDS Naturals

CONSTANTS
  Mutex,     \* one Mutex in each process
  TTL,       \* lifetime of the object after a refresh
  Interval,  \* time between refreshes
  MaxMeta,   \* bound of the model: refreshes of one object, plus one
  MaxFaults, \* bound of the model: see faults
  None

Object == [metageneration: 1 .. MaxMeta, left: 0 .. TTL]

ASSUME LockAssumption ==
  /\ TTL \in Nat /\ Interval \in Nat /\ Interval > 0 /\ Interval < TTL
  /\ MaxMeta \in Nat \ {0} /\ MaxFaults \in Nat
  /\ None \notin Object

VARIABLES
  object,  \* the lock object in the bucket, or None
  mutex,   \* mutex[m]: where a call on m is, and what m knows
  faults   \* crashes, failed requests, slow processes and contexts that ended so far

vars == <<object, mutex, faults>>

MutexState == [phase: {"idle", "put", "stat", "delete", "held", "unlock"},
               lastKnown: 1 .. MaxMeta,  \* lastKnownMetageneration
               seen: 1 .. MaxMeta,       \* the metageneration Stat returned
               refreshing: BOOLEAN,      \* the refresh cycle runs
               due: 0 .. Interval]       \* until its next run

Idle == [phase |-> "idle", lastKnown |-> 1, seen |-> 1, refreshing |-> FALSE,
         due |-> 0]

NewObject == [metageneration |-> 1, left |-> TTL]

Init ==
  /\ object = None
  /\ mutex = [m \in Mutex |-> Idle]
  /\ faults = 0

Matches(metageneration) ==
  object # None /\ object.metageneration = metageneration

GoTo(m, phase) == mutex' = [mutex EXCEPT ![m] = [@ EXCEPT !.phase = phase]]

Fault == faults < MaxFaults /\ faults' = faults + 1

-----------------------------------------------------------------------------
(* The requests to the object store.                                       *)

\* The upload whose precondition is that there is no object.
Upload == object = None /\ object' = NewObject

\* The metageneration and the time left of the object that is there.
Stat(m) ==
  mutex' = [mutex EXCEPT ![m] =
    [@ EXCEPT !.phase = "delete", !.seen = object.metageneration]]

\* The delete whose precondition is the metageneration.
Delete(metageneration) ==
  object' = IF Matches(metageneration) THEN None ELSE object

-----------------------------------------------------------------------------
(* Lock.                                                                   *)

LockCall(m) ==
  /\ mutex[m].phase = "idle"
  /\ GoTo(m, "put")
  /\ UNCHANGED <<object, faults>>

Held(s) == [s EXCEPT !.phase = "held", !.lastKnown = 1, !.refreshing = TRUE,
                     !.due = Interval]

\* A variant: the upload has no precondition.
PutCreates_Always(m) ==
  /\ mutex[m].phase = "put"
  /\ object' = NewObject
  /\ mutex' = [mutex EXCEPT ![m] = Held(@)]
  /\ UNCHANGED faults

PutCreates(m) ==
  /\ mutex[m].phase = "put"
  /\ Upload
  /\ mutex' = [mutex EXCEPT ![m] = Held(@)]
  /\ UNCHANGED faults

PutExists(m) ==
  /\ mutex[m].phase = "put"
  /\ object # None
  /\ GoTo(m, "stat")
  /\ UNCHANGED <<object, faults>>

\* The object is created but the response is lost: the upload is tried again.
PutUnheard(m) ==
  /\ mutex[m].phase = "put"
  /\ Fault
  /\ Upload
  /\ UNCHANGED mutex

\* shouldWait: the object is gone, or it has time left, or Stat fails.
StatWaits(m) ==
  /\ mutex[m].phase = "stat"
  /\ \/ (object # None => object.left > 0) /\ UNCHANGED faults
     \/ Fault
  /\ GoTo(m, "put")
  /\ UNCHANGED object

\* A variant: the expiration is not looked at.
StatExpired_Any(m) ==
  /\ mutex[m].phase = "stat"
  /\ object # None
  /\ Stat(m)
  /\ UNCHANGED <<object, faults>>

StatExpired(m) ==
  /\ mutex[m].phase = "stat"
  /\ object # None
  /\ object.left = 0
  /\ Stat(m)
  /\ UNCHANGED <<object, faults>>

\* A variant: the delete names the metageneration that m last knew itself.
DeleteExpired_Own(m) ==
  /\ mutex[m].phase = "delete"
  /\ Delete(mutex[m].lastKnown)
  /\ GoTo(m, "put")
  /\ UNCHANGED faults

\* The delete of an expired object, which comes later than the Stat.
DeleteExpired(m) ==
  /\ mutex[m].phase = "delete"
  /\ Delete(mutex[m].seen)
  /\ GoTo(m, "put")
  /\ UNCHANGED faults

DeleteFails(m) ==
  /\ mutex[m].phase = "delete"
  /\ Fault
  /\ GoTo(m, "put")
  /\ UNCHANGED object

\* The caller's context ends while Lock waits.
LockGivesUp(m) ==
  /\ mutex[m].phase = "put"
  /\ GoTo(m, "idle")
  /\ UNCHANGED <<object, faults>>

-----------------------------------------------------------------------------
(* The refresh cycle.                                                      *)

Refreshing(m) ==
  /\ mutex[m].phase = "held"
  /\ mutex[m].refreshing
  /\ mutex[m].due = 0

Refreshed == [metageneration |-> object.metageneration + 1, left |-> TTL]

\* The cycle ends with its first error; the holder is not told.
CycleEnds(m) == mutex' = [mutex EXCEPT ![m] = [@ EXCEPT !.refreshing = FALSE]]

Refresh(m) ==
  /\ Refreshing(m)
  /\ Matches(mutex[m].lastKnown)
  /\ object.metageneration < MaxMeta
  /\ object' = Refreshed
  /\ mutex' = [mutex EXCEPT ![m] =
       [@ EXCEPT !.lastKnown = object.metageneration + 1, !.due = Interval]]
  /\ UNCHANGED faults

RefreshRefused(m) ==
  /\ Refreshing(m)
  /\ ~Matches(mutex[m].lastKnown)
  /\ CycleEnds(m)
  /\ UNCHANGED <<object, faults>>

\* The request or its response is lost.
RefreshFails(m) ==
  /\ Refreshing(m)
  /\ Fault
  /\ \/ UNCHANGED object
     \/ /\ Matches(mutex[m].lastKnown)
        /\ object.metageneration < MaxMeta
        /\ object' = Refreshed
  /\ CycleEnds(m)

\* The cycle runs under the context that Lock was given: when that ends before Unlock,
\* so does the cycle, and nothing else has to fail.
LockContextEnds(m) ==
  /\ mutex[m].phase = "held" /\ mutex[m].refreshing
  /\ Fault
  /\ CycleEnds(m)
  /\ UNCHANGED object

-----------------------------------------------------------------------------
(* Unlock.                                                                 *)

\* A variant: the cycle goes on while the object is deleted.
UnlockCall_Refreshing(m) ==
  /\ mutex[m].phase = "held"
  /\ GoTo(m, "unlock")
  /\ UNCHANGED <<object, faults>>

\* The cycle is stopped before the object is deleted.
UnlockCall(m) ==
  /\ mutex[m].phase = "held"
  /\ mutex' = [mutex EXCEPT ![m] =
       [@ EXCEPT !.phase = "unlock", !.refreshing = FALSE]]
  /\ UNCHANGED <<object, faults>>

\* Unlock returns whatever becomes of the delete.
UnlockDelete(m) ==
  /\ mutex[m].phase = "unlock"
  /\ Delete(mutex[m].lastKnown)
  /\ GoTo(m, "idle")
  /\ UNCHANGED faults

UnlockFails(m) ==
  /\ mutex[m].phase = "unlock"
  /\ Fault
  /\ GoTo(m, "idle")
  /\ UNCHANGED object

-----------------------------------------------------------------------------
\* The process of m ends and is started again.
Crash(m) ==
  /\ mutex[m].phase # "idle"
  /\ Fault
  /\ mutex' = [mutex EXCEPT ![m] = Idle]
  /\ UNCHANGED object

Down(t) == IF t = 0 THEN 0 ELSE t - 1

\* Time passes, and not over a refresh or an unlock: those are on time, unless
\* the process or the network is slow.
Tick ==
  /\ \/ (\A m \in Mutex : ~Refreshing(m) /\ mutex[m].phase # "unlock")
          /\ UNCHANGED faults
     \/ Fault
  /\ object' = IF object = None THEN None
               ELSE [object EXCEPT !.left = Down(@)]
  /\ mutex' = [m \in Mutex |->
       IF mutex[m].refreshing THEN [mutex[m] EXCEPT !.due = Down(@)] ELSE mutex[m]]

LockStep(m) ==
  \/ PutCreates(m) \/ PutExists(m) \/ PutUnheard(m)
  \/ StatWaits(m) \/ StatExpired(m)
  \/ DeleteExpired(m) \/ DeleteFails(m)

RefreshStep(m) == Refresh(m) \/ RefreshRefused(m) \/ RefreshFails(m)

UnlockStep(m) == UnlockDelete(m) \/ UnlockFails(m)

Next ==
  \/ Tick
  \/ \E m \in Mutex :
       \/ LockCall(m) \/ LockStep(m) \/ LockGivesUp(m)
       \/ RefreshStep(m) \/ LockContextEnds(m)
       \/ UnlockCall(m) \/ UnlockStep(m)
       \/ Crash(m)

Spec == Init /\ [][Next]_vars

\* A call on a mutex goes on, and so does its refresh cycle; time passes.
Fairness ==
  /\ WF_vars(Tick)
  /\ \A m \in Mutex : /\ WF_vars(LockStep(m))
                      /\ WF_vars(RefreshStep(m))
                      /\ WF_vars(UnlockStep(m))

FairSpec == Spec /\ Fairness
-----------------------------------------------------------------------------
\* Every variable has its type, and a refresh cycle runs only for a holder: it
\* is stopped before Unlock deletes the object.
TypeOK ==
  /\ object \in Object \cup {None}
  /\ mutex \in [Mutex -> MutexState]
  /\ faults \in 0 .. MaxFaults
  /\ \A m \in Mutex : mutex[m].refreshing => mutex[m].phase = "held"

\* The inductive invariant behind MutualExclusion and HolderHasObject until the
\* first fault: the object in the bucket is the owner's, and since the owner
\* refreshes it in time nobody ever comes to delete it as expired.
Owns(m) == mutex[m].phase \in {"held", "unlock"}

OwnerHasObject ==
  /\ \A m \in Mutex : Owns(m) =>
       /\ Matches(mutex[m].lastKnown)
       /\ object.left + Interval >= TTL + mutex[m].due
       /\ mutex[m].phase = "held" => mutex[m].refreshing
  /\ \A m, h \in Mutex : Owns(m) /\ Owns(h) => m = h
  /\ object # None => \E m \in Mutex : Owns(m)

NobodyDeletes == \A m \in Mutex : mutex[m].phase # "delete"

ExclusionInv == TypeOK /\ (faults = 0 => OwnerHasObject /\ NobodyDeletes)

\* Until the first fault at most one process is between the return of Lock and the
\* call of Unlock.
MutualExclusion ==
  faults = 0 =>
    \A m, h \in Mutex :
      mutex[m].phase = "held" /\ mutex[h].phase = "held" => m = h

\* Until the first fault, while m holds the lock the object is there with time
\* left and with the metageneration that m knows: nobody may take it for
\* abandoned, and m's refresh and Unlock apply to it.
HolderHasObject ==
  faults = 0 =>
    \A m \in Mutex : mutex[m].phase = "held" =>
      Matches(mutex[m].lastKnown) /\ object.left > 0

\* What a lock is for: of the processes that were told that they have it, and that have
\* not been refused a refresh and would not be now, there is only one, whatever became
\* of others.
Healthy(m) ==
  mutex[m].phase = "held" /\ mutex[m].refreshing /\ Matches(mutex[m].lastKnown)

HealthyLockIsExclusive ==
  \A m, h \in Mutex : Healthy(m) /\ Healthy(h) => m = h

\* However a holder ends and whatever request is lost, the lock does not stay
\* taken by nobody: who waits for it gives up, or somebody gets it.
LockComesFree ==
  \A m \in Mutex :
    mutex[m].phase = "put" ~>
      (mutex[m].phase = "idle" \/ \E h \in Mutex : mutex[h].phase = "held")
=============================================================================
