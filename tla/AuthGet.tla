------------------------------- MODULE AuthGet -------------------------------
(***************************************************************************)
(* Node.Get on top of the replicated store: a node that does not have the  *)
(* record asks all of its peers at once and returns what the first one     *)
(* has.  The store goes on in between: BadgerAuth's steps interleave with  *)
(* the local lookup and with every single Peek.                            *)
(***************************************************************************)
EXTENDS BadgerAuth

CONSTANT Reader  \* Get calls the cluster serves at a time

VARIABLE get     \* get[r]: a Get and how far it is, or None

Getting == [node: Node, key: Key,
            phase: {"ask", "found", "invalid", "none"},
            waiting: SUBSET Node,   \* the peers that have not answered
            holders: SUBSET Node,   \* history: the peers that have had it throughout
            failed: BOOLEAN,        \* a Peek failed or ran into the timeout
            record: Record \cup {None}]

ASSUME GetAssumption == None \notin Getting

Peers(n) == {Join[n][i] : i \in DOMAIN Join[n]}

GetInit ==
  /\ Init
  /\ get = [r \in Reader |-> None]

\* DB.Get: the local lookup, which tells an invalid record from a valid one.
LocalAnswer(n, k) ==
  CASE Visible(n, k) /\ records[n][k].invalidatedAt # 0 -> "invalid"
    [] Visible(n, k) /\ records[n][k].invalidatedAt = 0 -> "found"
    [] ~Visible(n, k) /\ Peers(n) # {} -> "ask"
    [] OTHER -> "none"

\* A Get of a key that a client was given.
GetStart(r, n, k) ==
  /\ n \in up
  /\ k \in issued
  /\ get[r] = None
  /\ LET answer == LocalAnswer(n, k)
     IN  get' = [get EXCEPT ![r] =
           [node |-> n, key |-> k, phase |-> answer,
            waiting |-> IF answer = "ask" THEN Peers(n) ELSE {},
            holders |-> {p \in Peers(n) : Visible(p, k)},
            failed |-> FALSE,
            record |-> IF answer = "found" THEN records[n][k] ELSE None]]
  /\ UNCHANGED vars

Asking(r, p) ==
  /\ get[r] # None
  /\ get[r].phase = "ask"
  /\ p \in get[r].waiting

\* The Get without p: with no peer left it ends with no record and no error.
Without(g, p, failed) ==
  [g EXCEPT !.waiting = g.waiting \ {p}, !.failed = g.failed \/ failed,
            !.phase = IF g.waiting = {p} THEN "none" ELSE "ask"]

\* The first Peek that brings a record cancels the others.
GetPeek(r, p) ==
  /\ Asking(r, p)
  /\ p \in up
  /\ Visible(p, get[r].key)
  /\ get' = [get EXCEPT ![r] =
       [@ EXCEPT !.phase = "found", !.waiting = {},
                 !.record = records[p][get[r].key]]]
  /\ UNCHANGED vars

\* A variant: the first answer of all ends the call.
GetPeekMisses_Last(r, p) ==
  /\ Asking(r, p)
  /\ p \in up
  /\ ~Visible(p, get[r].key)
  /\ get' = [get EXCEPT ![r] = [@ EXCEPT !.phase = "none", !.waiting = {}]]
  /\ UNCHANGED vars

GetPeekMisses(r, p) ==
  /\ Asking(r, p)
  /\ p \in up
  /\ ~Visible(p, get[r].key)
  /\ get' = [get EXCEPT ![r] = Without(get[r], p, FALSE)]
  /\ UNCHANGED vars

\* A dial or a call fails, or the second that the peers have is over.
GetPeekFails(r, p) ==
  /\ Asking(r, p)
  /\ get' = [get EXCEPT ![r] = Without(get[r], p, TRUE)]
  /\ UNCHANGED vars

\* The call returns to its caller, or its caller is gone.
GetReturn(r) ==
  /\ get[r] # None
  /\ get' = [get EXCEPT ![r] = None]
  /\ UNCHANGED vars

GetStep(r) ==
  \/ \E n \in Node, k \in Key : GetStart(r, n, k)
  \/ \E p \in Node : GetPeek(r, p) \/ GetPeekMisses(r, p) \/ GetPeekFails(r, p)
  \/ GetReturn(r)

\* A step of the store; a Get ends with the process that serves it.
StoreStep ==
  /\ Next
  /\ get' = [r \in Reader |->
       IF get[r] = None \/ get[r].node \notin up' THEN None
       ELSE [get[r] EXCEPT !.holders = {p \in @ : get[r].key \in Held(p)'}]]

GetNext == StoreStep \/ \E r \in Reader : GetStep(r)

getVars == <<vars, get>>

GetSpec == GetInit /\ [][GetNext]_getVars
-----------------------------------------------------------------------------
\* A Get that no Peek failed for finds the record if one of the peers has it from
\* the call on, even one whose process ends in between: the local lookup and the
\* Peeks, each at a time of its own, do not let a record slip through.
FoundWhereHeld ==
  \A r \in Reader :
    get[r] # None /\ get[r].phase = "none" /\ ~get[r].failed =>
      get[r].holders = {}

\* A Get never returns a record that was invalidated: "If the record is invalid,
\* the error contains why" (authdb.KV).
NeverServesInvalid ==
  \A r \in Reader :
    get[r] # None /\ get[r].phase = "found" => get[r].record.invalidatedAt = 0
=============================================================================
