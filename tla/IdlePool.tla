------------------------------ MODULE IdlePool ------------------------------
(***************************************************************************)
(* What the connection pool promises (spec 3, PooledConnection, and spec   *)
(* 4.2), free of the array and its cursor.  The pool owns an idle set of   *)
(* handles; a borrowed handle belongs to exactly one request.  acquire     *)
(* takes an idle handle when pooling is on and one exists, and creates a   *)
(* fresh one otherwise; release puts the handle back while the idle set is *)
(* below capacity and destroys it otherwise (always, with pooling off);    *)
(* teardown destroys every idle handle.                                    *)
(***************************************************************************)
EXTENDS Naturals, FiniteSets

CONSTANTS
  Handles,    \* transport handles that can be created
  Requests,   \* in-flight requests
  Capacity,   \* how many idle handles the pool retains
  NoHandle    \* a request that borrows nothing

VARIABLES
  idle,       \* the idle set
  borrowed,   \* borrowed[r]: the handle request r owns, or NoHandle
  live,       \* handles created and not yet destroyed
  used        \* handles ever created (a created handle is never new again)

vars == <<idle, borrowed, live, used>>

Init ==
  /\ idle = {}
  /\ borrowed = [r \in Requests |-> NoHandle]
  /\ live = {}
  /\ used = {}

\* An idle handle changes owner from the pool to r.
AcquireIdle(r) ==
  \E h \in idle :
    /\ idle' = idle \ {h}
    /\ borrowed' = [borrowed EXCEPT ![r] = h]
    /\ UNCHANGED <<live, used>>

\* A new handle is created for r.
AcquireFresh(r) ==
  \E h \in Handles \ used :
    /\ borrowed' = [borrowed EXCEPT ![r] = h]
    /\ live' = live \cup {h}
    /\ used' = used \cup {h}
    /\ UNCHANGED idle

Acquire(r, pooling) ==
  /\ borrowed[r] = NoHandle
  /\ \/ pooling /\ AcquireIdle(r)
     \/ (~pooling \/ idle = {}) /\ AcquireFresh(r)

Release(r, pooling) ==
  LET h == borrowed[r] IN
  /\ h # NoHandle
  /\ borrowed' = [borrowed EXCEPT ![r] = NoHandle]
  /\ IF pooling /\ Cardinality(idle) < Capacity
       THEN idle' = idle \cup {h} /\ UNCHANGED live
       ELSE live' = live \ {h} /\ UNCHANGED idle
  /\ UNCHANGED used

Teardown ==
  /\ \A r \in Requests : borrowed[r] = NoHandle
  /\ live' = live \ idle
  /\ idle' = {}
  /\ UNCHANGED <<borrowed, used>>

Next ==
  \/ \E r \in Requests, p \in BOOLEAN : Acquire(r, p) \/ Release(r, p)
  \/ Teardown

Spec == Init /\ [][Next]_vars
=============================================================================
