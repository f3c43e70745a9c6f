--------------------------- MODULE ConnectionPool ---------------------------
(***************************************************************************)
(* The connection pool of lib/validation_enhanced.c: the global            *)
(* connection_pool_t (a lazily malloc'd array of CURL*, its fill count     *)
(* pool_size, a round-robin cursor current_index and the fixed capacity    *)
(* max_connections), get_connection_from_pool, return_connection_to_pool   *)
(* and the pool half of validation_cleanup.                                *)
(*                                                                         *)
(* A CURL* is a model value of Handles; handle[h] records what             *)
(* curl_easy_init / curl_easy_cleanup have done to it.  An array slot that *)
(* malloc returned and nobody wrote holds Uninit.  held[r] is the CURL*    *)
(* request r obtained from the pool and has not returned yet.              *)
(*                                                                         *)
(* The flag enable_connection_pooling is a global that validation_set_config*)
(* may replace between any two calls, so every operation takes the value  *)
(* it reads as a parameter.                                                *)
(***************************************************************************)
EXTENDS Integers, Sequences, FiniteSets

CONSTANTS
  Handles,         \* CURL* values curl_easy_init can return
  Requests,        \* callers of curl_validation_enhanced
  MaxConnections,  \* connection_pool.max_connections (10 in the source)
  NoHandle,        \* a request that holds no connection
  Uninit           \* the contents of a malloc'd slot never written

ASSUME MaxConnections \in Nat \ {0}

VARIABLES
  connections,     \* connections[i], i \in Slots
  allocated,       \* connection_pool.connections # NULL
  pool_size,
  current_index,
  handle,          \* handle[h] \in {"unused", "live", "freed"}
  held             \* held[r]: the connection request r is using

poolVars == <<connections, allocated, pool_size, current_index, handle, held>>

Slots == 0 .. MaxConnections - 1

\* The handles the pool array refers to (connections[0 .. pool_size-1]).
Pooled == {connections[i] : i \in 0 .. pool_size - 1}

PoolTypeOK ==
  /\ connections \in [Slots -> Handles \cup {Uninit}]
  /\ allocated \in BOOLEAN
  /\ pool_size \in 0 .. MaxConnections
  /\ current_index \in Slots
  /\ handle \in [Handles -> {"unused", "live", "freed"}]
  /\ held \in [Requests -> Handles \cup {NoHandle, Uninit}]

PoolInit ==
  /\ connections = [i \in Slots |-> Uninit]
  /\ allocated = FALSE
  /\ pool_size = 0
  /\ current_index = 0
  /\ handle = [h \in Handles |-> "unused"]
  /\ held = [r \in Requests |-> NoHandle]

\* curl_easy_cleanup on a pointer: a handle is destroyed; a garbage pointer
\* changes nothing the model tracks.
Cleanup(h) == IF h \in Handles THEN [handle EXCEPT ![h] = "freed"] ELSE handle

(***************************************************************************)
(* get_connection_from_pool: a fresh curl_easy_init handle when pooling is *)
(* off or the array is empty, otherwise the slot under the round-robin     *)
(* cursor, which stays in the array.  curl_easy_init returning NULL is     *)
(* the caller's error path and is modelled by the orchestrator.            *)
(***************************************************************************)
GetConnection(r, pooling) ==
  /\ held[r] = NoHandle
  /\ IF ~pooling \/ pool_size = 0
       THEN \E h \in Handles :
              /\ handle[h] = "unused"
              /\ handle' = [handle EXCEPT ![h] = "live"]
              /\ held' = [held EXCEPT ![r] = h]
              /\ UNCHANGED current_index
       ELSE /\ held' = [held EXCEPT ![r] = connections[current_index]]
            /\ current_index' = (current_index + 1) % pool_size
            /\ UNCHANGED handle
  /\ UNCHANGED <<connections, allocated, pool_size>>

\* Mutant: the room check 'pool_size < max_connections' dropped.
ReturnConnectionNoBound(r, pooling) ==
  LET h == held[r] IN
  /\ h # NoHandle
  /\ held' = [held EXCEPT ![r] = NoHandle]
  /\ IF pooling
       THEN /\ connections' =
                 [IF allocated THEN connections ELSE [i \in Slots |-> Uninit]
                    EXCEPT ![pool_size] = h]
            /\ allocated' = TRUE
            /\ pool_size' = pool_size + 1
            /\ UNCHANGED handle
       ELSE /\ handle' = Cleanup(h)
            /\ UNCHANGED <<connections, allocated, pool_size>>
  /\ UNCHANGED current_index

\* Mutant: a full pool drops the handle without curl_easy_cleanup.
ReturnConnectionNoCleanup(r, pooling) ==
  LET h == held[r] IN
  /\ h # NoHandle
  /\ held' = [held EXCEPT ![r] = NoHandle]
  /\ IF pooling /\ pool_size < MaxConnections
       THEN /\ connections' =
                 [IF allocated THEN connections ELSE [i \in Slots |-> Uninit]
                    EXCEPT ![pool_size] = h]
            /\ allocated' = TRUE
            /\ pool_size' = pool_size + 1
            /\ UNCHANGED handle
       ELSE UNCHANGED <<handle, connections, allocated, pool_size>>
  /\ UNCHANGED current_index

(***************************************************************************)
(* return_connection_to_pool: destroy the handle when pooling is off,      *)
(* otherwise append it to the array (malloc'ing the array on first use)    *)
(* while there is room, and destroy it when the array is full.             *)
(***************************************************************************)
ReturnConnection(r, pooling) ==
  LET h == held[r] IN
  /\ h # NoHandle
  /\ held' = [held EXCEPT ![r] = NoHandle]
  /\ IF pooling /\ pool_size < MaxConnections
       THEN /\ connections' =
                 [IF allocated THEN connections ELSE [i \in Slots |-> Uninit]
                    EXCEPT ![pool_size] = h]
            /\ allocated' = TRUE
            /\ pool_size' = pool_size + 1
            /\ UNCHANGED handle
       ELSE /\ handle' = Cleanup(h)
            /\ UNCHANGED <<connections, allocated, pool_size>>
  /\ UNCHANGED current_index

(***************************************************************************)
(* The pool half of validation_cleanup: curl_easy_cleanup on every slot    *)
(* below pool_size, free the array, pool_size = 0.  current_index is left  *)
(* as it was.  The spec makes teardown concurrent with validate undefined, *)
(* so it runs when no request holds a connection.                          *)
(***************************************************************************)
PoolCleanup ==
  /\ \A r \in Requests : held[r] = NoHandle
  /\ handle' = [h \in Handles |-> IF h \in Pooled THEN "freed" ELSE handle[h]]
  /\ connections' = [i \in Slots |-> Uninit]
  /\ allocated' = FALSE
  /\ pool_size' = 0
  /\ UNCHANGED <<current_index, held>>

PoolNext ==
  \/ \E r \in Requests, p \in BOOLEAN : GetConnection(r, p)
  \/ \E r \in Requests, p \in BOOLEAN : ReturnConnection(r, p)
  \/ PoolCleanup

PoolSpec == PoolInit /\ [][PoolNext]_poolVars

-----------------------------------------------------------------------------
(***************************************************************************)
(* Properties                                                              *)
(***************************************************************************)

(* No leak: every handle curl_easy_init created and nobody destroyed is    *)
(* reachable, either from the pool array or from the request using it, so  *)
(* return_connection_to_pool and validation_cleanup never drop a live      *)
(* CURL* on the floor.                                                     *)
NoLeakedHandle ==
  \A h \in Handles :
    handle[h] = "live" => h \in Pooled \/ \E r \in Requests : held[r] = h

-----------------------------------------------------------------------------
(***************************************************************************)
(* Refinement mapping onto IdlePool.  The idle set is what the array       *)
(* holds below pool_size and no request is using (get_connection_from_pool *)
(* leaves a handle in the array, so the array alone is not the idle set);  *)
(* a handle is live or used as curl_easy_init and curl_easy_cleanup left  *)
(* it.                                                                     *)
(***************************************************************************)
IdleSet == Pooled \ {held[r] : r \in Requests}
LiveSet == {h \in Handles : handle[h] = "live"}
UsedSet == {h \in Handles : handle[h] # "unused"}

PoolAbstract == INSTANCE IdlePool
                  WITH idle <- IdleSet, borrowed <- held, live <- LiveSet,
                       used <- UsedSet, Capacity <- MaxConnections

(* The pool implements the idle-set pool of spec 3 and 4.2: every          *)
(* get_connection_from_pool hands out an idle handle no other request owns *)
(* (or a fresh one), return_connection_to_pool keeps a handle only while   *)
(* fewer than max_connections are idle and destroys it otherwise, and      *)
(* validation_cleanup destroys exactly the idle handles.                   *)
PoolRefinesIdlePool == PoolAbstract!Spec
=============================================================================
