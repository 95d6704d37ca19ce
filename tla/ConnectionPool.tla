--------------------------- MODULE ConnectionPool ---------------------------
(***************************************************************************)
(* PhantomDBConnectionPool (src/src/clients/pool.py) shared by several     *)
(* caller threads.                                                         *)
(*                                                                         *)
(* Shared state: the Queue _pool of slot records, the set _used of         *)
(* connection ids, the threading.Lock _lock, the flag _closed.             *)
(* Each caller thread has a program counter naming the line of a pool      *)
(* method it is at, and the locals of that method.  Queue operations are   *)
(* atomic (Queue has its own mutex); each `with self._lock:` block that    *)
(* does not call out is one atomic step that needs the lock free.  The     *)
(* one nested block (acquire line 103 calling _create_connection, whose    *)
(* line 61 takes the same non-reentrant Lock again) leaves the thread at   *)
(* "create_connection" holding the lock, a state with no successor for it. *)
(*                                                                         *)
(* time.time() is the integer clock `now`, advanced by Tick up to MaxTime. *)
(* Connections are the integers 1..N; only _initialize_pool ever creates   *)
(* one, since the creating branch of acquire never gets past line 61.      *)
(***************************************************************************)
EXTENDS Naturals, Sequences, FiniteSets

CONSTANTS
    Threads,            \* the caller threads sharing the pool
    NoThread,           \* lock holder when the lock is free
    MinConnections,     \* min_connections
    MaxConnections,     \* max_connections
    AcquireTimeout,     \* acquire_timeout, in clock ticks
    IdleTimeout,        \* idle_timeout, in clock ticks
    MaxTime,            \* bound on the clock (model bound)
    CallersReleaseStale \* TRUE: a caller may release any handle it ever got

ASSUME ConstantsAssumption ==
    /\ NoThread \notin Threads
    /\ MinConnections \in Nat
    /\ MaxConnections \in Nat
    /\ AcquireTimeout \in Nat
    /\ IdleTimeout \in Nat
    /\ MaxTime \in Nat
    /\ CallersReleaseStale \in BOOLEAN

(* __init__ does not validate min <= max: _create_connection's capacity   *)
(* check stops _initialize_pool at max_connections.                        *)
InitialCount ==
    IF MinConnections <= MaxConnections THEN MinConnections ELSE MaxConnections

(* The connection objects that exist: the ones _initialize_pool created. *)
Conns == 1..InitialCount

Time == 0..MaxTime

(* A slot record of the Queue: {'client', 'last_used', 'idle'}; the idle  *)
(* flag is written but never read, so it is left out.                     *)
Slot == [conn : Conns, lastUsed : Time]

NoSlot == [conn |-> 0, lastUsed |-> 0]

PC == {"idle", "acq_loop", "acq_check", "acq_add", "acq_empty",
       "create_connection", "rel_lock", "close_drain", "close_lock",
       "status_lock"}

(* What a pool method last returned to thread t: None, a handle, the    *)
(* status dict, or which PhantomDBError it raised.                        *)
Returns == {"none", "handle", "status", "PoolClosed", "Timeout"}

VARIABLES
    pool,    \* self._pool: the Queue, as a sequence of slots (head = next get)
    used,    \* self._used: ids of connections handed out
    lock,    \* holder of self._lock
    closed,  \* self._closed
    now,     \* time.time()
    pc,      \* pc[t]: where thread t is
    start,   \* start[t]: acquire's start_time
    got,     \* got[t]: acquire's connection_info after get_nowait
    arg,     \* arg[t]: release's connection argument
    ret,     \* ret[t]: what t's last pool method returned or raised
    held,    \* held[t]: handles thread t holds (caller side)
    had      \* had[t]: handles thread t has ever been given (caller side)

vars == <<pool, used, lock, closed, now, pc, start, got, arg, ret, held, had>>

callerVars == <<held, had>>

-----------------------------------------------------------------------------
(* Helpers *)

(* The connections in the slots of a queue, and that none is queued twice. *)
ConnsOf(s) == {s[i].conn : i \in DOMAIN s}

DistinctConns(s) == \A i, j \in DOMAIN s : i # j => s[i].conn # s[j].conn

PooledConns == ConnsOf(pool)

(* Handles in thread t's hands: held, taken off the queue by its acquire   *)
(* and not yet returned, or passed to its pending release.                 *)
InTransit(t) == IF pc[t] \in {"acq_check", "acq_add"} THEN {got[t].conn} ELSE {}

Releasing(t) == IF pc[t] = "rel_lock" THEN {arg[t]} ELSE {}

InHand(t) == held[t] \cup InTransit(t) \cup Releasing(t)

(* The handles a caller may pass to release(). *)
ReleaseCandidates(t) == IF CallersReleaseStale THEN had[t] ELSE held[t]

-----------------------------------------------------------------------------
(* PhantomDBConnectionPool.__init__ / _initialize_pool: min_connections   *)
(* calls of _create_connection, each stamped with the current time.        *)
Init ==
    /\ pool = [i \in 1..InitialCount |-> [conn |-> i, lastUsed |-> 0]]
    /\ used = {}
    /\ lock = NoThread
    /\ closed = FALSE
    /\ now = 0
    /\ pc = [t \in Threads |-> "idle"]
    /\ start = [t \in Threads |-> 0]
    /\ got = [t \in Threads |-> NoSlot]
    /\ arg = [t \in Threads |-> 0]
    /\ ret = [t \in Threads |-> "none"]
    /\ held = [t \in Threads |-> {}]
    /\ had = [t \in Threads |-> {}]

-----------------------------------------------------------------------------
(* acquire(), lines 84-87: fail if closed, else note start_time. *)
AcquireCall(t) ==
    /\ pc[t] = "idle"
    /\ \/ /\ closed
          /\ ret' = [ret EXCEPT ![t] = "PoolClosed"]
          /\ UNCHANGED <<pc, start>>
       \/ /\ ~closed
          /\ start' = [start EXCEPT ![t] = now]
          /\ pc' = [pc EXCEPT ![t] = "acq_loop"]
          /\ UNCHANGED ret
    /\ UNCHANGED <<pool, used, lock, closed, now, got, arg, callerVars>>

(* Faulty variant: the queue's head is read without removing it         *)
(* (self._pool.queue[0] instead of get_nowait()).                          *)
AcquireLoopPeek(t) ==
    /\ pc[t] = "acq_loop"
    /\ \/ /\ now - start[t] >= AcquireTimeout
          /\ pc' = [pc EXCEPT ![t] = "idle"]
          /\ ret' = [ret EXCEPT ![t] = "Timeout"]
          /\ UNCHANGED <<pool, got>>
       \/ /\ now - start[t] < AcquireTimeout
          /\ pool # <<>>
          /\ got' = [got EXCEPT ![t] = Head(pool)]
          /\ pc' = [pc EXCEPT ![t] = "acq_check"]
          /\ UNCHANGED <<pool, ret>>
       \/ /\ now - start[t] < AcquireTimeout
          /\ pool = <<>>
          /\ pc' = [pc EXCEPT ![t] = "acq_empty"]
          /\ UNCHANGED <<pool, got, ret>>
    /\ UNCHANGED <<used, lock, closed, now, start, arg, callerVars>>

(* acquire(), lines 89-92, 101 and 119: the deadline test, then           *)
(* get_nowait; Empty sends the thread to line 103.                         *)
AcquireLoop(t) ==
    /\ pc[t] = "acq_loop"
    /\ \/ /\ now - start[t] >= AcquireTimeout
          /\ pc' = [pc EXCEPT ![t] = "idle"]
          /\ ret' = [ret EXCEPT ![t] = "Timeout"]
          /\ UNCHANGED <<pool, got>>
       \/ /\ now - start[t] < AcquireTimeout
          /\ pool # <<>>
          /\ got' = [got EXCEPT ![t] = Head(pool)]
          /\ pool' = Tail(pool)
          /\ pc' = [pc EXCEPT ![t] = "acq_check"]
          /\ UNCHANGED ret
       \/ /\ now - start[t] < AcquireTimeout
          /\ pool = <<>>
          /\ pc' = [pc EXCEPT ![t] = "acq_empty"]
          /\ UNCHANGED <<pool, got, ret>>
    /\ UNCHANGED <<used, lock, closed, now, start, arg, callerVars>>

(* acquire(), lines 95 and 100: a slot idle for idle_timeout or longer is *)
(* dropped and the loop goes on without sleeping.                          *)
AcquireCheckIdle(t) ==
    /\ pc[t] = "acq_check"
    /\ \/ /\ now - got[t].lastUsed < IdleTimeout
          /\ pc' = [pc EXCEPT ![t] = "acq_add"]
          /\ UNCHANGED got
       \/ /\ now - got[t].lastUsed >= IdleTimeout
          /\ pc' = [pc EXCEPT ![t] = "acq_loop"]
          /\ got' = [got EXCEPT ![t] = NoSlot]
    /\ UNCHANGED <<pool, used, lock, closed, now, start, arg, ret, callerVars>>

(* acquire(), lines 96-99: record the id in _used under the lock and hand *)
(* the client to the caller.                                               *)
AcquireAddUsed(t) ==
    /\ pc[t] = "acq_add"
    /\ lock = NoThread
    /\ used' = used \cup {got[t].conn}
    /\ held' = [held EXCEPT ![t] = @ \cup {got[t].conn}]
    /\ had' = [had EXCEPT ![t] = @ \cup {got[t].conn}]
    /\ ret' = [ret EXCEPT ![t] = "handle"]
    /\ pc' = [pc EXCEPT ![t] = "idle"]
    /\ got' = [got EXCEPT ![t] = NoSlot]
    /\ UNCHANGED <<pool, lock, closed, now, start, arg>>

(* acquire(), lines 103-117: under the lock, if len(_used) < max the      *)
(* thread calls _create_connection and blocks at its line 61 on the lock   *)
(* it already holds; otherwise it leaves the block and sleeps.             *)
AcquireEmpty(t) ==
    /\ pc[t] = "acq_empty"
    /\ lock = NoThread
    /\ \/ /\ Cardinality(used) < MaxConnections
          /\ lock' = t
          /\ pc' = [pc EXCEPT ![t] = "create_connection"]
       \/ /\ Cardinality(used) >= MaxConnections
          /\ pc' = [pc EXCEPT ![t] = "acq_loop"]
          /\ UNCHANGED lock
    /\ UNCHANGED <<pool, used, closed, now, start, got, arg, ret, callerVars>>

-----------------------------------------------------------------------------
(* release(connection), lines 128-129: the caller gives the handle up;    *)
(* the call returns at once if the pool is closed.                         *)
ReleaseCall(t, c) ==
    /\ pc[t] = "idle"
    /\ held' = [held EXCEPT ![t] = @ \ {c}]
    /\ \/ /\ closed
          /\ ret' = [ret EXCEPT ![t] = "none"]
          /\ UNCHANGED <<pc, arg>>
       \/ /\ ~closed
          /\ arg' = [arg EXCEPT ![t] = c]
          /\ pc' = [pc EXCEPT ![t] = "rel_lock"]
          /\ UNCHANGED ret
    /\ UNCHANGED <<pool, used, lock, closed, now, start, got, had>>

(* Faulty variant: the client is put back without removing its id from  *)
(* _used (line 134 missing).                                               *)
ReleaseLockedKeepUsed(t) ==
    /\ pc[t] = "rel_lock"
    /\ lock = NoThread
    /\ \/ /\ arg[t] \in used
          /\ pool' = Append(pool, [conn |-> arg[t], lastUsed |-> now])
       \/ /\ arg[t] \notin used
          /\ UNCHANGED pool
    /\ pc' = [pc EXCEPT ![t] = "idle"]
    /\ arg' = [arg EXCEPT ![t] = 0]
    /\ ret' = [ret EXCEPT ![t] = "none"]
    /\ UNCHANGED <<used, lock, closed, now, start, got, callerVars>>

(* Faulty variant: the slot is stamped with its expiry time             *)
(* (time.time() + idle_timeout) instead of its last use.                   *)
ReleaseLockedStampExpiry(t) ==
    /\ pc[t] = "rel_lock"
    /\ lock = NoThread
    /\ \/ /\ arg[t] \in used
          /\ used' = used \ {arg[t]}
          /\ pool' = Append(pool, [conn |-> arg[t], lastUsed |-> now + IdleTimeout])
       \/ /\ arg[t] \notin used
          /\ UNCHANGED <<pool, used>>
    /\ pc' = [pc EXCEPT ![t] = "idle"]
    /\ arg' = [arg EXCEPT ![t] = 0]
    /\ ret' = [ret EXCEPT ![t] = "none"]
    /\ UNCHANGED <<lock, closed, now, start, got, callerVars>>

(* release(connection), lines 131-141: under the lock, an id found in     *)
(* _used is removed and the client is put back with a fresh last_used.     *)
ReleaseLocked(t) ==
    /\ pc[t] = "rel_lock"
    /\ lock = NoThread
    /\ \/ /\ arg[t] \in used
          /\ used' = used \ {arg[t]}
          /\ pool' = Append(pool, [conn |-> arg[t], lastUsed |-> now])
       \/ /\ arg[t] \notin used
          /\ UNCHANGED <<pool, used>>
    /\ pc' = [pc EXCEPT ![t] = "idle"]
    /\ arg' = [arg EXCEPT ![t] = 0]
    /\ ret' = [ret EXCEPT ![t] = "none"]
    /\ UNCHANGED <<lock, closed, now, start, got, callerVars>>

-----------------------------------------------------------------------------
(* close(), line 145. *)
CloseCall(t) ==
    /\ pc[t] = "idle"
    /\ closed' = TRUE
    /\ pc' = [pc EXCEPT ![t] = "close_drain"]
    /\ UNCHANGED <<pool, used, lock, now, start, got, arg, ret, callerVars>>

(* close(), lines 148-152: one get_nowait per step until the queue is     *)
(* empty (an Empty between empty() and get_nowait also ends the loop).     *)
CloseDrain(t) ==
    /\ pc[t] = "close_drain"
    /\ \/ /\ pool # <<>>
          /\ pool' = Tail(pool)
          /\ UNCHANGED pc
       \/ /\ pool = <<>>
          /\ pc' = [pc EXCEPT ![t] = "close_lock"]
          /\ UNCHANGED pool
    /\ UNCHANGED <<used, lock, closed, now, start, got, arg, ret, callerVars>>

(* close(), lines 154-155: clear _used under the lock. *)
CloseLocked(t) ==
    /\ pc[t] = "close_lock"
    /\ lock = NoThread
    /\ used' = {}
    /\ pc' = [pc EXCEPT ![t] = "idle"]
    /\ ret' = [ret EXCEPT ![t] = "none"]
    /\ UNCHANGED <<pool, lock, closed, now, start, got, arg, callerVars>>

-----------------------------------------------------------------------------
(* get_status(), lines 164-170: a read of the counts under the lock; the  *)
(* call blocks while the lock is held.                                     *)
StatusCall(t) ==
    /\ pc[t] = "idle"
    /\ pc' = [pc EXCEPT ![t] = "status_lock"]
    /\ UNCHANGED <<pool, used, lock, closed, now, start, got, arg, ret, callerVars>>

GetStatus(t) ==
    /\ pc[t] = "status_lock"
    /\ lock = NoThread
    /\ pc' = [pc EXCEPT ![t] = "idle"]
    /\ ret' = [ret EXCEPT ![t] = "status"]
    /\ UNCHANGED <<pool, used, lock, closed, now, start, got, arg, callerVars>>

-----------------------------------------------------------------------------
(* time.time() advancing; sleep(0.1) in acquire is a step back to the     *)
(* loop head, with Tick free to happen in between.                         *)
Tick ==
    /\ now < MaxTime
    /\ now' = now + 1
    /\ UNCHANGED <<pool, used, lock, closed, pc, start, got, arg, ret, callerVars>>

(* A caller starting a pool method: not forced to happen. *)
Call(t) ==
    \/ AcquireCall(t)
    \/ \E c \in ReleaseCandidates(t) : ReleaseCall(t, c)
    \/ CloseCall(t)
    \/ StatusCall(t)

(* A step of a pool method already running in thread t. *)
Run(t) ==
    \/ AcquireLoop(t)
    \/ AcquireCheckIdle(t)
    \/ AcquireAddUsed(t)
    \/ AcquireEmpty(t)
    \/ ReleaseLocked(t)
    \/ CloseDrain(t)
    \/ CloseLocked(t)
    \/ GetStatus(t)

Next ==
    \/ \E t \in Threads : Call(t) \/ Run(t)
    \/ Tick

Spec == Init /\ [][Next]_vars

(* Python threads that are runnable keep being scheduled (strongly: a     *)
(* thread waiting for the lock runs whenever it is repeatedly free), and   *)
(* the clock keeps advancing.                                              *)
FairSpec == Spec /\ \A t \in Threads : SF_vars(Run(t)) /\ WF_vars(Tick)

-----------------------------------------------------------------------------
(* Properties *)

TypeOK ==
    /\ pool \in Seq(Slot)
    /\ used \subseteq Conns
    /\ lock \in Threads \cup {NoThread}
    /\ closed \in BOOLEAN
    /\ now \in Time
    /\ pc \in [Threads -> PC]
    /\ start \in [Threads -> Time]
    /\ got \in [Threads -> Slot \cup {NoSlot}]
    /\ arg \in [Threads -> Conns \cup {0}]
    /\ ret \in [Threads -> Returns]
    /\ held \in [Threads -> SUBSET Conns]
    /\ had \in [Threads -> SUBSET Conns]

(* The parts of ExclusiveOwnership below. *)
QueuedOnce == DistinctConns(pool)

NotQueuedWhileInHand == \A t \in Threads : InHand(t) \cap PooledConns = {}

InOneThreadsHands ==
    \A t, u \in Threads : t # u => InHand(t) \cap InHand(u) = {}

NotHeldWhileInFlight ==
    \A t \in Threads : (InTransit(t) \cup Releasing(t)) \cap held[t] = {}

(* A connection object is owned by one side at a time (spec section 5):   *)
(* it sits at most once in the queue, and a handle in one thread's hands   *)
(* (held, taken off the queue by its acquire, or passed to its pending     *)
(* release) is neither queued nor in any other thread's hands.  This is    *)
(* the "no double checkout" property of acquire/release.                   *)
ExclusiveOwnership ==
    /\ QueuedOnce
    /\ NotQueuedWhileInHand
    /\ InOneThreadsHands
    /\ NotHeldWhileInFlight

(* The pool never accounts for more connections than max_connections:     *)
(* qsize() + len(_used) <= max (spec section 3, the bound _create_connection *)
(* tests).                                                                 *)
Capacity == Len(pool) + Cardinality(used) <= MaxConnections

(* No handle is held by two callers at once (spec section 8: a handle is *)
(* never handed out via acquire to two different callers, and section 4.1: *)
(* a double release must not corrupt the pool).                           *)
NoDoubleCheckout ==
    \A t, u \in Threads : t # u => held[t] \cap held[u] = {}

(* Every acquire() that enters its loop returns, with a handle or an      *)
(* error (spec section 4.1: acquire is bounded by acquire_timeout).        *)
AcquireCompletes ==
    \A t \in Threads : pc[t] = "acq_loop" ~> pc[t] = "idle"

(* Every handle a caller holds is recorded in _used, the pool's inUse set  *)
(* (spec section 3): get_status() counts it and its release() puts it     *)
(* back.  The spec has close() leave inUse untouched; close() clears _used *)
(* at line 155, so a handle acquired before close() is forgotten.          *)
InUseRecordsHeld == \A t \in Threads : held[t] \subseteq used

=============================================================================
