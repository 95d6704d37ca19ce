------------------------ MODULE ConnectionPoolProofs ------------------------
(***************************************************************************)
(* Proofs about ConnectionPool, for every number of threads, connections *)
(* and every value of the timeouts.                                        *)
(***************************************************************************)
EXTENDS ConnectionPool, SequenceTheorems, FiniteSetTheorems, TLAPS

USE ConstantsAssumption

-----------------------------------------------------------------------------
(* Type correctness.  TypeOK alone is not inductive: acquire's line 99    *)
(* hands out got[t].conn and release's line 137 queues arg[t], so the      *)
(* locals of a thread in the middle of those methods must be real          *)
(* connections, not the placeholders NoSlot and 0.                         *)

LocalsTyped ==
    \A t \in Threads :
        /\ pc[t] \in {"acq_check", "acq_add"} => got[t] \in Slot
        /\ pc[t] = "rel_lock" => arg[t] \in Conns

TypeInv == TypeOK /\ LocalsTyped

LEMMA InitialCountBound == InitialCount \in 0..MinConnections
    BY DEF InitialCount

LEMMA TypeInitial == Init => TypeInv
<1> SUFFICES ASSUME Init PROVE TypeInv
    OBVIOUS
<1>1. pool \in [1..InitialCount -> Slot]
    BY InitialCountBound DEF Init, Slot, Conns, Time
<1>2. pool \in Seq(Slot)
    BY <1>1, InitialCountBound
<1>3. start \in [Threads -> Time] /\ now \in Time
    BY DEF Init, Time
<1>4. QED
    BY <1>2, <1>3 DEF Init, TypeInv, TypeOK, LocalsTyped, NoSlot, PC, Returns

LEMMA TypeStep == TypeInv /\ [Next]_vars => TypeInv'
<1> SUFFICES ASSUME TypeInv, [Next]_vars PROVE TypeInv'
    OBVIOUS
<1> USE DEF TypeInv, TypeOK, LocalsTyped
<1>1. ASSUME NEW t \in Threads, AcquireCall(t) PROVE TypeInv'
    BY <1>1 DEF AcquireCall, Time, PC, Returns, callerVars
<1>2. ASSUME NEW t \in Threads, AcquireLoop(t) PROVE TypeInv'
    <2>1. CASE pool # <<>> /\ got' = [got EXCEPT ![t] = Head(pool)] /\ pool' = Tail(pool)
                /\ pc' = [pc EXCEPT ![t] = "acq_check"] /\ UNCHANGED ret
        <3>1. Head(pool) \in Slot /\ Tail(pool) \in Seq(Slot)
            BY <2>1, HeadTailProperties
        <3>2. QED
            BY <1>2, <2>1, <3>1 DEF AcquireLoop, PC, callerVars
    <2>2. CASE ~(pool # <<>> /\ got' = [got EXCEPT ![t] = Head(pool)] /\ pool' = Tail(pool)
                /\ pc' = [pc EXCEPT ![t] = "acq_check"] /\ UNCHANGED ret)
        BY <1>2, <2>2 DEF AcquireLoop, PC, Returns, callerVars
    <2>3. QED
        BY <2>1, <2>2
<1>3. ASSUME NEW t \in Threads, AcquireCheckIdle(t) PROVE TypeInv'
    BY <1>3 DEF AcquireCheckIdle, PC, callerVars
<1>4. ASSUME NEW t \in Threads, AcquireAddUsed(t) PROVE TypeInv'
    <2>1. got[t] \in Slot
        BY <1>4 DEF AcquireAddUsed
    <2>2. got[t].conn \in Conns
        BY <2>1 DEF Slot
    <2>3. QED
        BY <1>4, <2>2 DEF AcquireAddUsed, PC, Returns
<1>5. ASSUME NEW t \in Threads, AcquireEmpty(t) PROVE TypeInv'
    BY <1>5 DEF AcquireEmpty, PC, callerVars
<1>6. ASSUME NEW t \in Threads, NEW c \in ReleaseCandidates(t), ReleaseCall(t, c)
      PROVE TypeInv'
    <2>1. c \in Conns
        BY DEF ReleaseCandidates
    <2>2. held' \in [Threads -> SUBSET Conns]
        BY <1>6 DEF ReleaseCall
    <2>3. CASE closed
        BY <1>6, <2>2, <2>3 DEF ReleaseCall, Returns
    <2>4. CASE ~closed
        BY <1>6, <2>1, <2>2, <2>4 DEF ReleaseCall, PC
    <2>5. QED
        BY <2>3, <2>4
<1>7. ASSUME NEW t \in Threads, ReleaseLocked(t) PROVE TypeInv'
    <2>1. [conn |-> arg[t], lastUsed |-> now] \in Slot
        BY <1>7 DEF ReleaseLocked, Slot
    <2>2. pool' \in Seq(Slot) /\ used' \subseteq Conns
        <3>1. CASE arg[t] \in used
            <4>1. Append(pool, [conn |-> arg[t], lastUsed |-> now]) \in Seq(Slot)
                BY <2>1, AppendProperties
            <4>2. QED
                BY <1>7, <3>1, <4>1 DEF ReleaseLocked
        <3>2. CASE arg[t] \notin used
            BY <1>7, <3>2 DEF ReleaseLocked
        <3>3. QED
            BY <3>1, <3>2
    <2>3. QED
        BY <1>7, <2>2 DEF ReleaseLocked, PC, Returns, callerVars
<1>8. ASSUME NEW t \in Threads, CloseCall(t) PROVE TypeInv'
    BY <1>8 DEF CloseCall, PC, callerVars
<1>9. ASSUME NEW t \in Threads, CloseDrain(t) PROVE TypeInv'
    <2>1. pool' \in Seq(Slot)
        <3>1. CASE pool # <<>>
            BY <1>9, <3>1, HeadTailProperties DEF CloseDrain
        <3>2. CASE pool = <<>>
            BY <1>9, <3>2 DEF CloseDrain
        <3>3. QED
            BY <3>1, <3>2
    <2>2. QED
        BY <1>9, <2>1 DEF CloseDrain, PC, callerVars
<1>10. ASSUME NEW t \in Threads, CloseLocked(t) PROVE TypeInv'
    BY <1>10, SMTT(20) DEF CloseLocked, PC, Returns, callerVars
<1>11. ASSUME NEW t \in Threads, StatusCall(t) PROVE TypeInv'
    BY <1>11 DEF StatusCall, PC, callerVars
<1>12. ASSUME NEW t \in Threads, GetStatus(t) PROVE TypeInv'
    BY <1>12 DEF GetStatus, PC, Returns, callerVars
<1>13. CASE Tick
    BY <1>13 DEF Tick, Time, callerVars
<1>14. CASE UNCHANGED vars
    BY <1>14 DEF vars
<1>15. QED
    BY <1>1, <1>2, <1>3, <1>4, <1>5, <1>6, <1>7, <1>8, <1>9, <1>10, <1>11,
       <1>12, <1>13, <1>14 DEF Next, Call, Run

(* The pool's state always has the types TypeOK gives it: in particular   *)
(* _used holds only ids of connections _initialize_pool created and every  *)
(* queued slot carries a time no later than the clock's bound.             *)
THEOREM TypeCorrect == Spec => []TypeOK
<1>1. Spec => []TypeInv
    BY TypeInitial, TypeStep, PTL DEF Spec
<1>2. QED
    BY <1>1, PTL DEF TypeInv

-----------------------------------------------------------------------------
(* The connections of a queue after get_nowait() and after put(). *)

LEMMA ConnsOfTail ==
    ASSUME NEW s \in Seq(Slot), s # <<>>
    PROVE  /\ ConnsOf(s) = ConnsOf(Tail(s)) \cup {Head(s).conn}
           /\ DistinctConns(s) => /\ DistinctConns(Tail(s))
                                  /\ Head(s).conn \notin ConnsOf(Tail(s))
<1>1. /\ Len(Tail(s)) = Len(s) - 1
      /\ \A i \in 1..Len(Tail(s)) : Tail(s)[i] = s[i+1]
      /\ Len(s) \in Nat \ {0}
      /\ DOMAIN s = 1..Len(s)
      /\ DOMAIN Tail(s) = 1..Len(Tail(s))
      /\ Head(s) = s[1]
    BY HeadTailProperties, EmptySeq, LenProperties
<1>2. ConnsOf(s) = ConnsOf(Tail(s)) \cup {Head(s).conn}
    <2>1. ASSUME NEW x \in ConnsOf(s) PROVE x \in ConnsOf(Tail(s)) \cup {Head(s).conn}
        <3>1. PICK i \in DOMAIN s : x = s[i].conn
            BY <2>1 DEF ConnsOf
        <3>2. CASE i = 1
            BY <1>1, <3>1, <3>2
        <3>3. CASE i # 1
            <4>1. i - 1 \in DOMAIN Tail(s) /\ Tail(s)[i-1] = s[i]
                BY <1>1, <3>3
            <4>2. QED
                BY <3>1, <4>1 DEF ConnsOf
        <3>4. QED
            BY <3>2, <3>3
    <2>2. ASSUME NEW x \in ConnsOf(Tail(s)) \cup {Head(s).conn} PROVE x \in ConnsOf(s)
        <3>1. CASE x = Head(s).conn
            BY <1>1, <3>1 DEF ConnsOf
        <3>2. CASE x \in ConnsOf(Tail(s))
            <4>1. PICK i \in DOMAIN Tail(s) : x = Tail(s)[i].conn
                BY <3>2 DEF ConnsOf
            <4>2. i + 1 \in DOMAIN s /\ Tail(s)[i] = s[i+1]
                BY <1>1
            <4>3. QED
                BY <4>1, <4>2 DEF ConnsOf
        <3>3. QED
            BY <2>2, <3>1, <3>2
    <2>3. QED
        BY <2>1, <2>2
<1>3. DistinctConns(s) => DistinctConns(Tail(s))
    BY <1>1 DEF DistinctConns
<1>4. DistinctConns(s) => Head(s).conn \notin ConnsOf(Tail(s))
    BY <1>1 DEF DistinctConns, ConnsOf
<1>5. QED
    BY <1>2, <1>3, <1>4

LEMMA ConnsOfAppend ==
    ASSUME NEW s \in Seq(Slot), NEW e \in Slot
    PROVE  /\ ConnsOf(Append(s, e)) = ConnsOf(s) \cup {e.conn}
           /\ (DistinctConns(s) /\ e.conn \notin ConnsOf(s))
                  => DistinctConns(Append(s, e))
<1>1. /\ Len(Append(s, e)) = Len(s) + 1
      /\ \A i \in 1..Len(s) : Append(s, e)[i] = s[i]
      /\ Append(s, e)[Len(s) + 1] = e
      /\ Len(s) \in Nat
      /\ DOMAIN s = 1..Len(s)
      /\ DOMAIN Append(s, e) = 1..Len(Append(s, e))
    BY AppendProperties, LenProperties
<1>2. ConnsOf(Append(s, e)) = ConnsOf(s) \cup {e.conn}
    BY <1>1 DEF ConnsOf
<1>3. (DistinctConns(s) /\ e.conn \notin ConnsOf(s)) => DistinctConns(Append(s, e))
    BY <1>1 DEF DistinctConns, ConnsOf
<1>4. QED
    BY <1>2, <1>3

-----------------------------------------------------------------------------
(* Exclusive ownership of connections, when callers release only the     *)
(* handles they hold.  ExclusiveOwnership is inductive together with       *)
(* TypeInv: every step moves a handle between the queue and one thread's   *)
(* hands (get_nowait, put), within one thread's hands (return from         *)
(* acquire, call of release), or drops it (stale slot, close draining).    *)

OwnInv == TypeInv /\ ExclusiveOwnership

(* A step that queues nothing new and only takes handles out of threads'  *)
(* hands keeps ownership exclusive.                                        *)
LEMMA OwnershipShrinks ==
    ASSUME ExclusiveOwnership,
           DistinctConns(pool'),
           PooledConns' \subseteq PooledConns,
           \A u \in Threads : held'[u] \subseteq held[u],
           \A u \in Threads : (InTransit(u) \cup Releasing(u))'
                                  \subseteq InTransit(u) \cup Releasing(u)
    PROVE  ExclusiveOwnership'
<1>1. \A u \in Threads : InHand(u)' \subseteq InHand(u)
    BY DEF InHand
<1>2. QED
    BY <1>1 DEF ExclusiveOwnership, QueuedOnce, NotQueuedWhileInHand, InOneThreadsHands,
        NotHeldWhileInFlight

LEMMA OwnershipStep ==
    ASSUME ~CallersReleaseStale
    PROVE  OwnInv /\ [Next]_vars => ExclusiveOwnership'
<1> SUFFICES ASSUME OwnInv, [Next]_vars PROVE ExclusiveOwnership'
    OBVIOUS
<1> USE DEF OwnInv, TypeInv, TypeOK
<1>0. DistinctConns(pool) /\ PooledConns = ConnsOf(pool)
    BY DEF PooledConns, ExclusiveOwnership, QueuedOnce, NotQueuedWhileInHand, InOneThreadsHands,
        NotHeldWhileInFlight
(* The steps that keep the queue and only shrink what threads have. *)
<1>1. ASSUME NEW t \in Threads, AcquireCall(t) PROVE ExclusiveOwnership'
    BY <1>0, <1>1, OwnershipShrinks DEF AcquireCall, InTransit, Releasing, PooledConns, callerVars
<1>2. ASSUME NEW t \in Threads, AcquireLoop(t) PROVE ExclusiveOwnership'
    <2>1. CASE pool # <<>> /\ now - start[t] < AcquireTimeout
        <3> DEFINE h == Head(pool).conn
        <3>1. /\ ConnsOf(pool) = ConnsOf(Tail(pool)) \cup {h}
              /\ DistinctConns(Tail(pool))
              /\ h \notin ConnsOf(Tail(pool))
            BY <1>0, <2>1, ConnsOfTail
        <3>2. /\ pool' = Tail(pool)
              /\ pc' = [pc EXCEPT ![t] = "acq_check"]
              /\ got' = [got EXCEPT ![t] = Head(pool)]
              /\ UNCHANGED <<held, arg>>
              /\ pc[t] = "acq_loop"
            BY <1>2, <2>1 DEF AcquireLoop, callerVars, Time
        <3>3. InHand(t)' = InHand(t) \cup {h} /\ InTransit(t) \cup Releasing(t) = {}
            BY <3>2 DEF InHand, InTransit, Releasing
        <3>4. \A u \in Threads \ {t} :
                /\ InHand(u)' = InHand(u)
                /\ held'[u] = held[u]
                /\ (InTransit(u) \cup Releasing(u))' = InTransit(u) \cup Releasing(u)
            BY <3>2 DEF InHand, InTransit, Releasing
        <3>5. h \notin held[t] /\ \A u \in Threads \ {t} : h \notin InHand(u)
            BY <1>0, <3>1, <3>3 DEF InHand, PooledConns, NotQueuedWhileInHand,
                                  ExclusiveOwnership
        <3>6. (InTransit(t) \cup Releasing(t))' = {h} /\ held'[t] = held[t]
            BY <3>2 DEF InTransit, Releasing
        <3>7. QueuedOnce'
            BY <3>1, <3>2 DEF QueuedOnce
        <3>8. NotQueuedWhileInHand'
            BY <1>0, <3>1, <3>2, <3>3, <3>4
            DEF NotQueuedWhileInHand, PooledConns, ExclusiveOwnership
        <3>9. InOneThreadsHands'
            BY <3>3, <3>4, <3>5 DEF InOneThreadsHands, ExclusiveOwnership
        <3>10. NotHeldWhileInFlight'
            BY <3>4, <3>5, <3>6 DEF NotHeldWhileInFlight, ExclusiveOwnership
        <3>11. QED
            BY <3>7, <3>8, <3>9, <3>10 DEF ExclusiveOwnership
    <2>2. CASE ~(pool # <<>> /\ now - start[t] < AcquireTimeout)
        BY <1>0, <1>2, <2>2, OwnershipShrinks
        DEF AcquireLoop, InTransit, Releasing, PooledConns, callerVars
    <2>3. QED
        BY <2>1, <2>2
<1>3. ASSUME NEW t \in Threads, AcquireCheckIdle(t) PROVE ExclusiveOwnership'
    BY <1>0, <1>3, OwnershipShrinks
    DEF AcquireCheckIdle, InTransit, Releasing, PooledConns, callerVars
<1>4. ASSUME NEW t \in Threads, AcquireAddUsed(t) PROVE ExclusiveOwnership'
    <2> DEFINE c == got[t].conn
    <2>1. /\ held' = [held EXCEPT ![t] = @ \cup {c}]
          /\ pc' = [pc EXCEPT ![t] = "idle"]
          /\ UNCHANGED <<pool, arg>>
          /\ pc[t] = "acq_add"
          /\ \A u \in Threads \ {t} : got'[u] = got[u]
        BY <1>4 DEF AcquireAddUsed
    <2>2. InHand(t)' = InHand(t) /\ (InTransit(t) \cup Releasing(t))' = {}
        BY <2>1 DEF InHand, InTransit, Releasing
    <2>3. \A u \in Threads \ {t} : InHand(u)' = InHand(u)
                                   /\ (InTransit(u) \cup Releasing(u))' = InTransit(u) \cup Releasing(u)
        BY <2>1 DEF InHand, InTransit, Releasing
    <2>4. QED
        BY <2>1, <2>2, <2>3 DEF PooledConns, ExclusiveOwnership, QueuedOnce, NotQueuedWhileInHand, InOneThreadsHands,
        NotHeldWhileInFlight
<1>5. ASSUME NEW t \in Threads, AcquireEmpty(t) PROVE ExclusiveOwnership'
    BY <1>0, <1>5, OwnershipShrinks
    DEF AcquireEmpty, InTransit, Releasing, PooledConns, callerVars
<1>6. ASSUME NEW t \in Threads, NEW c \in ReleaseCandidates(t), ReleaseCall(t, c)
      PROVE ExclusiveOwnership'
    <2>1. c \in held[t] /\ pc[t] = "idle"
        BY <1>6 DEF ReleaseCandidates, ReleaseCall
    <2>2. CASE closed
        BY <1>0, <1>6, <2>2, OwnershipShrinks
        DEF ReleaseCall, InTransit, Releasing, PooledConns
    <2>3. CASE ~closed
        <3>1. /\ held' = [held EXCEPT ![t] = @ \ {c}]
              /\ pc' = [pc EXCEPT ![t] = "rel_lock"]
              /\ arg' = [arg EXCEPT ![t] = c]
              /\ UNCHANGED <<pool, got>>
            BY <1>6, <2>3 DEF ReleaseCall
        <3>2. InHand(t)' = InHand(t) /\ (InTransit(t) \cup Releasing(t))' = {c}
            BY <2>1, <3>1 DEF InHand, InTransit, Releasing
        <3>3. \A u \in Threads \ {t} : InHand(u)' = InHand(u)
                                       /\ held'[u] = held[u]
                                       /\ (InTransit(u) \cup Releasing(u))' = InTransit(u) \cup Releasing(u)
            BY <3>1 DEF InHand, InTransit, Releasing
        <3>4. c \notin held'[t]
            BY <3>1
        <3>5. QED
            BY <3>1, <3>2, <3>3, <3>4 DEF PooledConns, ExclusiveOwnership, QueuedOnce, NotQueuedWhileInHand, InOneThreadsHands,
        NotHeldWhileInFlight
    <2>4. QED
        BY <2>2, <2>3
<1>7. ASSUME NEW t \in Threads, ReleaseLocked(t) PROVE ExclusiveOwnership'
    <2>1. CASE arg[t] \in used
        <3> DEFINE c == arg[t]
                   e == [conn |-> c, lastUsed |-> now]
        <3>1. /\ pool' = Append(pool, e)
              /\ pc' = [pc EXCEPT ![t] = "idle"]
              /\ UNCHANGED <<held, got>>
              /\ pc[t] = "rel_lock"
              /\ \A u \in Threads \ {t} : arg'[u] = arg[u]
            BY <1>7, <2>1 DEF ReleaseLocked, callerVars
        <3>2. e \in Slot
            BY <3>1 DEF LocalsTyped, Slot
        <3>3. c \in InHand(t) /\ c \notin held[t]
            BY <3>1 DEF InHand, Releasing, InTransit, ExclusiveOwnership, NotHeldWhileInFlight
        <3>4. c \notin ConnsOf(pool) /\ \A u \in Threads \ {t} : c \notin InHand(u)
            BY <1>0, <3>3 DEF ExclusiveOwnership, QueuedOnce, NotQueuedWhileInHand, InOneThreadsHands,
        NotHeldWhileInFlight
        <3>5. /\ ConnsOf(pool') = ConnsOf(pool) \cup {c}
              /\ DistinctConns(pool')
            BY <1>0, <3>1, <3>2, <3>4, ConnsOfAppend
        <3>6. InHand(t)' = held[t] /\ (InTransit(t) \cup Releasing(t))' = {}
            BY <3>1 DEF InHand, InTransit, Releasing
        <3>7. \A u \in Threads \ {t} : InHand(u)' = InHand(u)
                                       /\ (InTransit(u) \cup Releasing(u))' = InTransit(u) \cup Releasing(u)
            BY <3>1 DEF InHand, InTransit, Releasing
        <3>8. held[t] \cap ConnsOf(pool) = {} /\ \A u \in Threads \ {t} : held[t] \cap InHand(u) = {}
            BY <1>0 DEF InHand, PooledConns, ExclusiveOwnership, NotQueuedWhileInHand,
                        InOneThreadsHands
        <3>9. QueuedOnce'
            BY <3>5 DEF QueuedOnce
        <3>10. NotQueuedWhileInHand'
            BY <1>0, <3>3, <3>4, <3>5, <3>6, <3>7, <3>8
            DEF NotQueuedWhileInHand, PooledConns, ExclusiveOwnership
        <3>11. InOneThreadsHands'
            BY <3>6, <3>7, <3>8 DEF InOneThreadsHands, ExclusiveOwnership
        <3>12. NotHeldWhileInFlight'
            BY <3>1, <3>6, <3>7 DEF NotHeldWhileInFlight, ExclusiveOwnership
        <3>13. QED
            BY <3>9, <3>10, <3>11, <3>12 DEF ExclusiveOwnership
    <2>2. CASE arg[t] \notin used
        BY <1>0, <1>7, <2>2, OwnershipShrinks
        DEF ReleaseLocked, InTransit, Releasing, PooledConns, callerVars
    <2>3. QED
        BY <2>1, <2>2
<1>8. ASSUME NEW t \in Threads, CloseCall(t) PROVE ExclusiveOwnership'
    BY <1>0, <1>8, OwnershipShrinks DEF CloseCall, InTransit, Releasing, PooledConns, callerVars
<1>9. ASSUME NEW t \in Threads, CloseDrain(t) PROVE ExclusiveOwnership'
    <2>1. CASE pool # <<>>
        <3>1. /\ ConnsOf(Tail(pool)) \subseteq ConnsOf(pool)
              /\ DistinctConns(Tail(pool))
            BY <1>0, <2>1, ConnsOfTail
        <3>2. QED
            BY <1>0, <1>9, <2>1, <3>1, OwnershipShrinks
            DEF CloseDrain, InTransit, Releasing, PooledConns, callerVars
    <2>2. CASE pool = <<>>
        BY <1>0, <1>9, <2>2, OwnershipShrinks
        DEF CloseDrain, InTransit, Releasing, PooledConns, callerVars
    <2>3. QED
        BY <2>1, <2>2
<1>10. ASSUME NEW t \in Threads, CloseLocked(t) PROVE ExclusiveOwnership'
    BY <1>0, <1>10, OwnershipShrinks DEF CloseLocked, InTransit, Releasing, PooledConns, callerVars
<1>11. ASSUME NEW t \in Threads, StatusCall(t) PROVE ExclusiveOwnership'
    BY <1>0, <1>11, OwnershipShrinks DEF StatusCall, InTransit, Releasing, PooledConns, callerVars
<1>12. ASSUME NEW t \in Threads, GetStatus(t) PROVE ExclusiveOwnership'
    BY <1>0, <1>12, OwnershipShrinks DEF GetStatus, InTransit, Releasing, PooledConns, callerVars
<1>13. CASE Tick
    BY <1>0, <1>13, OwnershipShrinks DEF Tick, InTransit, Releasing, PooledConns, callerVars
<1>14. CASE UNCHANGED vars
    BY <1>0, <1>14, OwnershipShrinks DEF vars, InTransit, Releasing, PooledConns
<1>15. QED
    BY <1>1, <1>2, <1>3, <1>4, <1>5, <1>6, <1>7, <1>8, <1>9, <1>10, <1>11,
       <1>12, <1>13, <1>14 DEF Next, Call, Run

LEMMA OwnershipInitial == Init => ExclusiveOwnership
<1> SUFFICES ASSUME Init PROVE ExclusiveOwnership
    OBVIOUS
<1>1. \A t \in Threads : InHand(t) = {} /\ InTransit(t) \cup Releasing(t) = {}
    BY DEF Init, InHand, InTransit, Releasing
<1>2. DistinctConns(pool)
    BY DEF Init, DistinctConns
<1>3. QED
    BY <1>1, <1>2 DEF ExclusiveOwnership, QueuedOnce, NotQueuedWhileInHand,
                     InOneThreadsHands, NotHeldWhileInFlight

(* When callers pass release() only handles they hold, no connection is   *)
(* ever in two places at once: queued twice, queued while a thread has it, *)
(* or in the hands of two threads.  In particular acquire() never hands    *)
(* one connection to two callers (NoDoubleCheckout).                      *)
THEOREM OwnershipTheorem ==
    ASSUME ~CallersReleaseStale
    PROVE  Spec => []ExclusiveOwnership
<1>1. Init => OwnInv
    BY TypeInitial, OwnershipInitial DEF OwnInv
<1>2. OwnInv /\ [Next]_vars => OwnInv'
    BY TypeStep, OwnershipStep DEF OwnInv
<1>3. QED
    BY <1>1, <1>2, PTL DEF Spec, OwnInv

-----------------------------------------------------------------------------
(* Capacity.  qsize() + len(_used) counts every queued connection and     *)
(* every id in _used; the two are apart (an id enters _used only for a     *)
(* connection taken off the queue, and leaves it when the connection is    *)
(* put back), no slot is queued twice, and only the connections           *)
(* _initialize_pool created exist, at most max_connections of them.        *)

(* No id in _used belongs to a queued connection or to one an acquire has *)
(* taken off the queue and not yet recorded.                               *)
UsedApart ==
    \A c \in used : c \notin PooledConns /\ \A t \in Threads : c \notin InTransit(t)

CapInv == OwnInv /\ UsedApart

(* A queue with no connection twice has as many connections as slots. *)
LEMMA QueueCardinality ==
    ASSUME NEW s \in Seq(Slot), DistinctConns(s)
    PROVE  /\ IsFiniteSet(ConnsOf(s))
           /\ Cardinality(ConnsOf(s)) = Len(s)
<1> DEFINE f == [i \in 1..Len(s) |-> s[i].conn]
<1>1. Len(s) \in Nat /\ DOMAIN s = 1..Len(s)
    BY LenProperties
<1>2. f \in Bijection(1..Len(s), ConnsOf(s))
    BY <1>1 DEF Bijection, Injection, Surjection, IsInjective, ConnsOf, DistinctConns
<1>3. IsFiniteSet(1..Len(s)) /\ Cardinality(1..Len(s)) = Len(s)
    <2>1. /\ IsFiniteSet(1..Len(s))
          /\ Cardinality(1..Len(s)) = IF 1 > Len(s) THEN 0 ELSE Len(s) - 1 + 1
        BY <1>1, FS_Interval
    <2>2. QED
        BY <1>1, <2>1
<1>4. QED
    BY <1>2, <1>3, FS_Bijection DEF ExistsBijection

(* The bound itself, from the disjointness of the queue and _used. *)
LEMMA CapacityFromInv == TypeOK /\ QueuedOnce /\ UsedApart => Capacity
<1> SUFFICES ASSUME TypeOK, QueuedOnce, UsedApart PROVE Capacity
    OBVIOUS
<1>1. IsFiniteSet(ConnsOf(pool)) /\ Cardinality(ConnsOf(pool)) = Len(pool)
    BY QueueCardinality DEF TypeOK, QueuedOnce
<1>2. IsFiniteSet(Conns) /\ Cardinality(Conns) = InitialCount
    BY InitialCountBound, FS_Interval DEF Conns
<1>3. ConnsOf(pool) \subseteq Conns /\ used \subseteq Conns
    <2>1. pool \in [1..Len(pool) -> Slot] /\ DOMAIN pool = 1..Len(pool)
        BY LenProperties DEF TypeOK
    <2>2. QED
        BY <2>1 DEF TypeOK, ConnsOf, Slot
<1>4. IsFiniteSet(used)
    BY <1>2, <1>3, FS_Subset
<1>5. ConnsOf(pool) \cap used = {}
    BY DEF UsedApart, PooledConns
<1>6. /\ IsFiniteSet(ConnsOf(pool) \cup used)
      /\ Cardinality(ConnsOf(pool) \cup used) = Len(pool) + Cardinality(used)
    <2>1. IsFiniteSet(ConnsOf(pool) \cap used) /\ Cardinality(ConnsOf(pool) \cap used) = 0
        BY <1>5, FS_EmptySet
    <2>2. /\ IsFiniteSet(ConnsOf(pool) \cup used)
          /\ Cardinality(ConnsOf(pool) \cup used) =
               Cardinality(ConnsOf(pool)) + Cardinality(used)
                 - Cardinality(ConnsOf(pool) \cap used)
        BY <1>1, <1>4, FS_Union
    <2>3. Cardinality(used) \in Nat
        BY <1>4, FS_CardinalityType
    <2>4. QED
        BY <1>1, <2>1, <2>2, <2>3
<1>7. Cardinality(ConnsOf(pool) \cup used) <= InitialCount
    BY <1>2, <1>3, <1>6, FS_Subset
<1>8. InitialCount <= MaxConnections
    BY DEF InitialCount
<1>9. Cardinality(used) \in Nat /\ InitialCount \in Nat /\ Len(pool) \in Nat
    BY <1>4, FS_CardinalityType, InitialCountBound, LenProperties DEF TypeOK
<1>10. QED
    BY <1>6, <1>7, <1>8, <1>9 DEF Capacity


(* A step that shrinks _used, the queue and every thread's in-flight      *)
(* connection keeps them apart.                                            *)
LEMMA ApartShrinks ==
    ASSUME UsedApart, used' \subseteq used, PooledConns' \subseteq PooledConns,
           \A u \in Threads : InTransit(u)' \subseteq InTransit(u)
    PROVE  UsedApart'
BY DEF UsedApart

LEMMA ApartStep ==
    ASSUME ~CallersReleaseStale
    PROVE  CapInv /\ [Next]_vars => UsedApart'
<1> SUFFICES ASSUME CapInv, [Next]_vars PROVE UsedApart'
    OBVIOUS
<1> USE DEF CapInv, OwnInv, TypeInv, TypeOK
<1>0. /\ DistinctConns(pool)
      /\ \A t \in Threads : InHand(t) \cap PooledConns = {}
      /\ \A t, u \in Threads : t # u => InHand(t) \cap InHand(u) = {}
    BY DEF ExclusiveOwnership, QueuedOnce, NotQueuedWhileInHand, InOneThreadsHands
<1>1. ASSUME NEW t \in Threads, AcquireCall(t) PROVE UsedApart'
    BY <1>1, ApartShrinks DEF AcquireCall, InTransit, PooledConns, callerVars
<1>2. ASSUME NEW t \in Threads, AcquireLoop(t) PROVE UsedApart'
    <2>1. CASE pool # <<>> /\ now - start[t] < AcquireTimeout
        <3> DEFINE h == Head(pool).conn
        <3>1. ConnsOf(pool) = ConnsOf(Tail(pool)) \cup {h}
            BY <1>0, <2>1, ConnsOfTail
        <3>2. /\ pool' = Tail(pool)
              /\ got' = [got EXCEPT ![t] = Head(pool)]
              /\ pc' = [pc EXCEPT ![t] = "acq_check"]
              /\ used' = used
            BY <1>2, <2>1 DEF AcquireLoop, callerVars, Time
        <3>3. InTransit(t)' = {h} /\ h \notin used
            BY <3>1, <3>2 DEF InTransit, UsedApart, PooledConns
        <3>4. \A u \in Threads \ {t} : InTransit(u)' = InTransit(u)
            BY <3>2 DEF InTransit
        <3>5. QED
            BY <3>1, <3>2, <3>3, <3>4 DEF UsedApart, PooledConns
    <2>2. CASE ~(pool # <<>> /\ now - start[t] < AcquireTimeout)
        BY <1>2, <2>2, ApartShrinks DEF AcquireLoop, InTransit, PooledConns, callerVars
    <2>3. QED
        BY <2>1, <2>2
<1>3. ASSUME NEW t \in Threads, AcquireCheckIdle(t) PROVE UsedApart'
    BY <1>3, ApartShrinks DEF AcquireCheckIdle, InTransit, PooledConns, callerVars
<1>4. ASSUME NEW t \in Threads, AcquireAddUsed(t) PROVE UsedApart'
    <2> DEFINE c == got[t].conn
    <2>1. /\ used' = used \cup {c}
          /\ pc' = [pc EXCEPT ![t] = "idle"]
          /\ UNCHANGED pool
          /\ pc[t] = "acq_add"
          /\ \A u \in Threads \ {t} : got'[u] = got[u]
        BY <1>4 DEF AcquireAddUsed
    <2>2. InTransit(t)' = {} /\ \A u \in Threads \ {t} : InTransit(u)' = InTransit(u)
        BY <2>1 DEF InTransit
    <2>3. c \in InHand(t)
        BY <2>1 DEF InHand, InTransit
    <2>4. c \notin PooledConns /\ \A u \in Threads \ {t} : c \notin InTransit(u)
        BY <1>0, <2>3 DEF InHand
    <2>5. QED
        BY <2>1, <2>2, <2>4 DEF UsedApart, PooledConns
<1>5. ASSUME NEW t \in Threads, AcquireEmpty(t) PROVE UsedApart'
    BY <1>5, ApartShrinks DEF AcquireEmpty, InTransit, PooledConns, callerVars
<1>6. ASSUME NEW t \in Threads, NEW c \in ReleaseCandidates(t), ReleaseCall(t, c)
      PROVE UsedApart'
    BY <1>6, ApartShrinks DEF ReleaseCall, InTransit, PooledConns
<1>7. ASSUME NEW t \in Threads, ReleaseLocked(t) PROVE UsedApart'
    <2>1. CASE arg[t] \in used
        <3> DEFINE c == arg[t]
                   e == [conn |-> c, lastUsed |-> now]
        <3>1. /\ pool' = Append(pool, e)
              /\ used' = used \ {c}
              /\ UNCHANGED got
              /\ \A u \in Threads : InTransit(u)' = InTransit(u)
            BY <1>7, <2>1 DEF ReleaseLocked, callerVars, InTransit
        <3>2. e \in Slot /\ c \notin ConnsOf(pool)
            BY <2>1 DEF UsedApart, PooledConns, Slot, Time
        <3>3. ConnsOf(pool') = ConnsOf(pool) \cup {c}
            BY <1>0, <3>1, <3>2, ConnsOfAppend
        <3>4. QED
            BY <3>1, <3>3 DEF UsedApart, PooledConns
    <2>2. CASE arg[t] \notin used
        BY <1>7, <2>2, ApartShrinks DEF ReleaseLocked, InTransit, PooledConns, callerVars
    <2>3. QED
        BY <2>1, <2>2
<1>8. ASSUME NEW t \in Threads, CloseCall(t) PROVE UsedApart'
    BY <1>8, ApartShrinks DEF CloseCall, InTransit, PooledConns, callerVars
<1>9. ASSUME NEW t \in Threads, CloseDrain(t) PROVE UsedApart'
    <2>1. CASE pool # <<>>
        <3>1. ConnsOf(Tail(pool)) \subseteq ConnsOf(pool)
            BY <1>0, <2>1, ConnsOfTail
        <3>2. QED
            BY <1>9, <2>1, <3>1, ApartShrinks
            DEF CloseDrain, InTransit, PooledConns, callerVars
    <2>2. CASE pool = <<>>
        BY <1>9, <2>2, ApartShrinks DEF CloseDrain, InTransit, PooledConns, callerVars
    <2>3. QED
        BY <2>1, <2>2
<1>10. ASSUME NEW t \in Threads, CloseLocked(t) PROVE UsedApart'
    BY <1>10 DEF CloseLocked, UsedApart
<1>11. ASSUME NEW t \in Threads, StatusCall(t) PROVE UsedApart'
    BY <1>11, ApartShrinks DEF StatusCall, InTransit, PooledConns, callerVars
<1>12. ASSUME NEW t \in Threads, GetStatus(t) PROVE UsedApart'
    BY <1>12, ApartShrinks DEF GetStatus, InTransit, PooledConns, callerVars
<1>13. CASE Tick
    BY <1>13, ApartShrinks DEF Tick, InTransit, PooledConns, callerVars
<1>14. CASE UNCHANGED vars
    BY <1>14, ApartShrinks DEF vars, InTransit, PooledConns
<1>15. QED
    BY <1>1, <1>2, <1>3, <1>4, <1>5, <1>6, <1>7, <1>8, <1>9, <1>10, <1>11,
       <1>12, <1>13, <1>14 DEF Next, Call, Run

(* When callers release only what they hold, qsize() + len(_used) never   *)
(* exceeds max_connections, so get_status() never reports more connections *)
(* than the pool may have, and the pool never grows past its limit.        *)
THEOREM CapacityTheorem ==
    ASSUME ~CallersReleaseStale
    PROVE  Spec => []Capacity
<1>1. Init => CapInv
    BY TypeInitial, OwnershipInitial DEF CapInv, OwnInv, Init, UsedApart
<1>2. CapInv /\ [Next]_vars => CapInv'
    BY TypeStep, OwnershipStep, ApartStep DEF CapInv, OwnInv
<1>3. CapInv => Capacity
    BY CapacityFromInv DEF CapInv, OwnInv, TypeInv, ExclusiveOwnership
<1>4. QED
    BY <1>1, <1>2, <1>3, PTL DEF Spec

=============================================================================
