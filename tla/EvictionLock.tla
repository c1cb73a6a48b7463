----------------------------- MODULE EvictionLock -----------------------------
(***************************************************************************)
(* tryAcquireEvictionLock and the loop of registerMappingKeysEviction      *)
(* (pkg/middleware/middleware.go): every instance wakes up now and then    *)
(* and evicts the expired mappings of a shared storer, unless another      *)
(* instance holds the lock kept in that storer.  The storer has no         *)
(* compare-and-set: the lock is read, written, and read again after a      *)
(* short sleep.                                                            *)
(*                                                                         *)
(* Time is a counter that every instance reads.  A call of the storer      *)
(* takes effect at one instant; MaxLatency bounds the time from the first  *)
(* read of the lock to the write, and the write happens before the clock   *)
(* passes that bound.                                                      *)
(***************************************************************************)
EXTENDS Integers

CONSTANTS
  Instances,     \* the processes, by their evictionLockHolder identifier
  NoHolder,      \* the storer has no lock
  TTL,           \* evictionLockTTL
  Second,        \* time.RFC3339 keeps whole seconds: ticks per second
  VerifyDelay,   \* the sleep before the lock is read again
  MaxLatency,    \* bound on the time between the first Get and the Set
  MaxTime        \* bound on the clock

ASSUME LockAssumption ==
  /\ NoHolder \notin Instances
  /\ TTL \in Nat /\ Second \in Nat \ {0}
  /\ VerifyDelay \in Nat /\ MaxLatency \in Nat /\ MaxTime \in Nat

VARIABLES
  clock,    \* time.Now()
  lock,     \* the value under evictionLockKey and when the storer drops it
  pc,       \* the place of each instance in its loop
  now,      \* the time read at the start of tryAcquireEvictionLock
  readAt,   \* when the first Get took effect
  setAt,    \* when the Set took effect
  granted   \* the expiry of the lock granted to an instance since the last flush

vars == <<clock, lock, pc, now, readAt, setAt, granted>>

Places == {"idle", "get", "set", "sleep", "evict", "stopped"}

\* "holder|expiry" with the storer's own deadline for the key.
Lock == [holder : Instances \union {NoHolder}, expiry : Nat, until : Nat]
NoLock == [holder |-> NoHolder, expiry |-> 0, until |-> 0]

\* Formatting a time as RFC3339 drops what is less than a second.
Format(t) == t - (t % Second)

\* storer.Get: nothing once the storer's deadline has passed.
Get == IF clock < lock.until THEN lock ELSE NoLock

Init ==
  /\ clock = 0
  /\ lock = NoLock
  /\ pc = [i \in Instances |-> "idle"]
  /\ now = [i \in Instances |-> 0]
  /\ readAt = [i \in Instances |-> 0]
  /\ setAt = [i \in Instances |-> 0]
  /\ granted = [i \in Instances |-> 0]

\* The ticker fires; tryAcquireEvictionLock reads the time.
Wake(i) ==
  /\ pc[i] = "idle"
  /\ now' = [now EXCEPT ![i] = clock]
  /\ pc' = [pc EXCEPT ![i] = "get"]
  /\ UNCHANGED <<clock, lock, readAt, setAt, granted>>

\* The lock is valid: it is ours, or the eviction is skipped.
ReadValid(i) ==
  /\ pc[i] = "get"
  /\ Get.holder # NoHolder /\ now[i] < Get.expiry
  /\ IF Get.holder = i
     THEN /\ pc' = [pc EXCEPT ![i] = "evict"]
          /\ granted' = [granted EXCEPT ![i] = Get.expiry]
     ELSE /\ pc' = [pc EXCEPT ![i] = "idle"]
          /\ UNCHANGED granted
  /\ UNCHANGED <<clock, lock, now, readAt, setAt>>

\* No lock, or one whose expiry has passed: claim it.
ReadFree(i) ==
  /\ pc[i] = "get"
  /\ Get.holder = NoHolder \/ now[i] >= Get.expiry
  /\ readAt' = [readAt EXCEPT ![i] = clock]
  /\ pc' = [pc EXCEPT ![i] = "set"]
  /\ UNCHANGED <<clock, lock, now, setAt, granted>>

\* Faulty: now.Add(-evictionLockTTL).
ExpiryBefore(i) == Format(now[i] - TTL)

\* newLockExpiry, as it is written in the lock's value.
Expiry(i) == Format(now[i] + TTL)

Set(i) ==
  /\ pc[i] = "set"
  /\ lock' = [holder |-> i, expiry |-> Expiry(i), until |-> clock + TTL]
  /\ setAt' = [setAt EXCEPT ![i] = clock]
  /\ pc' = [pc EXCEPT ![i] = "sleep"]
  /\ UNCHANGED <<clock, now, readAt, granted>>

\* storer.Set returns an error.
SetFails(i) ==
  /\ pc[i] = "set"
  /\ pc' = [pc EXCEPT ![i] = "idle"]
  /\ UNCHANGED <<clock, lock, now, readAt, setAt, granted>>

\* Faulty: the instance trusts its own Set and does not read the lock again.
VerifyNothing(i) ==
  /\ pc[i] = "sleep" /\ clock >= setAt[i] + VerifyDelay
  /\ pc' = [pc EXCEPT ![i] = "evict"]
  /\ granted' = [granted EXCEPT ![i] = Expiry(i)]
  /\ UNCHANGED <<clock, lock, now, readAt, setAt>>

\* After the sleep, the value must still be the one written.
Verify(i) ==
  /\ pc[i] = "sleep" /\ clock >= setAt[i] + VerifyDelay
  /\ IF Get.holder = i /\ Get.expiry = Expiry(i)
     THEN /\ pc' = [pc EXCEPT ![i] = "evict"]
          /\ granted' = [granted EXCEPT ![i] = Expiry(i)]
     ELSE /\ pc' = [pc EXCEPT ![i] = "idle"]
          /\ UNCHANGED granted
  /\ UNCHANGED <<clock, lock, now, readAt, setAt>>

\* api.EvictMapping returns; the lock is not released.
Evicted(i) ==
  /\ pc[i] = "evict"
  /\ pc' = [pc EXCEPT ![i] = "idle"]
  /\ UNCHANGED <<clock, lock, now, readAt, setAt, granted>>

\* The context of the loop is done.
Stop(i) ==
  /\ pc[i] = "idle"
  /\ pc' = [pc EXCEPT ![i] = "stopped"]
  /\ UNCHANGED <<clock, lock, now, readAt, setAt, granted>>

\* PURGE .../flush: DeleteMany(".+") matches the lock's key too.  What was
\* granted before is void: the code gives an instance that is still evicting no
\* way to learn it, so the promise made below starts afresh.
Flush ==
  /\ lock' = NoLock
  /\ granted' = [i \in Instances |-> 0]
  /\ UNCHANGED <<clock, pc, now, readAt, setAt>>

\* Time passes, but not past the deadline of a pending write.
Tick ==
  /\ clock < MaxTime
  /\ \A i \in Instances : pc[i] = "set" => clock < readAt[i] + MaxLatency
  /\ clock' = clock + 1
  /\ UNCHANGED <<lock, pc, now, readAt, setAt, granted>>

Next ==
  \/ \E i \in Instances :
       \/ Wake(i) \/ ReadValid(i) \/ ReadFree(i) \/ Set(i) \/ SetFails(i)
       \/ Verify(i) \/ Evicted(i) \/ Stop(i)
  \/ Flush
  \/ Tick

Spec == Init /\ [][Next]_vars

-----------------------------------------------------------------------------
\* Every variable has its type; tryAcquireEvictionLock writes only times that
\* have come or will come.
TypeOK ==
  /\ clock \in Nat
  /\ lock \in Lock
  /\ pc \in [Instances -> Places]
  /\ now \in [Instances -> Nat]
  /\ readAt \in [Instances -> Nat]
  /\ setAt \in [Instances -> Nat]
  /\ granted \in [Instances -> Nat]

\* tryAcquireEvictionLock has told the instance that it holds the lock, and the
\* expiry it was told of has not come; the lock was not flushed since.
Holds(i) == granted[i] > clock

\* tryAcquireEvictionLock keeps two instances from holding the eviction lock at
\* the same time, though the storer it locks with has no compare-and-set.  True
\* when the Set follows the Get by less than the verification sleep.
MutualExclusion == \A i, j \in Instances : Holds(i) /\ Holds(j) => i = j

\* The lock implements a lease: the instances that hold it are its holders.
TheLease == INSTANCE Lease WITH holders <- {i \in Instances : Holds(i)}

\* tryAcquireEvictionLock grants the lock only while it is free or held by the
\* same instance, so that two evictions follow each other with the expiry of
\* the first in between; expiry and flush only take it away.
ImplementsLease == TheLease!Spec
=============================================================================
