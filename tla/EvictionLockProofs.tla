-------------------------- MODULE EvictionLockProofs --------------------------
(* Theorems about EvictionLock, checked by TLAPS.                           *)
EXTENDS EvictionLock, TLAPS

\* Formatting an expiry never moves it later.
LEMMA FormatLowers ==
  ASSUME NEW t \in Nat
  PROVE  Format(t) \in Nat /\ Format(t) <= t
  BY LockAssumption DEF Format

\* Every step of the eviction loop, the flush and the clock keeps the types.
LEMMA TypeStep ==
  ASSUME TypeOK, [Next]_vars
  PROVE  TypeOK'
  <1>. USE LockAssumption
  <1>1. \A i \in Instances : Expiry(i) \in Nat
    BY FormatLowers DEF TypeOK, Expiry
  <1>2. Get \in Lock
    BY DEF TypeOK, Get, NoLock, Lock
  <1>3. CASE UNCHANGED vars
    BY <1>3 DEF TypeOK, vars
  <1>4. ASSUME NEW i \in Instances, Wake(i) PROVE TypeOK'
    BY <1>4 DEF TypeOK, Wake, Places
  <1>5. ASSUME NEW i \in Instances, ReadValid(i) PROVE TypeOK'
    BY <1>2, <1>5 DEF TypeOK, ReadValid, Places, Lock
  <1>6. ASSUME NEW i \in Instances, ReadFree(i) PROVE TypeOK'
    BY <1>6 DEF TypeOK, ReadFree, Places
  <1>7. ASSUME NEW i \in Instances, Set(i) PROVE TypeOK'
    BY <1>1, <1>7 DEF TypeOK, Set, Places, Lock
  <1>8. ASSUME NEW i \in Instances, SetFails(i) PROVE TypeOK'
    BY <1>8 DEF TypeOK, SetFails, Places
  <1>9. ASSUME NEW i \in Instances, Verify(i) PROVE TypeOK'
    BY <1>1, <1>9 DEF TypeOK, Verify, Places
  <1>10. ASSUME NEW i \in Instances, Evicted(i) PROVE TypeOK'
    BY <1>10 DEF TypeOK, Evicted, Places
  <1>11. ASSUME NEW i \in Instances, Stop(i) PROVE TypeOK'
    BY <1>11 DEF TypeOK, Stop, Places
  <1>12. CASE Flush
    BY <1>12 DEF TypeOK, Flush, NoLock, Lock
  <1>13. CASE Tick
    BY <1>13 DEF TypeOK, Tick
  <1>. QED
    BY <1>3, <1>4, <1>5, <1>6, <1>7, <1>8, <1>9, <1>10, <1>11, <1>12, <1>13
       DEF Next

-----------------------------------------------------------------------------
(***************************************************************************)
(* The inductive invariant.  WrittenAt is when the present lock was set:   *)
(* an instance about to write has read the storer before that, or has seen *)
(* the lock expired; and it writes before its deadline.  An instance that  *)
(* has been granted a lock that is still valid has waited VerifyDelay      *)
(* after it was written, so nobody is about to overwrite it any more.      *)
(***************************************************************************)
WrittenAt == lock.until - TTL
Present == lock.holder # NoHolder

TimesPassed ==
  /\ \A i \in Instances : now[i] <= clock /\ readAt[i] <= clock
  /\ \A i \in Instances : pc[i] = "set" => clock <= readAt[i] + MaxLatency
  /\ Present => WrittenAt <= clock /\ lock.expiry <= lock.until

WritersReadBefore ==
  \A i \in Instances : pc[i] = "set" /\ Present =>
    readAt[i] <= WrittenAt \/ lock.expiry <= readAt[i]

HolderWaits ==
  \A i \in Instances : lock.holder = i =>
    IF pc[i] = "sleep"
    THEN setAt[i] = WrittenAt
    ELSE clock >= WrittenAt + VerifyDelay

GrantedIsPresent ==
  \A i \in Instances : Holds(i) =>
    /\ lock.holder = i
    /\ lock.expiry = granted[i]
    /\ clock >= WrittenAt + VerifyDelay

LockInv ==
  /\ TypeOK
  /\ TimesPassed
  /\ WritersReadBefore
  /\ HolderWaits
  /\ GrantedIsPresent

\* Before anybody has written the lock, the invariant holds.
LEMMA InitLockInv == Init => LockInv
  BY LockAssumption
     DEF Init, LockInv, TypeOK, TimesPassed, WritersReadBefore, HolderWaits,
         GrantedIsPresent, Holds, Present, NoLock, Lock, Places

\* What Get returns when it returns a lock.
LEMMA GetPresent ==
  ASSUME Get.holder # NoHolder
  PROVE  Get = lock /\ clock < lock.until
  BY DEF Get, NoLock

\* Nobody is about to write while a lock is granted and valid.
LEMMA NoWriterWhileHeld ==
  ASSUME LockInv, MaxLatency < VerifyDelay,
         NEW i \in Instances, Holds(i), NEW j \in Instances
  PROVE  pc[j] # "set"
  <1>. SUFFICES ASSUME pc[j] = "set" PROVE FALSE
    OBVIOUS
  <1>. USE LockAssumption
  <1>1. /\ Present /\ lock.expiry > clock
        /\ clock >= WrittenAt + VerifyDelay
    BY DEF LockInv, GrantedIsPresent, Present, Holds
  <1>2. readAt[j] <= clock /\ clock <= readAt[j] + MaxLatency
    BY DEF LockInv, TimesPassed
  <1>3. readAt[j] <= WrittenAt \/ lock.expiry <= readAt[j]
    BY <1>1 DEF LockInv, WritersReadBefore
  <1>4. /\ clock \in Int /\ lock.expiry \in Int /\ WrittenAt \in Int
        /\ readAt[j] \in Int
    BY DEF LockInv, TypeOK, Lock, WrittenAt
  <1>. QED
    BY <1>1, <1>2, <1>3, <1>4

\* Every step keeps the invariant when a write is faster than the sleep.
LEMMA LockStep ==
  ASSUME LockInv, [Next]_vars, MaxLatency < VerifyDelay
  PROVE  LockInv'
  <1>. USE LockAssumption
  <1>1. TypeOK'
    BY TypeStep DEF LockInv
  <1>2. CASE UNCHANGED vars
    <2>1. TimesPassed'
      BY <1>1, <1>2
         DEF vars, LockInv, TypeOK, TimesPassed, Present,
             WrittenAt, Lock, Places
    <2>2. WritersReadBefore'
      BY <1>1, <1>2
         DEF vars, LockInv, TypeOK, TimesPassed, WritersReadBefore, Present,
             WrittenAt, Lock, Places
    <2>3. HolderWaits'
      BY <1>1, <1>2
         DEF vars, LockInv, TypeOK, TimesPassed, HolderWaits, Present,
             WrittenAt, Lock, Places
    <2>4. GrantedIsPresent'
      BY <1>1, <1>2
         DEF vars, LockInv, TypeOK, TimesPassed, GrantedIsPresent, Holds, Present,
             WrittenAt, Lock, Places
    <2>. QED
      BY <1>1, <2>1, <2>2, <2>3, <2>4 DEF LockInv
  <1>3. ASSUME NEW i \in Instances, Wake(i) PROVE LockInv'
    <2>1. TimesPassed'
      BY <1>1, <1>3
         DEF Wake, LockInv, TypeOK, TimesPassed, Present,
             WrittenAt, Lock, Places
    <2>2. WritersReadBefore'
      BY <1>1, <1>3
         DEF Wake, LockInv, TypeOK, TimesPassed, WritersReadBefore, Present,
             WrittenAt, Lock, Places
    <2>3. HolderWaits'
      BY <1>1, <1>3
         DEF Wake, LockInv, TypeOK, TimesPassed, HolderWaits, Present,
             WrittenAt, Lock, Places
    <2>4. GrantedIsPresent'
      BY <1>1, <1>3
         DEF Wake, LockInv, TypeOK, TimesPassed, GrantedIsPresent, Holds, Present,
             WrittenAt, Lock, Places
    <2>. QED
      BY <1>1, <2>1, <2>2, <2>3, <2>4 DEF LockInv
  <1>4. ASSUME NEW i \in Instances, ReadValid(i) PROVE LockInv'
    <2>1. TimesPassed'
      BY <1>1, <1>4, GetPresent
         DEF ReadValid, LockInv, TypeOK, TimesPassed, Present,
             WrittenAt, Lock, Places
    <2>2. WritersReadBefore'
      BY <1>1, <1>4, GetPresent
         DEF ReadValid, LockInv, TypeOK, TimesPassed, WritersReadBefore, Present,
             WrittenAt, Lock, Places
    <2>3. HolderWaits'
      BY <1>1, <1>4, GetPresent
         DEF ReadValid, LockInv, TypeOK, TimesPassed, HolderWaits, Present,
             WrittenAt, Lock, Places
    <2>4. GrantedIsPresent'
      <3>1. Get = lock
        BY <1>4, GetPresent DEF ReadValid
      <3>2. UNCHANGED <<clock, lock>>
        BY <1>4 DEF ReadValid
      <3>3. CASE lock.holder = i
        <4>1. granted' = [granted EXCEPT ![i] = lock.expiry]
          BY <1>4, <3>1, <3>3 DEF ReadValid
        <4>2. clock >= WrittenAt + VerifyDelay
          BY <1>4, <3>3 DEF ReadValid, LockInv, HolderWaits
        <4>. QED
          BY <3>2, <3>3, <4>1, <4>2
             DEF LockInv, TypeOK, GrantedIsPresent, Holds, WrittenAt
      <3>4. CASE lock.holder # i
        <4>1. UNCHANGED granted
          BY <1>4, <3>1, <3>4 DEF ReadValid
        <4>. QED
          BY <3>2, <4>1 DEF LockInv, GrantedIsPresent, Holds, WrittenAt
      <3>. QED
        BY <3>3, <3>4
    <2>. QED
      BY <1>1, <2>1, <2>2, <2>3, <2>4 DEF LockInv
  <1>5. ASSUME NEW i \in Instances, ReadFree(i) PROVE LockInv'
    <2>1. TimesPassed'
      BY <1>1, <1>5
         DEF ReadFree, LockInv, TypeOK, TimesPassed, Present,
             WrittenAt, Lock, Places
    <2>2. WritersReadBefore'
      <3>1. UNCHANGED <<clock, lock>>
        BY <1>5 DEF ReadFree
      <3>2. ASSUME Present PROVE lock.expiry <= clock
        <4>1. /\ lock.expiry <= lock.until /\ now[i] <= clock
              /\ lock.expiry \in Int /\ lock.until \in Int
              /\ now[i] \in Int /\ clock \in Int
          BY <3>2 DEF LockInv, TimesPassed, TypeOK, Lock
        <4>2. CASE clock < lock.until
          <5>1. Get = lock
            BY <4>2 DEF Get
          <5>2. now[i] >= lock.expiry
            BY <1>5, <3>2, <5>1 DEF ReadFree, Present
          <5>. QED
            BY <4>1, <5>2
        <4>. QED
          BY <4>1, <4>2
      <3>3. /\ readAt' = [readAt EXCEPT ![i] = clock]
            /\ pc' = [pc EXCEPT ![i] = "set"]
        BY <1>5 DEF ReadFree
      <3>. QED
        BY <3>1, <3>2, <3>3
           DEF LockInv, TypeOK, WritersReadBefore, Present, WrittenAt
    <2>3. HolderWaits'
      BY <1>1, <1>5
         DEF ReadFree, LockInv, TypeOK, TimesPassed, HolderWaits, Present,
             WrittenAt, Lock, Places
    <2>4. GrantedIsPresent'
      BY <1>1, <1>5
         DEF ReadFree, LockInv, TypeOK, TimesPassed, GrantedIsPresent, Holds, Present,
             WrittenAt, Lock, Places
    <2>. QED
      BY <1>1, <2>1, <2>2, <2>3, <2>4 DEF LockInv
  <1>6. ASSUME NEW i \in Instances, Set(i) PROVE LockInv'
    <2>1. TimesPassed'
      <3>1. /\ lock'.expiry = Expiry(i) /\ lock'.until = clock + TTL
            /\ pc' = [pc EXCEPT ![i] = "sleep"]
            /\ UNCHANGED <<clock, now, readAt>>
        BY <1>6 DEF Set
      <3>2. now[i] \in Nat /\ clock \in Nat /\ now[i] <= clock
        BY DEF LockInv, TypeOK, TimesPassed
      <3>3. Expiry(i) \in Int /\ Expiry(i) <= now[i] + TTL
        <4>1. now[i] + TTL \in Nat
          BY <3>2
        <4>. QED
          BY <4>1, FormatLowers DEF Expiry
      <3>4. lock'.expiry <= lock'.until /\ lock'.until - TTL <= clock'
        BY <3>1, <3>2, <3>3
      <3>5. WrittenAt' <= clock'
        BY <3>4 DEF WrittenAt
      <3>. QED
        BY <3>1, <3>4, <3>5 DEF LockInv, TypeOK, TimesPassed
    <2>2. WritersReadBefore'
      BY <1>1, <1>6, FormatLowers, NoWriterWhileHeld
         DEF Set, LockInv, TypeOK, TimesPassed, WritersReadBefore, Present,
             WrittenAt, Lock, Places
    <2>3. HolderWaits'
      BY <1>1, <1>6, FormatLowers, NoWriterWhileHeld
         DEF Set, LockInv, TypeOK, TimesPassed, HolderWaits, Present,
             WrittenAt, Lock, Places
    <2>4. GrantedIsPresent'
      BY <1>1, <1>6, FormatLowers, NoWriterWhileHeld
         DEF Set, LockInv, TypeOK, TimesPassed, GrantedIsPresent, Holds, Present,
             WrittenAt, Lock, Places
    <2>. QED
      BY <1>1, <2>1, <2>2, <2>3, <2>4 DEF LockInv
  <1>7. ASSUME NEW i \in Instances, SetFails(i) PROVE LockInv'
    <2>1. TimesPassed'
      BY <1>1, <1>7
         DEF SetFails, LockInv, TypeOK, TimesPassed, Present,
             WrittenAt, Lock, Places
    <2>2. WritersReadBefore'
      BY <1>1, <1>7
         DEF SetFails, LockInv, TypeOK, TimesPassed, WritersReadBefore, Present,
             WrittenAt, Lock, Places
    <2>3. HolderWaits'
      BY <1>1, <1>7
         DEF SetFails, LockInv, TypeOK, TimesPassed, HolderWaits, Present,
             WrittenAt, Lock, Places
    <2>4. GrantedIsPresent'
      BY <1>1, <1>7
         DEF SetFails, LockInv, TypeOK, TimesPassed, GrantedIsPresent, Holds, Present,
             WrittenAt, Lock, Places
    <2>. QED
      BY <1>1, <2>1, <2>2, <2>3, <2>4 DEF LockInv
  <1>8. ASSUME NEW i \in Instances, Verify(i) PROVE LockInv'
    <2>1. TimesPassed'
      BY <1>1, <1>8, GetPresent, FormatLowers
         DEF Verify, LockInv, TypeOK, TimesPassed, Present,
             WrittenAt, Lock, Places
    <2>2. WritersReadBefore'
      BY <1>1, <1>8, GetPresent, FormatLowers
         DEF Verify, LockInv, TypeOK, TimesPassed, WritersReadBefore, Present,
             WrittenAt, Lock, Places
    <2>3. HolderWaits'
      BY <1>1, <1>8, GetPresent, FormatLowers
         DEF Verify, LockInv, TypeOK, TimesPassed, HolderWaits, Present,
             WrittenAt, Lock, Places
    <2>4. GrantedIsPresent'
      <3>1. UNCHANGED <<clock, lock>> /\ pc[i] = "sleep"
        BY <1>8 DEF Verify
      <3>2. CASE Get.holder = i /\ Get.expiry = Expiry(i)
        <4>1. Get = lock
          BY <3>2, GetPresent
        <4>2. granted' = [granted EXCEPT ![i] = lock.expiry]
          BY <1>8, <3>2, <4>1 DEF Verify
        <4>3. setAt[i] = WrittenAt
          BY <3>1, <3>2, <4>1 DEF LockInv, HolderWaits
        <4>4. clock >= WrittenAt + VerifyDelay
          BY <1>8, <4>3 DEF Verify
        <4>. QED
          BY <3>1, <3>2, <4>1, <4>2, <4>4
             DEF LockInv, TypeOK, GrantedIsPresent, Holds, WrittenAt
      <3>3. CASE ~(Get.holder = i /\ Get.expiry = Expiry(i))
        <4>1. UNCHANGED granted
          BY <1>8, <3>3 DEF Verify
        <4>. QED
          BY <3>1, <4>1 DEF LockInv, GrantedIsPresent, Holds, WrittenAt
      <3>. QED
        BY <3>2, <3>3
    <2>. QED
      BY <1>1, <2>1, <2>2, <2>3, <2>4 DEF LockInv
  <1>9. ASSUME NEW i \in Instances, Evicted(i) PROVE LockInv'
    <2>1. TimesPassed'
      BY <1>1, <1>9
         DEF Evicted, LockInv, TypeOK, TimesPassed, Present,
             WrittenAt, Lock, Places
    <2>2. WritersReadBefore'
      BY <1>1, <1>9
         DEF Evicted, LockInv, TypeOK, TimesPassed, WritersReadBefore, Present,
             WrittenAt, Lock, Places
    <2>3. HolderWaits'
      BY <1>1, <1>9
         DEF Evicted, LockInv, TypeOK, TimesPassed, HolderWaits, Present,
             WrittenAt, Lock, Places
    <2>4. GrantedIsPresent'
      BY <1>1, <1>9
         DEF Evicted, LockInv, TypeOK, TimesPassed, GrantedIsPresent, Holds, Present,
             WrittenAt, Lock, Places
    <2>. QED
      BY <1>1, <2>1, <2>2, <2>3, <2>4 DEF LockInv
  <1>10. ASSUME NEW i \in Instances, Stop(i) PROVE LockInv'
    <2>1. TimesPassed'
      BY <1>1, <1>10
         DEF Stop, LockInv, TypeOK, TimesPassed, Present,
             WrittenAt, Lock, Places
    <2>2. WritersReadBefore'
      BY <1>1, <1>10
         DEF Stop, LockInv, TypeOK, TimesPassed, WritersReadBefore, Present,
             WrittenAt, Lock, Places
    <2>3. HolderWaits'
      BY <1>1, <1>10
         DEF Stop, LockInv, TypeOK, TimesPassed, HolderWaits, Present,
             WrittenAt, Lock, Places
    <2>4. GrantedIsPresent'
      BY <1>1, <1>10
         DEF Stop, LockInv, TypeOK, TimesPassed, GrantedIsPresent, Holds, Present,
             WrittenAt, Lock, Places
    <2>. QED
      BY <1>1, <2>1, <2>2, <2>3, <2>4 DEF LockInv
  <1>11. CASE Flush
    <2>1. TimesPassed'
      BY <1>1, <1>11
         DEF Flush, NoLock, LockInv, TypeOK, TimesPassed, Present,
             WrittenAt, Lock, Places
    <2>2. WritersReadBefore'
      BY <1>1, <1>11
         DEF Flush, NoLock, LockInv, TypeOK, TimesPassed, WritersReadBefore, Present,
             WrittenAt, Lock, Places
    <2>3. HolderWaits'
      BY <1>1, <1>11
         DEF Flush, NoLock, LockInv, TypeOK, TimesPassed, HolderWaits, Present,
             WrittenAt, Lock, Places
    <2>4. GrantedIsPresent'
      BY <1>1, <1>11
         DEF Flush, NoLock, LockInv, TypeOK, TimesPassed, GrantedIsPresent, Holds, Present,
             WrittenAt, Lock, Places
    <2>. QED
      BY <1>1, <2>1, <2>2, <2>3, <2>4 DEF LockInv
  <1>12. CASE Tick
    <2>1. TimesPassed'
      BY <1>1, <1>12
         DEF Tick, LockInv, TypeOK, TimesPassed, Present,
             WrittenAt, Lock, Places
    <2>2. WritersReadBefore'
      BY <1>1, <1>12
         DEF Tick, LockInv, TypeOK, TimesPassed, WritersReadBefore, Present,
             WrittenAt, Lock, Places
    <2>3. HolderWaits'
      BY <1>1, <1>12
         DEF Tick, LockInv, TypeOK, TimesPassed, HolderWaits, Present,
             WrittenAt, Lock, Places
    <2>4. GrantedIsPresent'
      BY <1>1, <1>12
         DEF Tick, LockInv, TypeOK, TimesPassed, GrantedIsPresent, Holds, Present,
             WrittenAt, Lock, Places
    <2>. QED
      BY <1>1, <2>1, <2>2, <2>3, <2>4 DEF LockInv
  <1>. QED
    BY <1>2, <1>3, <1>4, <1>5, <1>6, <1>7, <1>8, <1>9, <1>10, <1>11, <1>12
       DEF Next

\* The eviction loop keeps its values within their types.
THEOREM LockTypeCorrect == Spec => []TypeOK
  <1>1. Init => TypeOK
    BY InitLockInv DEF LockInv
  <1>. QED
    BY <1>1, TypeStep, PTL DEF Spec

\* tryAcquireEvictionLock gives the lock to one instance at a time, for any
\* number of instances and any TTL, provided that the write always reaches the
\* storer in less than the sleep that precedes the second read.
THEOREM EvictionMutualExclusion ==
  ASSUME MaxLatency < VerifyDelay
  PROVE  Spec => []MutualExclusion
  <1>1. LockInv => MutualExclusion
    BY DEF LockInv, GrantedIsPresent, MutualExclusion
  <1>2. LockInv /\ [Next]_vars => LockInv'
    BY LockStep
  <1>. QED
    BY <1>1, <1>2, InitLockInv, PTL DEF Spec

-----------------------------------------------------------------------------
(***************************************************************************)
(* The lock implements the lease.  A step either gives the lock to the     *)
(* instance that takes it and leaves the others alone, or adds no holder;  *)
(* since the invariant lets one instance hold the lock before and after    *)
(* the step, it is given only while it is free or held by the same one.    *)
(***************************************************************************)
Holders == {i \in Instances : Holds(i)}

\* Only ReadValid and Verify grant, and they grant to the instance they run for;
\* the others leave the grants alone, take all of them away, or let time pass.
LEMMA GrantsToOne ==
  ASSUME TypeOK, [Next]_vars
  PROVE  \/ Holders' \subseteq Holders
         \/ \E i \in Instances : i \in Holders' /\ Holders \subseteq Holders'
  <1>1. CASE UNCHANGED <<clock, granted>>
    BY <1>1 DEF Holders, Holds
  <1>2. CASE \E i \in Instances : ReadValid(i) \/ Verify(i)
    <2>1. PICK i \in Instances : ReadValid(i) \/ Verify(i)
      BY <1>2
    <2>2. UNCHANGED clock
      BY <2>1 DEF ReadValid, Verify
    <2>3. UNCHANGED granted \/ \E e : granted' = [granted EXCEPT ![i] = e]
      BY <2>1 DEF ReadValid, Verify
    <2>4. \A j \in Instances \ {i} : granted'[j] = granted[j]
      BY <2>3 DEF TypeOK
    <2>5. \A j \in Instances \ {i} : j \in Holders' <=> j \in Holders
      BY <2>2, <2>4 DEF Holders, Holds
    <2>. QED
      BY <2>5 DEF Holders
  <1>3. CASE Flush
    <2>1. \A i \in Instances : ~ (Holds(i))'
      BY <1>3 DEF Flush, TypeOK, Holds
    <2>. QED
      BY <2>1 DEF Holders
  <1>4. CASE Tick
    <2>1. \A i \in Instances : (Holds(i))' => Holds(i)
      BY <1>4 DEF Tick, TypeOK, Holds
    <2>. QED
      BY <2>1 DEF Holders
  <1>5. CASE \E i \in Instances : Wake(i) \/ ReadFree(i) \/ Set(i)
                  \/ SetFails(i) \/ Evicted(i) \/ Stop(i)
    BY <1>1, <1>5 DEF Wake, ReadFree, Set, SetFails, Evicted, Stop
  <1>6. CASE UNCHANGED vars
    BY <1>1, <1>6 DEF vars
  <1>. QED
    BY <1>2, <1>3, <1>4, <1>5, <1>6 DEF Next

\* Every step of the lock is a step of the lease, or leaves the holders alone.
LEMMA LeaseStep ==
  ASSUME TypeOK, MutualExclusion, MutualExclusion', [Next]_vars
  PROVE  [TheLease!Next]_Holders
  <1>1. \A i, j \in Holders : i = j
    BY DEF MutualExclusion, Holders
  <1>2. \A i, j \in Holders' : i = j
    BY DEF MutualExclusion, Holders
  <1>3. CASE Holders' \subseteq Holders
    <2>1. Holders' = Holders \/ Holders' = {}
      BY <1>1, <1>3
    <2>. QED
      BY <2>1 DEF TheLease!Next, TheLease!Lapse, Holders
  <1>4. CASE \E i \in Instances : i \in Holders' /\ Holders \subseteq Holders'
    <2>1. PICK i \in Instances : i \in Holders' /\ Holders \subseteq Holders'
      BY <1>4
    <2>2. Holders' = {i} /\ Holders \subseteq {i}
      BY <1>2, <2>1
    <2>3. TheLease!Grant(i)
      BY <2>2 DEF TheLease!Grant, Holders
    <2>. QED
      BY <2>3 DEF TheLease!Next
  <1>. QED
    BY <1>3, <1>4, GrantsToOne

\* The eviction lock is a lease: an instance is given it only while no other one
\* has it, for any number of instances, TTL and delays, provided that the write
\* reaches the storer in less than the sleep.
THEOREM EvictionLockIsLease ==
  ASSUME MaxLatency < VerifyDelay
  PROVE  Spec => ImplementsLease
  <1>1. Init => TheLease!Init
    BY LockAssumption DEF Init, TheLease!Init, Holds
  <1>2. LockInv => MutualExclusion /\ TypeOK
    BY DEF LockInv, GrantedIsPresent, MutualExclusion
  <1>3. LockInv /\ [Next]_vars => LockInv'
    BY LockStep
  <1>4. LockInv /\ LockInv' /\ [Next]_vars
          => [TheLease!Next]_{i \in Instances : Holds(i)}
    <2>1. LockInv' => MutualExclusion'
      BY DEF LockInv, GrantedIsPresent, MutualExclusion
    <2>. QED
      BY <1>2, <2>1, LeaseStep DEF Holders
  <1>. QED
    BY <1>1, <1>3, <1>4, InitLockInv, PTL
       DEF Spec, ImplementsLease, TheLease!Spec
=============================================================================
