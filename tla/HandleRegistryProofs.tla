------------------------ MODULE HandleRegistryProofs ------------------------
(***************************************************************************)
(* Proofs about HandleRegistry for any goroutines, tables, catalogs and    *)
(* addresses.  The safety properties are not inductive by themselves: that *)
(* a value has one C++ object depends on nobody else being between the     *)
(* lookup that missed and the store, which depends on the mutex.  IInv     *)
(* says so, one named part for each of these facts.                        *)
(***************************************************************************)
EXTENDS HandleRegistry, TLAPS

\* Whoever is inside a critical section holds its mutex.
LockInv == \A t \in Threads : \A k \in Kinds : Inside(t, k) => mu[k] = t

\* What a call in progress knows of its argument and of the object it made.
CallInv ==
    \A t \in Threads :
        /\ pc[t] \in {"raw_lock", "raw_lookup", "raw_new", "raw_store"} => arg[t] \in GoObjs
        /\ pc[t] \in {"idle", "new_lock", "new_scan", "new_done"} => arg[t] = NoObj
        /\ pc[t] \in {"raw_new", "raw_store"} =>
                /\ arg[t] \notin Uncomparable
                /\ reg[arg[t]] = NoAddr
        /\ pc[t] = "raw_store" => ptr[t] \in GoAddrs /\ native[ptr[t]] = arg[t]
        /\ pc[t] = "raw_done" /\ arg[t] = NoObj => ptr[t] \in CxxAddrs \cup {NoAddr}

\* An entry of the registry names an object whose handle holds the entry's key.
RegInv == \A v \in GoObjs : reg[v] # NoAddr => native[reg[v]] = v

\* An object is registered, or its maker is about to register it.
NativeInv ==
    \A a \in GoAddrs :
        native[a] # NoObj =>
            \/ reg[native[a]] = a
            \/ \E t \in Threads : pc[t] = "raw_store" /\ arg[t] = native[a] /\ ptr[t] = a

\* a is the address of a registered table.
OfTable(a) == \E v \in Tables : reg[v] = a

\* Every address of a user-written table that C++ was given is registered.
HandedInv ==
    /\ \A a \in handed : a \in GoAddrs => OfTable(a)
    /\ \A t \in Threads :
        pc[t] \in {"new_lock", "new_scan", "new_done"} /\ ptr[t] \in GoAddrs => OfTable(ptr[t])

IInv ==
    /\ TypeOK
    /\ LockInv
    /\ CallInv
    /\ RegInv
    /\ NativeInv
    /\ HandedInv
    /\ AnswerIsOwnObject
    /\ RoundTrip

-----------------------------------------------------------------------------
USE RegistryAssumption

LEMMA InitEstablishes == Init => IInv
  BY DEF Init, IInv, TypeOK, LockInv, CallInv, RegInv, NativeInv, HandedInv,
     AnswerIsOwnObject, RoundTrip, Inside, Locations, GoTables

LEMMA GetRawPreserves ==
    ASSUME IInv, NEW t \in Threads, NEW v \in GoObjs, GetRaw(t, v)
    PROVE  IInv'
<1> USE DEF GetRaw, Goto
<1>1. TypeOK'
  BY DEF IInv, TypeOK, Locations
<1>2. LockInv'
  BY DEF IInv, LockInv, Inside
<1>3. CallInv'
  BY DEF IInv, TypeOK, CallInv
<1>4. RegInv'
  BY DEF IInv, RegInv
<1>5. NativeInv'
  BY DEF IInv, NativeInv
<1>6. HandedInv'
  BY DEF IInv, HandedInv, OfTable
<1>7. AnswerIsOwnObject'
  BY DEF IInv, AnswerIsOwnObject
<1>8. RoundTrip'
  BY DEF IInv, RoundTrip
<1>. QED
  BY <1>1, <1>2, <1>3, <1>4, <1>5, <1>6, <1>7, <1>8 DEF IInv

LEMMA GetRawUnregisteredPreserves ==
    ASSUME IInv, NEW t \in Threads, NEW a \in CxxAddrs \cup {NoAddr}, GetRawUnregistered(t, a)
    PROVE  IInv'
<1> USE DEF GetRawUnregistered, Goto
<1>1. TypeOK'
  BY DEF IInv, TypeOK, Locations, Addrs
<1>2. LockInv'
  BY DEF IInv, LockInv, Inside
<1>3. CallInv'
  BY DEF IInv, TypeOK, CallInv
<1>4. RegInv'
  BY DEF IInv, RegInv
<1>5. NativeInv'
  BY DEF IInv, NativeInv
<1>6. HandedInv'
  BY DEF IInv, HandedInv, OfTable
<1>7. AnswerIsOwnObject'
  BY DEF IInv, CallInv, AnswerIsOwnObject
<1>8. RoundTrip'
  BY DEF IInv, RoundTrip
<1>. QED
  BY <1>1, <1>2, <1>3, <1>4, <1>5, <1>6, <1>7, <1>8 DEF IInv

LEMMA RawLockPreserves ==
    ASSUME IInv, NEW t \in Threads, RawLock(t)
    PROVE  IInv'
<1> USE DEF RawLock, Goto, Lock
<1>1. TypeOK'
  BY DEF IInv, TypeOK, Locations
<1>2. LockInv'
  BY DEF IInv, TypeOK, LockInv, Inside
<1>3. CallInv'
  BY DEF IInv, CallInv
<1>4. RegInv'
  BY DEF IInv, RegInv
<1>5. NativeInv'
  BY DEF IInv, NativeInv
<1>6. HandedInv'
  BY DEF IInv, HandedInv, OfTable
<1>7. AnswerIsOwnObject'
  BY DEF IInv, AnswerIsOwnObject
<1>8. RoundTrip'
  BY DEF IInv, RoundTrip
<1>. QED
  BY <1>1, <1>2, <1>3, <1>4, <1>5, <1>6, <1>7, <1>8 DEF IInv

LEMMA RawHitPreserves ==
    ASSUME IInv, NEW t \in Threads, RawHit(t)
    PROVE  IInv'
<1> USE DEF RawHit, Goto, Unlock
<1>1. TypeOK'
  BY DEF IInv, TypeOK, Locations, Addrs, CallInv
<1>2. LockInv'
  BY DEF IInv, TypeOK, LockInv, Inside
<1>3. CallInv'
  BY DEF IInv, CallInv
<1>4. RegInv'
  BY DEF IInv, RegInv
<1>5. NativeInv'
  BY DEF IInv, NativeInv
<1>6. HandedInv'
  BY DEF IInv, HandedInv, OfTable
<1>7. AnswerIsOwnObject'
  BY DEF IInv, TypeOK, RegInv, AnswerIsOwnObject
<1>8. RoundTrip'
  BY DEF IInv, RoundTrip
<1>. QED
  BY <1>1, <1>2, <1>3, <1>4, <1>5, <1>6, <1>7, <1>8 DEF IInv

LEMMA RawMissPreserves ==
    ASSUME IInv, NEW t \in Threads, RawMiss(t)
    PROVE  IInv'
<1> USE DEF RawMiss, Goto
<1>1. TypeOK'
  BY DEF IInv, TypeOK, Locations
<1>2. LockInv'
  BY DEF IInv, LockInv, Inside
<1>3. CallInv'
  BY DEF IInv, CallInv
<1>4. RegInv'
  BY DEF IInv, RegInv
<1>5. NativeInv'
  BY DEF IInv, NativeInv
<1>6. HandedInv'
  BY DEF IInv, HandedInv, OfTable
<1>7. AnswerIsOwnObject'
  BY DEF IInv, AnswerIsOwnObject
<1>8. RoundTrip'
  BY DEF IInv, RoundTrip
<1>. QED
  BY <1>1, <1>2, <1>3, <1>4, <1>5, <1>6, <1>7, <1>8 DEF IInv

LEMMA RawPanicPreserves ==
    ASSUME IInv, NEW t \in Threads, RawPanic(t)
    PROVE  IInv'
<1> USE DEF RawPanic, Goto, Unlock
<1>1. TypeOK'
  BY DEF IInv, TypeOK, Locations
<1>2. LockInv'
  BY DEF IInv, TypeOK, LockInv, Inside
<1>3. CallInv'
  BY DEF IInv, CallInv
<1>4. RegInv'
  BY DEF IInv, RegInv
<1>5. NativeInv'
  BY DEF IInv, NativeInv
<1>6. HandedInv'
  BY DEF IInv, HandedInv, OfTable
<1>7. AnswerIsOwnObject'
  BY DEF IInv, AnswerIsOwnObject
<1>8. RoundTrip'
  BY DEF IInv, RoundTrip
<1>. QED
  BY <1>1, <1>2, <1>3, <1>4, <1>5, <1>6, <1>7, <1>8 DEF IInv

LEMMA RawNewPreserves ==
    ASSUME IInv, NEW t \in Threads, RawNew(t)
    PROVE  IInv'
<1> USE DEF RawNew, Goto
<1>1. TypeOK'
  BY DEF IInv, TypeOK, Locations, Addrs
<1>2. LockInv'
  BY DEF IInv, LockInv, Inside
<1>3. CallInv'
  BY DEF IInv, TypeOK, CallInv
<1>4. RegInv'
  BY DEF IInv, RegInv
<1>5. NativeInv'
  BY DEF IInv, TypeOK, NativeInv
<1>6. HandedInv'
  BY DEF IInv, HandedInv, OfTable
<1>7. AnswerIsOwnObject'
  BY DEF IInv, AnswerIsOwnObject
<1>8. RoundTrip'
  BY DEF IInv, RoundTrip, HandedInv, RegInv, OfTable, Addrs, GoObjs
<1>. QED
  BY <1>1, <1>2, <1>3, <1>4, <1>5, <1>6, <1>7, <1>8 DEF IInv

LEMMA RawStorePreserves ==
    ASSUME IInv, NEW t \in Threads, RawStore(t)
    PROVE  IInv'
<1> USE DEF RawStore, Goto, Unlock
<1>1. TypeOK'
  BY DEF IInv, TypeOK, Locations, CallInv
<1>2. LockInv'
  BY DEF IInv, TypeOK, LockInv, Inside
<1>3. CallInv'
  BY DEF IInv, TypeOK, CallInv, LockInv, Inside, Kinds, KindOf
<1>4. RegInv'
  BY DEF IInv, CallInv, RegInv
<1>5. NativeInv'
  BY DEF IInv, TypeOK, CallInv, NativeInv, Addrs
<1>6. HandedInv'
  BY DEF IInv, CallInv, HandedInv, OfTable, Addrs
<1>7. AnswerIsOwnObject'
  BY DEF IInv, TypeOK, CallInv, AnswerIsOwnObject, Addrs
<1>8. RoundTrip'
  BY DEF IInv, RoundTrip
<1>. QED
  BY <1>1, <1>2, <1>3, <1>4, <1>5, <1>6, <1>7, <1>8 DEF IInv

LEMMA RawReturnPreserves ==
    ASSUME IInv, NEW t \in Threads, RawReturn(t)
    PROVE  IInv'
<1> USE DEF RawReturn, Goto, Leave
<1>1. TypeOK'
  BY DEF IInv, TypeOK, Locations, GoTables
<1>2. LockInv'
  BY DEF IInv, LockInv, Inside
<1>3. CallInv'
  BY DEF IInv, TypeOK, CallInv
<1>4. RegInv'
  BY DEF IInv, RegInv
<1>5. NativeInv'
  BY DEF IInv, NativeInv
<1>6. HandedInv'
  BY DEF IInv, TypeOK, CallInv, HandedInv, OfTable, AnswerIsOwnObject, GoObjs
<1>7. AnswerIsOwnObject'
  BY DEF IInv, TypeOK, AnswerIsOwnObject
<1>8. RoundTrip'
  BY DEF IInv, RoundTrip
<1>. QED
  BY <1>1, <1>2, <1>3, <1>4, <1>5, <1>6, <1>7, <1>8 DEF IInv

LEMMA RecoverPreserves ==
    ASSUME IInv, NEW t \in Threads, Recover(t)
    PROVE  IInv'
<1> USE DEF Recover, Goto, Leave
<1>1. TypeOK'
  BY DEF IInv, TypeOK, Locations, GoTables
<1>2. LockInv'
  BY DEF IInv, LockInv, Inside
<1>3. CallInv'
  BY DEF IInv, TypeOK, CallInv
<1>4. RegInv'
  BY DEF IInv, RegInv
<1>5. NativeInv'
  BY DEF IInv, NativeInv
<1>6. HandedInv'
  BY DEF IInv, HandedInv, OfTable
<1>7. AnswerIsOwnObject'
  BY DEF IInv, AnswerIsOwnObject
<1>8. RoundTrip'
  BY DEF IInv, RoundTrip
<1>. QED
  BY <1>1, <1>2, <1>3, <1>4, <1>5, <1>6, <1>7, <1>8 DEF IInv

LEMMA NewTablePreserves ==
    ASSUME IInv, NEW t \in Threads, NEW a \in handed \cup CxxAddrs \cup {NoAddr}, NewTable(t, a)
    PROVE  IInv'
<1> USE DEF NewTable, Goto
<1>1. TypeOK'
  BY DEF IInv, TypeOK, Locations, Addrs
<1>2. LockInv'
  BY DEF IInv, LockInv, Inside
<1>3. CallInv'
  BY DEF IInv, CallInv
<1>4. RegInv'
  BY DEF IInv, RegInv
<1>5. NativeInv'
  BY DEF IInv, NativeInv
<1>6. HandedInv'
  BY DEF IInv, TypeOK, HandedInv, OfTable, Addrs
<1>7. AnswerIsOwnObject'
  BY DEF IInv, AnswerIsOwnObject
<1>8. RoundTrip'
  BY DEF IInv, RoundTrip
<1>. QED
  BY <1>1, <1>2, <1>3, <1>4, <1>5, <1>6, <1>7, <1>8 DEF IInv

LEMMA NewLockPreserves ==
    ASSUME IInv, NEW t \in Threads, NewLock(t)
    PROVE  IInv'
<1> USE DEF NewLock, Goto, Lock
<1>1. TypeOK'
  BY DEF IInv, TypeOK, Locations
<1>2. LockInv'
  BY DEF IInv, TypeOK, LockInv, Inside
<1>3. CallInv'
  BY DEF IInv, CallInv
<1>4. RegInv'
  BY DEF IInv, RegInv
<1>5. NativeInv'
  BY DEF IInv, NativeInv
<1>6. HandedInv'
  BY DEF IInv, HandedInv, OfTable
<1>7. AnswerIsOwnObject'
  BY DEF IInv, AnswerIsOwnObject
<1>8. RoundTrip'
  BY DEF IInv, RoundTrip
<1>. QED
  BY <1>1, <1>2, <1>3, <1>4, <1>5, <1>6, <1>7, <1>8 DEF IInv

LEMMA NewScanPreserves ==
    ASSUME IInv, NEW t \in Threads, NewScan(t)
    PROVE  IInv'
<1> USE DEF NewScan, Goto, Unlock
<1>1. TypeOK'
  BY DEF IInv, TypeOK, Locations, Kinds, GoTables
<1>2. LockInv'
  BY DEF IInv, TypeOK, LockInv, Inside
<1>3. CallInv'
  BY DEF IInv, CallInv
<1>4. RegInv'
  BY DEF IInv, RegInv
<1>5. NativeInv'
  BY DEF IInv, NativeInv
<1>6. HandedInv'
  BY DEF IInv, HandedInv, OfTable
<1>7. AnswerIsOwnObject'
  BY DEF IInv, AnswerIsOwnObject
<1>8. RoundTrip'
  BY DEF IInv, TypeOK, RoundTrip, HandedInv, RegInv, OfTable, Addrs, GoObjs
<1>. QED
  BY <1>1, <1>2, <1>3, <1>4, <1>5, <1>6, <1>7, <1>8 DEF IInv

LEMMA NewReturnPreserves ==
    ASSUME IInv, NEW t \in Threads, NewReturn(t)
    PROVE  IInv'
<1> USE DEF NewReturn, Goto, Leave
<1>1. TypeOK'
  BY DEF IInv, TypeOK, Locations, GoTables
<1>2. LockInv'
  BY DEF IInv, LockInv, Inside
<1>3. CallInv'
  BY DEF IInv, CallInv
<1>4. RegInv'
  BY DEF IInv, RegInv
<1>5. NativeInv'
  BY DEF IInv, NativeInv
<1>6. HandedInv'
  BY DEF IInv, HandedInv, OfTable, Addrs
<1>7. AnswerIsOwnObject'
  BY DEF IInv, AnswerIsOwnObject
<1>8. RoundTrip'
  BY DEF IInv, TypeOK, RoundTrip
<1>. QED
  BY <1>1, <1>2, <1>3, <1>4, <1>5, <1>6, <1>7, <1>8 DEF IInv

LEMMA NextPreserves == IInv /\ [Next]_vars => IInv'
<1> SUFFICES ASSUME IInv, [Next]_vars PROVE IInv'
  OBVIOUS
<1>1. CASE UNCHANGED vars
  BY <1>1 DEF vars, IInv, TypeOK, LockInv, CallInv, RegInv, NativeInv, HandedInv, OfTable,
              AnswerIsOwnObject, RoundTrip, Inside
<1>2. CASE Next
  <2>1. PICK t \in Threads :
            \/ \E v \in GoObjs : GetRaw(t, v)
            \/ \E a \in CxxAddrs \cup {NoAddr} : GetRawUnregistered(t, a)
            \/ \E a \in handed \cup CxxAddrs \cup {NoAddr} : NewTable(t, a)
            \/ Step(t)
    BY <1>2 DEF Next
  <2>2. CASE \E v \in GoObjs : GetRaw(t, v)
    BY <2>2, GetRawPreserves
  <2>3. CASE \E a \in CxxAddrs \cup {NoAddr} : GetRawUnregistered(t, a)
    BY <2>3, GetRawUnregisteredPreserves
  <2>4. CASE \E a \in handed \cup CxxAddrs \cup {NoAddr} : NewTable(t, a)
    BY <2>4, NewTablePreserves
  <2>5. CASE Step(t)
    BY <2>5, RawLockPreserves, RawHitPreserves, RawMissPreserves, RawPanicPreserves,
       RawNewPreserves, RawStorePreserves, RawReturnPreserves, RecoverPreserves,
       NewLockPreserves, NewScanPreserves, NewReturnPreserves
       DEF Step
  <2>. QED
    BY <2>1, <2>2, <2>3, <2>4, <2>5
<1>. QED
  BY <1>1, <1>2 DEF Next

\* The strengthened invariant holds in every reachable state.
THEOREM InvariantHolds == Spec => []IInv
  BY InitEstablishes, NextPreserves, PTL DEF Spec

-----------------------------------------------------------------------------
LEMMA LockExcludes == IInv => MapAccessExclusive
  BY DEF IInv, LockInv, MapAccessExclusive

\* The double-check under the mutex is what keeps an object unique: two makers
\* of one value's object would both be inside the same registry.
LEMMA ObjectsAreUnique == IInv => OneObjectPerValue
<1> SUFFICES ASSUME IInv, NEW a \in GoAddrs, NEW b \in GoAddrs,
                    native[a] # NoObj, native[a] = native[b]
             PROVE  a = b
  BY DEF OneObjectPerValue
<1> DEFINE Making(t, x) == pc[t] = "raw_store" /\ arg[t] = native[x] /\ ptr[t] = x
<1>1. CASE reg[native[a]] = a /\ reg[native[b]] = b
  BY <1>1
<1>2. ASSUME NEW t \in Threads, NEW x \in {a, b}, Making(t, x)
      PROVE  reg[native[a]] = NoAddr
  BY <1>2 DEF IInv, CallInv
<1>3. ASSUME NEW t \in Threads, NEW u \in Threads, Making(t, a), Making(u, b)
      PROVE  a = b
  BY <1>3 DEF IInv, LockInv, Inside, KindOf, Kinds
<1>4. /\ reg[native[a]] = a \/ \E t \in Threads : Making(t, a)
      /\ reg[native[b]] = b \/ \E t \in Threads : Making(t, b)
  BY DEF IInv, NativeInv
<1>. QED
  BY <1>1, <1>2, <1>3, <1>4 DEF Addrs

\* Variables hold values of their types, whatever the goroutines do.
THEOREM TypeCorrect == Spec => []TypeOK
<1>1. IInv => TypeOK
  BY DEF IInv
<1>. QED
  BY <1>1, InvariantHolds, PTL

\* No two goroutines access a registry's map at once.
THEOREM ExclusiveAccess == Spec => []MapAccessExclusive
  BY LockExcludes, InvariantHolds, PTL

\* No Go value ever has two C++ objects.
THEOREM UniqueObjects == Spec => []OneObjectPerValue
  BY ObjectsAreUnique, InvariantHolds, PTL

\* getRawTable and getRawCatalog answer with the value's own object.
THEOREM AnswersAreOwn == Spec => []AnswerIsOwnObject
<1>1. IInv => AnswerIsOwnObject
  BY DEF IInv
<1>. QED
  BY <1>1, InvariantHolds, PTL

\* newTable turns every address back into the table it came from.
THEOREM RoundTripHolds == Spec => []RoundTrip
<1>1. IInv => RoundTrip
  BY DEF IInv
<1>. QED
  BY <1>1, InvariantHolds, PTL

\* An address, once registered, is never replaced or dropped.
THEOREM StableAddresses == Spec => AddressesAreStable
<1>1. ASSUME IInv, [Next]_vars
      PROVE  [\A v \in GoObjs : reg[v] # NoAddr => reg'[v] = reg[v]]_vars
  <2> SUFFICES ASSUME Next, NEW v \in GoObjs, reg[v] # NoAddr
               PROVE  reg'[v] = reg[v]
    BY <1>1
  <2>1. CASE \E t \in Threads : RawStore(t)
    BY <1>1, <2>1 DEF RawStore, Goto, IInv, CallInv
  <2>2. CASE UNCHANGED reg
    BY <2>2
  <2>. QED
    BY <2>1, <2>2 DEF Next, Step, GetRaw, GetRawUnregistered, NewTable, RawLock, RawHit,
       RawMiss, RawPanic, RawNew, RawReturn, Recover, NewLock, NewScan, NewReturn
<1>. QED
  BY <1>1, InvariantHolds, PTL DEF Spec, AddressesAreStable

\* A mutex is never left locked: whoever holds it is at a step inside the critical
\* section.  None of those waits for a mutex, so no two goroutines wait for each
\* other, and a panicked or returned call holds none.
NoAbandonedLock == \A k \in Kinds : mu[k] # NoThread => mu[k] \in Threads /\ Inside(mu[k], k)

LEMMA NoLockIsAbandoned == IInv /\ NoAbandonedLock /\ [Next]_vars => NoAbandonedLock'
<1> SUFFICES ASSUME IInv, NoAbandonedLock, [Next]_vars, NEW k \in Kinds, NEW h, h # NoThread, mu'[k] = h
             PROVE  h \in Threads /\ Inside(h, k)'
  BY DEF NoAbandonedLock, Inside
<1>1. /\ mu \in [Kinds -> Threads \cup {NoThread}] /\ pc \in [Threads -> Locations]
      /\ arg \in [Threads -> GoObjs \cup {NoObj}]
      /\ mu[k] # NoThread => mu[k] \in Threads /\ Inside(mu[k], k)
  BY DEF IInv, TypeOK, NoAbandonedLock
<1>2. CASE UNCHANGED vars
  BY <1>1, <1>2 DEF vars, Inside
<1>3. ASSUME NEW t \in Threads, Lock(t, k),
             \/ pc'[t] = "raw_lookup" /\ KindOf(arg'[t]) = k
             \/ pc'[t] = "new_scan" /\ k = "table"
      PROVE  h \in Threads /\ Inside(h, k)'
  BY <1>1, <1>3 DEF Lock, Inside
<1>4. ASSUME NEW t \in Threads, mu'[k] = mu[k], Inside(t, k) => Inside(t, k)',
             \A u \in Threads \ {t} : pc'[u] = pc[u] /\ arg'[u] = arg[u]
      PROVE  h \in Threads /\ Inside(h, k)'
  <2>1. CASE mu[k] = t
    BY <1>1, <1>4, <2>1
  <2>2. CASE mu[k] # t
    BY <1>1, <1>4, <2>2 DEF Inside
  <2>. QED
    BY <2>1, <2>2
<1>5. ASSUME NEW t \in Threads,
             GetRaw(t, arg'[t]) \/ (\E a : GetRawUnregistered(t, a) \/ NewTable(t, a))
               \/ RawMiss(t) \/ RawNew(t) \/ RawReturn(t) \/ Recover(t) \/ NewReturn(t)
      PROVE  h \in Threads /\ Inside(h, k)'
  <2>1. mu' = mu /\ \A u \in Threads \ {t} : pc'[u] = pc[u] /\ arg'[u] = arg[u]
    BY <1>1, <1>5 DEF GetRaw, GetRawUnregistered, NewTable, RawMiss, RawNew, RawReturn, Recover,
       NewReturn, Goto, Leave
  <2>2. Inside(t, k) => Inside(t, k)'
    BY <1>1, <1>5 DEF GetRaw, GetRawUnregistered, NewTable, RawMiss, RawNew, RawReturn, Recover,
       NewReturn, Goto, Leave, Inside
  <2>. QED
    BY <1>4, <2>1, <2>2
<1>6. ASSUME NEW t \in Threads, RawLock(t) \/ NewLock(t)
      PROVE  h \in Threads /\ Inside(h, k)'
  <2>1. PICK m : /\ Lock(t, m) /\ arg' = arg /\ ~Inside(t, k)
                 /\ \A u \in Threads \ {t} : pc'[u] = pc[u]
                 /\ \/ pc'[t] = "raw_lookup" /\ KindOf(arg[t]) = m
                    \/ pc'[t] = "new_scan" /\ m = "table"
    BY <1>1, <1>6 DEF RawLock, NewLock, Goto, Inside
  <2>2. CASE m = k
    BY <1>3, <2>1, <2>2
  <2>3. CASE m # k
    BY <1>1, <1>4, <2>1, <2>3 DEF Lock
  <2>. QED
    BY <2>2, <2>3
<1>7. ASSUME NEW t \in Threads, RawHit(t) \/ RawPanic(t) \/ RawStore(t) \/ NewScan(t)
      PROVE  h \in Threads /\ Inside(h, k)'
  <2>1. PICK m : /\ Unlock(m) /\ arg' = arg /\ (Inside(t, k) => m = k)
                 /\ \A u \in Threads \ {t} : pc'[u] = pc[u]
    BY <1>1, <1>7 DEF RawHit, RawPanic, RawStore, NewScan, Goto, Inside
  <2>2. m # k
    BY <1>1, <2>1 DEF Unlock
  <2>. QED
    BY <1>1, <1>4, <2>1, <2>2 DEF Unlock
<1>8. CASE Next
  <2>1. PICK t \in Threads :
          \/ \E v \in GoObjs : GetRaw(t, v)
          \/ \E a \in CxxAddrs \cup {NoAddr} : GetRawUnregistered(t, a)
          \/ \E a \in handed \cup CxxAddrs \cup {NoAddr} : NewTable(t, a)
          \/ Step(t)
    BY <1>8 DEF Next
  <2>2. \A v \in GoObjs : GetRaw(t, v) => GetRaw(t, arg'[t])
    BY <1>1 DEF GetRaw
  <2>. QED
    BY <1>5, <1>6, <1>7, <2>1, <2>2 DEF Step
<1>. QED
  BY <1>2, <1>8

\* The deferred unlocks let go of every mutex, panics included.
THEOREM LocksAreLetGo == Spec => []NoAbandonedLock
<1>1. Init => NoAbandonedLock
  BY DEF Init, NoAbandonedLock
<1>. QED
  BY <1>1, NoLockIsAbandoned, InvariantHolds, PTL DEF Spec
-----------------------------------------------------------------------------
(***************************************************************************)
(* The proof that the locked registries implement AtomicRegistry.  Each    *)
(* step of HandleRegistry is the atomic step at which its call takes       *)
(* effect, or invisible to the caller.                                     *)
(***************************************************************************)

AbsCall == [t \in Threads |-> CallOf(t)]
AbsRes == [t \in Threads |-> ResultOf(t)]


\* A step of t that leaves the other goroutines alone and moves t's own call and
\* result changes the abstract call and result at t only.
LEMMA OnlyOwnCall ==
    ASSUME IInv, NEW t \in Threads,
           \A u \in Threads \ {t} :
              pc'[u] = pc[u] /\ arg'[u] = arg[u] /\ ptr'[u] = ptr[u] /\ ret'[u] = ret[u]
    PROVE  /\ AbsCall' = [AbsCall EXCEPT ![t] = CallOf(t)']
           /\ AbsRes' = [AbsRes EXCEPT ![t] = ResultOf(t)']
<1>1. ASSUME NEW u \in Threads \ {t}
      PROVE  CallOf(u)' = CallOf(u) /\ ResultOf(u)' = ResultOf(u)
  BY DEF CallOf, ResultOf
<1>. QED
  BY <1>1 DEF AbsCall, AbsRes

\* The same with the values at t named.
LEMMA AtomicMove ==
    ASSUME IInv, NEW t \in Threads, NEW c, NEW r, CallOf(t)' = c, ResultOf(t)' = r,
           \A u \in Threads \ {t} :
              pc'[u] = pc[u] /\ arg'[u] = arg[u] /\ ptr'[u] = ptr[u] /\ ret'[u] = ret[u]
    PROVE  /\ AbsCall' = [AbsCall EXCEPT ![t] = c]
           /\ AbsRes' = [AbsRes EXCEPT ![t] = r]
  BY OnlyOwnCall

LEMMA InitRefines == Init => Atomic!Init
  BY DEF Init, Atomic!Init, Atomic!NoCall, Atomic!NoResult, Atomic!GoObjs, GoObjs,
     CallOf, ResultOf

LEMMA GetRawRefines ==
    ASSUME IInv, NEW t \in Threads, NEW v \in GoObjs, GetRaw(t, v)
    PROVE  Atomic!Begin(t, Atomic!GetRawCall(v))
<1> USE DEF GetRaw, Goto, IInv, TypeOK
<1>1. CallOf(t) = Atomic!NoCall /\ ResultOf(t) = Atomic!NoResult
  BY DEF CallOf, ResultOf, Atomic!NoCall, Atomic!NoResult
<1>2. CallOf(t)' = Atomic!GetRawCall(v) /\ ResultOf(t)' = Atomic!NoResult
  BY DEF CallOf, ResultOf, Atomic!GetRawCall, Atomic!NoResult
<1>3. /\ AbsCall' = [AbsCall EXCEPT ![t] = Atomic!GetRawCall(v)]
      /\ AbsRes' = [AbsRes EXCEPT ![t] = Atomic!NoResult]
  BY <1>2, AtomicMove
<1>. QED
  BY <1>1, <1>3 DEF Atomic!Begin, AbsCall, AbsRes

\* Taking a mutex, missing in the map and making the C++ object are steps that no
\* caller can see.
LEMMA HiddenSteps ==
    ASSUME IInv, NEW t \in Threads, RawLock(t) \/ RawMiss(t) \/ RawNew(t) \/ NewLock(t)
    PROVE  UNCHANGED <<reg, AbsCall, AbsRes>>
<1> USE DEF Goto, IInv, TypeOK
<1>1. CallOf(t)' = CallOf(t) /\ ResultOf(t)' = ResultOf(t)
  BY DEF RawLock, RawMiss, RawNew, NewLock, CallOf, ResultOf
<1>2. /\ AbsCall' = [AbsCall EXCEPT ![t] = CallOf(t)]
      /\ AbsRes' = [AbsRes EXCEPT ![t] = ResultOf(t)]
  BY <1>1, AtomicMove DEF RawLock, RawMiss, RawNew, NewLock
<1>. QED
  BY <1>2 DEF AbsCall, AbsRes, RawLock, RawMiss, RawNew, NewLock

LEMMA GetRawUnregisteredRefines ==
    ASSUME IInv, NEW t \in Threads, NEW a \in CxxAddrs \cup {NoAddr}, GetRawUnregistered(t, a)
    PROVE  Atomic!Unregistered(t, a)
<1> USE DEF GetRawUnregistered, Goto, IInv, TypeOK
<1>1. CallOf(t) = Atomic!NoCall
  BY DEF CallOf, Atomic!NoCall
<1>2. CallOf(t)' = Atomic!Returned /\ ResultOf(t)' = Atomic!Address(a)
  BY DEF CallOf, ResultOf, Atomic!Returned, Atomic!Address
<1>3. /\ AbsCall' = [AbsCall EXCEPT ![t] = Atomic!Returned]
      /\ AbsRes' = [AbsRes EXCEPT ![t] = Atomic!Address(a)]
  BY <1>2, AtomicMove
<1>. QED
  BY <1>1, <1>3 DEF Atomic!Unregistered, Atomic!Answer, AbsCall, AbsRes

LEMMA RawHitRefines ==
    ASSUME IInv, NEW t \in Threads, RawHit(t)
    PROVE  Atomic!Lookup(t, arg[t])
<1> USE DEF RawHit, Goto, IInv, TypeOK
<1>1. CallOf(t) = Atomic!GetRawCall(arg[t])
  BY DEF CallOf, Atomic!GetRawCall
<1>2. CallOf(t)' = Atomic!Returned /\ ResultOf(t)' = Atomic!Address(reg[arg[t]])
  BY DEF CallOf, ResultOf, Atomic!Returned, Atomic!Address
<1>3. /\ AbsCall' = [AbsCall EXCEPT ![t] = Atomic!Returned]
      /\ AbsRes' = [AbsRes EXCEPT ![t] = Atomic!Address(reg[arg[t]])]
  BY <1>2, AtomicMove
<1>. QED
  BY <1>1, <1>3 DEF Atomic!Lookup, Atomic!Answer, AbsCall, AbsRes

LEMMA RawPanicRefines ==
    ASSUME IInv, NEW t \in Threads, RawPanic(t)
    PROVE  Atomic!Refuse(t, arg[t])
<1> USE DEF RawPanic, Goto, IInv, TypeOK
<1>1. CallOf(t) = Atomic!GetRawCall(arg[t])
  BY DEF CallOf, Atomic!GetRawCall
<1>2. CallOf(t)' = Atomic!Returned /\ ResultOf(t)' = Atomic!Panic
  BY DEF CallOf, ResultOf, Atomic!Returned, Atomic!Panic
<1>3. /\ AbsCall' = [AbsCall EXCEPT ![t] = Atomic!Returned]
      /\ AbsRes' = [AbsRes EXCEPT ![t] = Atomic!Panic]
  BY <1>2, AtomicMove
<1>. QED
  BY <1>1, <1>3 DEF Atomic!Refuse, Atomic!Answer, AbsCall, AbsRes

\* The address stored belongs to no other value: its object is closed over arg[t].
LEMMA RawStoreRefines ==
    ASSUME IInv, NEW t \in Threads, RawStore(t)
    PROVE  Atomic!Register(t, arg[t])
<1> USE DEF RawStore, Goto, IInv, TypeOK
<1>1. CallOf(t) = Atomic!GetRawCall(arg[t])
  BY DEF CallOf, Atomic!GetRawCall
<1>2. CallOf(t)' = Atomic!Returned /\ ResultOf(t)' = Atomic!Address(ptr[t])
  BY DEF CallOf, ResultOf, Atomic!Returned, Atomic!Address
<1>3. /\ AbsCall' = [AbsCall EXCEPT ![t] = Atomic!Returned]
      /\ AbsRes' = [AbsRes EXCEPT ![t] = Atomic!Address(ptr[t])]
  BY <1>2, AtomicMove
<1>4. \A w \in GoObjs : reg[w] # ptr[t]
  BY DEF CallInv, RegInv, Addrs
<1>5. /\ arg[t] \in GoObjs \ Uncomparable
      /\ reg[arg[t]] = NoAddr
      /\ ptr[t] \in GoAddrs
  BY DEF CallInv
<1>. QED
  BY <1>1, <1>3, <1>4, <1>5
     DEF Atomic!Register, Atomic!Answer, Atomic!GoObjs, GoObjs, AbsCall, AbsRes

LEMMA RawReturnRefines ==
    ASSUME IInv, NEW t \in Threads, RawReturn(t)
    PROVE  Atomic!Return(t)
<1> USE DEF RawReturn, Leave, Goto, IInv, TypeOK
<1>1. CallOf(t) = Atomic!Returned
  BY DEF CallOf, Atomic!Returned
<1>2. CallOf(t)' = Atomic!NoCall /\ ResultOf(t)' = Atomic!NoResult
  BY DEF CallOf, ResultOf, Atomic!NoCall, Atomic!NoResult
<1>3. /\ AbsCall' = [AbsCall EXCEPT ![t] = Atomic!NoCall]
      /\ AbsRes' = [AbsRes EXCEPT ![t] = Atomic!NoResult]
  BY <1>2, AtomicMove
<1>. QED
  BY <1>1, <1>3 DEF Atomic!Return, AbsCall, AbsRes

LEMMA RecoverRefines ==
    ASSUME IInv, NEW t \in Threads, Recover(t)
    PROVE  Atomic!Return(t)
<1> USE DEF Recover, Leave, Goto, IInv, TypeOK
<1>1. CallOf(t) = Atomic!Returned
  BY DEF CallOf, Atomic!Returned
<1>2. CallOf(t)' = Atomic!NoCall /\ ResultOf(t)' = Atomic!NoResult
  BY DEF CallOf, ResultOf, Atomic!NoCall, Atomic!NoResult
<1>3. /\ AbsCall' = [AbsCall EXCEPT ![t] = Atomic!NoCall]
      /\ AbsRes' = [AbsRes EXCEPT ![t] = Atomic!NoResult]
  BY <1>2, AtomicMove
<1>. QED
  BY <1>1, <1>3 DEF Atomic!Return, AbsCall, AbsRes

LEMMA NewTableRefines ==
    ASSUME IInv, NEW t \in Threads, NEW a \in handed \cup CxxAddrs \cup {NoAddr}, NewTable(t, a)
    PROVE  Atomic!Begin(t, Atomic!NewTableCall(a))
<1> USE DEF NewTable, Goto, IInv, TypeOK
<1>1. CallOf(t) = Atomic!NoCall
  BY DEF CallOf, Atomic!NoCall
<1>2. CallOf(t)' = Atomic!NewTableCall(a) /\ ResultOf(t)' = Atomic!NoResult
  BY DEF CallOf, ResultOf, Atomic!NewTableCall, Atomic!NoResult
<1>3. /\ AbsCall' = [AbsCall EXCEPT ![t] = Atomic!NewTableCall(a)]
      /\ AbsRes' = [AbsRes EXCEPT ![t] = Atomic!NoResult]
  BY <1>2, AtomicMove
<1>4. ResultOf(t) = Atomic!NoResult
  BY DEF ResultOf, Atomic!NoResult
<1>. QED
  BY <1>1, <1>3, <1>4 DEF Atomic!Begin, AbsCall, AbsRes

LEMMA NewReturnRefines ==
    ASSUME IInv, NEW t \in Threads, NewReturn(t)
    PROVE  Atomic!Return(t)
<1> USE DEF NewReturn, Leave, Goto, IInv, TypeOK
<1>1. CallOf(t) = Atomic!Returned
  BY DEF CallOf, Atomic!Returned
<1>2. CallOf(t)' = Atomic!NoCall /\ ResultOf(t)' = Atomic!NoResult
  BY DEF CallOf, ResultOf, Atomic!NoCall, Atomic!NoResult
<1>3. /\ AbsCall' = [AbsCall EXCEPT ![t] = Atomic!NoCall]
      /\ AbsRes' = [AbsRes EXCEPT ![t] = Atomic!NoResult]
  BY <1>2, AtomicMove
<1>. QED
  BY <1>1, <1>3 DEF Atomic!Return, AbsCall, AbsRes

\* The scan answers with the one table the address belongs to, if there is one.
LEMMA NewScanRefines ==
    ASSUME IInv, NEW t \in Threads, NewScan(t)
    PROVE  Atomic!Resolve(t, ptr[t])
<1> USE DEF NewScan, Goto, IInv, TypeOK
<1>1. CallOf(t) = Atomic!NewTableCall(ptr[t])
  BY DEF CallOf, Atomic!NewTableCall
<1>2. CallOf(t)' = Atomic!Returned
  BY DEF CallOf, Atomic!Returned
<1>3. CASE \E v \in Tables : /\ reg[v] # NoAddr
                            /\ reg[v] = ptr[t]
                            /\ ret' = [ret EXCEPT ![t] = Registered(v)]
  <2>1. PICK v \in Tables : /\ reg[v] # NoAddr
                            /\ reg[v] = ptr[t]
                            /\ ret' = [ret EXCEPT ![t] = Registered(v)]
    BY <1>3
  <2>2. ResultOf(t)' = Atomic!GoTable(v)
    BY <2>1 DEF ResultOf, Registered, Atomic!GoTable, GoObjs
  <2>3. /\ AbsCall' = [AbsCall EXCEPT ![t] = Atomic!Returned]
        /\ AbsRes' = [AbsRes EXCEPT ![t] = Atomic!GoTable(v)]
    BY <1>2, <2>2, AtomicMove
  <2>. QED
    BY <1>1, <2>1, <2>3 DEF Atomic!Resolve, Atomic!Answer, AbsCall, AbsRes
<1>4. CASE /\ \A v \in Tables : ~ (reg[v] # NoAddr /\ reg[v] = ptr[t])
           /\ ret' = [ret EXCEPT ![t] = Wrapper(ptr[t])]
  <2>1. ResultOf(t)' = Atomic!Wrapped(ptr[t])
    BY <1>4 DEF ResultOf, Wrapper, Atomic!Wrapped
  <2>2. /\ AbsCall' = [AbsCall EXCEPT ![t] = Atomic!Returned]
        /\ AbsRes' = [AbsRes EXCEPT ![t] = Atomic!Wrapped(ptr[t])]
    BY <1>2, <2>1, AtomicMove
  <2>. QED
    BY <1>1, <1>4, <2>2 DEF Atomic!Resolve, Atomic!Answer, AbsCall, AbsRes
<1>. QED
  BY <1>3, <1>4

-----------------------------------------------------------------------------
LEMMA StepRefines == IInv /\ [Next]_vars => [Atomic!Next]_(Atomic!avars)
<1> SUFFICES ASSUME IInv, [Next]_vars PROVE [Atomic!Next]_(Atomic!avars)
  OBVIOUS
<1>1. CASE UNCHANGED vars
  BY <1>1 DEF vars, Atomic!avars, CallOf, ResultOf
<1>2. CASE Next
  <2>1. PICK t \in Threads :
            \/ \E v \in GoObjs : GetRaw(t, v)
            \/ \E a \in CxxAddrs \cup {NoAddr} : GetRawUnregistered(t, a)
            \/ \E a \in handed \cup CxxAddrs \cup {NoAddr} : NewTable(t, a)
            \/ Step(t)
    BY <1>2 DEF Next
  <2>2. CASE \E v \in GoObjs : GetRaw(t, v)
    BY <2>2, GetRawRefines DEF Atomic!Next, Atomic!GoObjs, GoObjs
  <2>3. CASE \E a \in CxxAddrs \cup {NoAddr} : GetRawUnregistered(t, a)
    BY <2>3, GetRawUnregisteredRefines DEF Atomic!Next
  <2>4. CASE \E a \in handed \cup CxxAddrs \cup {NoAddr} : NewTable(t, a)
    BY <2>4, NewTableRefines DEF Atomic!Next, IInv, TypeOK, Addrs
  <2>5. CASE RawLock(t) \/ RawMiss(t) \/ RawNew(t) \/ NewLock(t)
    BY <2>5, HiddenSteps DEF Atomic!avars, AbsCall, AbsRes
  <2>6. CASE RawHit(t) \/ RawStore(t) \/ RawPanic(t)
    <3>1. arg[t] \in GoObjs
      BY <2>6 DEF RawHit, RawStore, RawPanic, Goto, IInv, CallInv
    <3>. QED
      BY <2>6, <3>1, RawHitRefines, RawStoreRefines, RawPanicRefines
         DEF Atomic!Next, Atomic!GoObjs, GoObjs
  <2>7. CASE NewScan(t)
    BY <2>7, NewScanRefines DEF Atomic!Next, IInv, TypeOK, Addrs
  <2>8. CASE RawReturn(t) \/ Recover(t) \/ NewReturn(t)
    BY <2>8, RawReturnRefines, RecoverRefines, NewReturnRefines DEF Atomic!Next
  <2>. QED
    BY <2>1, <2>2, <2>3, <2>4, <2>5, <2>6, <2>7, <2>8 DEF Step
<1>. QED
  BY <1>1, <1>2

\* Every behaviour of the locked registries is one of AtomicRegistry: getRaw and
\* newTable are linearizable, and no caller sees a half-registered value.
THEOREM Refinement == Spec => ImplementsAtomic
  BY InitRefines, StepRefines, InvariantHolds, PTL
     DEF Spec, ImplementsAtomic, Atomic!Spec
=============================================================================
