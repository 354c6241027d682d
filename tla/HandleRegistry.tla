--------------------------- MODULE HandleRegistry ---------------------------
(***************************************************************************)
(* The two registries that give user-written Go tables and catalogs a C++  *)
(* object of their own: tableMap / tableMapMu of types/table.go and        *)
(* catalogMap / catalogMapMu of types/catalog.go.                          *)
(*                                                                         *)
(* getRawTable and getRawCatalog look the value up and, on a miss, make a  *)
(* cgo.Handle, construct the C++ object (GoTable_new, GoCatalog_new) and   *)
(* store its address, all under the registry's mutex.  newTable scans the  *)
(* table registry for an address that C++ handed back and answers with the *)
(* Go value it belongs to, or with a fresh *SimpleTable around it.         *)
(*                                                                         *)
(* Goroutines interleave between any two of these steps.  A Go value is    *)
(* identified up to Go's ==, as the map does; a value whose dynamic type   *)
(* is not comparable makes the map access panic while the mutex is held.   *)
(***************************************************************************)
EXTENDS Naturals

CONSTANTS
    Threads,      \* goroutines that use the bindings
    Tables,       \* user-written types.Table values
    Catalogs,     \* user-written types.Catalog values; a nil one is among them
    Uncomparable, \* those of both that a Go map refuses as key
    GoAddrs,      \* addresses GoTable_new and GoCatalog_new may return
    CxxAddrs,     \* addresses of the tables that C++ made on its own
    NoObj, NoAddr, NoThread

GoObjs == Tables \cup Catalogs
Addrs == GoAddrs \cup CxxAddrs
Kinds == {"table", "catalog"}

ASSUME RegistryAssumption ==
    /\ Tables \cap Catalogs = {}
    /\ Uncomparable \subseteq GoObjs
    /\ GoAddrs \cap CxxAddrs = {}
    /\ NoObj \notin GoObjs
    /\ NoAddr \notin Addrs
    /\ NoThread \notin Threads

VARIABLES
    reg,     \* tableMap and catalogMap: the address of each value, or NoAddr
    native,  \* the C++ objects made so far: the value each one's handle holds
    mu,      \* the goroutine that holds tableMapMu, catalogMapMu
    pc,      \* what each goroutine is doing
    arg,     \* the Go value a goroutine passed to getRaw
    ptr,     \* the address it passed to newTable, or getRaw's result
    ret,     \* what newTable returned
    handed   \* the addresses of tables that C++ was given and may hand back

vars == <<reg, native, mu, pc, arg, ptr, ret, handed>>

\* A Go table as newTable returns it: a registered value, or (value = NoObj)
\* a new *SimpleTable around an address.
Registered(v) == [value |-> v, raw |-> NoAddr]
Wrapper(a) == [value |-> NoObj, raw |-> a]
GoTables == {Registered(v) : v \in Tables} \cup {Wrapper(a) : a \in Addrs \cup {NoAddr}}

KindOf(v) == IF v \in Tables THEN "table" ELSE "catalog"

Locations == {"idle", "raw_lock", "raw_lookup", "raw_new", "raw_store",
              "raw_done", "new_lock", "new_scan", "new_done", "panicked"}

Init ==
    /\ reg = [v \in GoObjs |-> NoAddr]
    /\ native = [a \in GoAddrs |-> NoObj]
    /\ mu = [k \in Kinds |-> NoThread]
    /\ pc = [t \in Threads |-> "idle"]
    /\ arg = [t \in Threads |-> NoObj]
    /\ ptr = [t \in Threads |-> NoAddr]
    /\ ret = [t \in Threads |-> Wrapper(NoAddr)]
    /\ handed = {}

Goto(t, from, to) ==
    /\ pc[t] = from
    /\ pc' = [pc EXCEPT ![t] = to]

Lock(t, k) ==
    /\ mu[k] = NoThread
    /\ mu' = [mu EXCEPT ![k] = t]

Unlock(k) == mu' = [mu EXCEPT ![k] = NoThread]

\* The call returns and its local variables are gone.
Leave(t) ==
    /\ arg' = [arg EXCEPT ![t] = NoObj]
    /\ ptr' = [ptr EXCEPT ![t] = NoAddr]
    /\ ret' = [ret EXCEPT ![t] = Wrapper(NoAddr)]

-----------------------------------------------------------------------------
(***************************************************************************)
(* getRawTable(v) and getRawCatalog(c).                                    *)
(***************************************************************************)

\* A user-written value goes through the registry.
GetRaw(t, v) ==
    /\ Goto(t, "idle", "raw_lock")
    /\ arg' = [arg EXCEPT ![t] = v]
    /\ UNCHANGED <<reg, native, mu, ptr, ret, handed>>

\* A nil table is answered by nil, and the binding's own table and catalog
\* types by the address they carry: neither reaches the lock.
GetRawUnregistered(t, a) ==
    /\ Goto(t, "idle", "raw_done")
    /\ ptr' = [ptr EXCEPT ![t] = a]
    /\ UNCHANGED <<reg, native, mu, arg, ret, handed>>

RawLock(t) ==
    /\ Goto(t, "raw_lock", "raw_lookup")
    /\ Lock(t, KindOf(arg[t]))
    /\ UNCHANGED <<reg, native, arg, ptr, ret, handed>>

\* Mutant: the miss lets go of the mutex before the object is made.
RawMissUnlocks(t) ==
    /\ Goto(t, "raw_lookup", "raw_new")
    /\ arg[t] \notin Uncomparable
    /\ reg[arg[t]] = NoAddr
    /\ Unlock(KindOf(arg[t]))
    /\ UNCHANGED <<reg, native, arg, ptr, ret, handed>>

\* Mutant: the lookup's "exists" is ignored.
RawMissAlways(t) ==
    /\ Goto(t, "raw_lookup", "raw_new")
    /\ arg[t] \notin Uncomparable
    /\ UNCHANGED <<reg, native, mu, arg, ptr, ret, handed>>

\* The map holds the value: its address is returned, the deferred unlock runs.
RawHit(t) ==
    /\ Goto(t, "raw_lookup", "raw_done")
    /\ arg[t] \notin Uncomparable
    /\ reg[arg[t]] # NoAddr
    /\ ptr' = [ptr EXCEPT ![t] = reg[arg[t]]]
    /\ Unlock(KindOf(arg[t]))
    /\ UNCHANGED <<reg, native, arg, ret, handed>>

RawMiss(t) ==
    /\ Goto(t, "raw_lookup", "raw_new")
    /\ arg[t] \notin Uncomparable
    /\ reg[arg[t]] = NoAddr
    /\ UNCHANGED <<reg, native, mu, arg, ptr, ret, handed>>

\* Mutant: the unlock is not deferred.
RawPanicKeepsLock(t) ==
    /\ Goto(t, "raw_lookup", "panicked")
    /\ arg[t] \in Uncomparable
    /\ UNCHANGED <<reg, native, mu, arg, ptr, ret, handed>>

\* Hashing the key panics; the deferred unlock runs all the same.
RawPanic(t) ==
    /\ Goto(t, "raw_lookup", "panicked")
    /\ arg[t] \in Uncomparable
    /\ Unlock(KindOf(arg[t]))
    /\ UNCHANGED <<reg, native, arg, ptr, ret, handed>>

\* Mutant: the new entry is not stored.
RawStoreForgets(t) ==
    /\ Goto(t, "raw_store", "raw_done")
    /\ Unlock(KindOf(arg[t]))
    /\ UNCHANGED <<reg, native, arg, ptr, ret, handed>>

\* cgo.NewHandle, then Go*_new: a C++ object at an address not in use.
RawNew(t) ==
    /\ Goto(t, "raw_new", "raw_store")
    /\ \E a \in GoAddrs :
        /\ native[a] = NoObj
        /\ native' = [native EXCEPT ![a] = arg[t]]
        /\ ptr' = [ptr EXCEPT ![t] = a]
    /\ UNCHANGED <<reg, mu, arg, ret, handed>>

RawStore(t) ==
    /\ Goto(t, "raw_store", "raw_done")
    /\ reg' = [reg EXCEPT ![arg[t]] = ptr[t]]
    /\ Unlock(KindOf(arg[t]))
    /\ UNCHANGED <<native, arg, ptr, ret, handed>>

\* The caller gives a table's address to C++ (SimpleCatalog.AddTable, the
\* FindTable callback); a catalog's never comes back through newTable.
RawReturn(t) ==
    /\ Goto(t, "raw_done", "idle")
    /\ handed' = IF arg[t] \in Catalogs THEN handed ELSE handed \cup ({ptr[t]} \ {NoAddr})
    /\ Leave(t)
    /\ UNCHANGED <<reg, native, mu>>

\* The caller recovers from the panic.
Recover(t) ==
    /\ Goto(t, "panicked", "idle")
    /\ Leave(t)
    /\ UNCHANGED <<reg, native, mu, handed>>

-----------------------------------------------------------------------------
(***************************************************************************)
(* newTable(v), for an address C++ hands back, or nil.                     *)
(***************************************************************************)

\* Mutant: newTable reads the map without the mutex.
NewLockSkipped(t) ==
    /\ Goto(t, "new_lock", "new_scan")
    /\ UNCHANGED <<reg, native, mu, arg, ptr, ret, handed>>

NewTable(t, a) ==
    /\ Goto(t, "idle", "new_lock")
    /\ ptr' = [ptr EXCEPT ![t] = a]
    /\ UNCHANGED <<reg, native, mu, arg, ret, handed>>

NewLock(t) ==
    /\ Goto(t, "new_lock", "new_scan")
    /\ Lock(t, "table")
    /\ UNCHANGED <<reg, native, arg, ptr, ret, handed>>

\* Mutant: newTable wraps every address, as newBaseTable does.
NewScanWraps(t) ==
    /\ Goto(t, "new_scan", "new_done")
    /\ ret' = [ret EXCEPT ![t] = Wrapper(ptr[t])]
    /\ Unlock("table")
    /\ UNCHANGED <<reg, native, arg, ptr, handed>>

\* The scan of tableMap and the deferred unlock.
NewScan(t) ==
    /\ Goto(t, "new_scan", "new_done")
    /\ LET holders == {v \in Tables : reg[v] # NoAddr /\ reg[v] = ptr[t]}
       IN \/ \E v \in holders : ret' = [ret EXCEPT ![t] = Registered(v)]
          \/ /\ holders = {}
             /\ ret' = [ret EXCEPT ![t] = Wrapper(ptr[t])]
    /\ Unlock("table")
    /\ UNCHANGED <<reg, native, arg, ptr, handed>>

NewReturn(t) ==
    /\ Goto(t, "new_done", "idle")
    /\ Leave(t)
    /\ UNCHANGED <<reg, native, mu, handed>>

-----------------------------------------------------------------------------
\* The steps of a call under way, as opposed to the decision to make one.
Step(t) ==
    \/ RawLock(t) \/ RawHit(t) \/ RawMiss(t) \/ RawPanic(t) \/ RawNew(t)
    \/ RawStore(t) \/ RawReturn(t) \/ Recover(t)
    \/ NewLock(t) \/ NewScan(t) \/ NewReturn(t)

Next ==
    \E t \in Threads :
        \/ \E v \in GoObjs : GetRaw(t, v)
        \/ \E a \in CxxAddrs \cup {NoAddr} : GetRawUnregistered(t, a)
        \/ \E a \in handed \cup CxxAddrs \cup {NoAddr} : NewTable(t, a)
        \/ Step(t)

Spec == Init /\ [][Next]_vars

\* A goroutine that can run does, and sync.Mutex starves nobody: a waiter that
\* fails for a millisecond is handed the mutex next.
Fairness ==
    \A t \in Threads : WF_vars(Step(t)) /\ SF_vars(RawLock(t)) /\ SF_vars(NewLock(t))

LiveSpec == Spec /\ Fairness

-----------------------------------------------------------------------------
TypeOK ==
    /\ reg \in [GoObjs -> GoAddrs \cup {NoAddr}]
    /\ native \in [GoAddrs -> GoObjs \cup {NoObj}]
    /\ mu \in [Kinds -> Threads \cup {NoThread}]
    /\ pc \in [Threads -> Locations]
    /\ arg \in [Threads -> GoObjs \cup {NoObj}]
    /\ ptr \in [Threads -> Addrs \cup {NoAddr}]
    /\ ret \in [Threads -> GoTables]
    /\ handed \subseteq Addrs

\* Goroutine t is inside the critical section of registry k.
Inside(t, k) ==
    \/ pc[t] \in {"raw_lookup", "raw_new", "raw_store"} /\ KindOf(arg[t]) = k
    \/ pc[t] = "new_scan" /\ k = "table"

\* No two goroutines are ever at a map of the registries at once (the Go
\* runtime aborts on a concurrent map access), whichever of getRawTable,
\* getRawCatalog and newTable each of them is in.
MapAccessExclusive ==
    \A t, u \in Threads : \A k \in Kinds : Inside(t, k) /\ Inside(u, k) => t = u

\* However the calls of getRaw* interleave, a Go value never gets a second C++
\* object: a table that two analyses look up at once stays one table to C++.
OneObjectPerValue ==
    \A a, b \in GoAddrs : native[a] # NoObj /\ native[a] = native[b] => a = b

\* Whatever address getRaw* returns for a value belongs to an object whose
\* callbacks reach that very value, and the registry still knows it.
AnswerIsOwnObject ==
    \A t \in Threads :
        pc[t] = "raw_done" /\ arg[t] # NoObj =>
            /\ ptr[t] = reg[arg[t]]
            /\ ptr[t] \in GoAddrs
            /\ native[ptr[t]] = arg[t]

\* newTable undoes getRawTable: an address that C++ got for a user-written table
\* comes back as that table, any other address as a wrapper around it.
RoundTrip ==
    \A t \in Threads :
        pc[t] = "new_done" =>
            ret[t] = IF ptr[t] \in GoAddrs THEN Registered(native[ptr[t]])
                                           ELSE Wrapper(ptr[t])

\* An address handed to C++ stays the address of its value for good: no later
\* call replaces or drops the entry while C++ can still use the object.
AddressesAreStable ==
    [][\A v \in GoObjs : reg[v] # NoAddr => reg'[v] = reg[v]]_vars

\* Every call comes to an end: no path of getRaw* or newTable, the panic of an
\* uncomparable key included, leaves a mutex locked behind it.
CallsReturn == \A t \in Threads : pc[t] # "idle" ~> pc[t] = "idle"

-----------------------------------------------------------------------------
(***************************************************************************)
(* The registries implement AtomicRegistry: a call takes effect when it    *)
(* finds the value, stores it, panics on it, or has scanned the map.       *)
(***************************************************************************)
CallOf(t) ==
    CASE pc[t] = "idle" -> [op |-> "none"]
      [] pc[t] \in {"raw_lock", "raw_lookup", "raw_new", "raw_store"} ->
            [op |-> "getRaw", value |-> arg[t]]
      [] pc[t] \in {"new_lock", "new_scan"} -> [op |-> "newTable", raw |-> ptr[t]]
      [] OTHER -> [op |-> "returned"]

ResultOf(t) ==
    CASE pc[t] = "raw_done" -> [is |-> "address", raw |-> ptr[t]]
      [] pc[t] = "panicked" -> [is |-> "panic"]
      [] pc[t] = "new_done" /\ ret[t].value # NoObj ->
            [is |-> "registered", value |-> ret[t].value]
      [] pc[t] = "new_done" /\ ret[t].value = NoObj -> [is |-> "wrapper", raw |-> ret[t].raw]
      [] OTHER -> [is |-> "none"]

Atomic == INSTANCE AtomicRegistry
    WITH addr <- reg,
         call <- [t \in Threads |-> CallOf(t)],
         res <- [t \in Threads |-> ResultOf(t)]

\* Callers cannot tell the locked, multi-step registries from ones that answer
\* every getRaw and newTable at a single instant.
ImplementsAtomic == Atomic!Spec
=============================================================================
