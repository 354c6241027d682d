--------------------------- MODULE AtomicRegistry ---------------------------
(***************************************************************************)
(* What the handle registries promise their callers: getRaw and newTable   *)
(* each take effect at one instant between call and return.  The registry  *)
(* is an injective partial function from Go values to addresses that only  *)
(* ever grows.  There is no mutex and no half-made C++ object here.        *)
(***************************************************************************)
EXTENDS Naturals

CONSTANTS Threads, Tables, Catalogs, Uncomparable, GoAddrs, CxxAddrs, NoObj, NoAddr

VARIABLES
    addr,   \* the address of each Go value, NoAddr when it has none
    call,   \* the call each goroutine has under way
    res     \* its result

avars == <<addr, call, res>>

GoObjs == Tables \cup Catalogs
NoCall == [op |-> "none"]
Returned == [op |-> "returned"]
GetRawCall(v) == [op |-> "getRaw", value |-> v]
NewTableCall(a) == [op |-> "newTable", raw |-> a]

Address(a) == [is |-> "address", raw |-> a]
GoTable(v) == [is |-> "registered", value |-> v]
Wrapped(a) == [is |-> "wrapper", raw |-> a]
Panic == [is |-> "panic"]
NoResult == [is |-> "none"]

Init ==
    /\ addr = [v \in GoObjs |-> NoAddr]
    /\ call = [t \in Threads |-> NoCall]
    /\ res = [t \in Threads |-> NoResult]

Begin(t, c) ==
    /\ call[t] = NoCall
    /\ call' = [call EXCEPT ![t] = c]
    /\ UNCHANGED <<addr, res>>

Answer(t, r) ==
    /\ res' = [res EXCEPT ![t] = r]
    /\ call' = [call EXCEPT ![t] = Returned]

\* A value that has an address is answered by it.
Lookup(t, v) ==
    /\ call[t] = GetRawCall(v)
    /\ v \notin Uncomparable
    /\ addr[v] # NoAddr
    /\ Answer(t, Address(addr[v]))
    /\ UNCHANGED addr

\* A value that has none gets one that belongs to no other value.
Register(t, v) ==
    /\ call[t] = GetRawCall(v)
    /\ v \notin Uncomparable
    /\ addr[v] = NoAddr
    /\ \E a \in GoAddrs :
        /\ \A w \in GoObjs : addr[w] # a
        /\ addr' = [addr EXCEPT ![v] = a]
        /\ Answer(t, Address(a))

Refuse(t, v) ==
    /\ call[t] = GetRawCall(v)
    /\ v \in Uncomparable
    /\ Answer(t, Panic)
    /\ UNCHANGED addr

\* nil and the binding's own wrappers carry their address with them.
Unregistered(t, a) ==
    /\ call[t] = NoCall
    /\ Answer(t, Address(a))
    /\ UNCHANGED addr

\* The table that owns the address, or a wrapper when none does.
Resolve(t, a) ==
    /\ call[t] = NewTableCall(a)
    /\ \/ \E v \in Tables : a # NoAddr /\ addr[v] = a /\ Answer(t, GoTable(v))
       \/ /\ \A v \in Tables : a = NoAddr \/ addr[v] # a
          /\ Answer(t, Wrapped(a))
    /\ UNCHANGED addr

Return(t) ==
    /\ call[t] = Returned
    /\ call' = [call EXCEPT ![t] = NoCall]
    /\ res' = [res EXCEPT ![t] = NoResult]
    /\ UNCHANGED addr

Next ==
    \E t \in Threads :
        \/ \E v \in GoObjs : \/ Begin(t, GetRawCall(v))
                             \/ Lookup(t, v)
                             \/ Register(t, v)
                             \/ Refuse(t, v)
        \/ \E a \in GoAddrs \cup CxxAddrs \cup {NoAddr} :
            \/ Begin(t, NewTableCall(a))
            \/ Unregistered(t, a)
            \/ Resolve(t, a)
        \/ Return(t)

Spec == Init /\ [][Next]_avars
=============================================================================
