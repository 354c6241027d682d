SPECIFICATION LiveSpec
CONSTANTS
    Threads = {g1, g2}
    Tables = {tab1, tab2, map}
    Catalogs = {cat}
    Uncomparable = {map}
    GoAddrs = {a1, a2, a3, a4}
    CxxAddrs = {c1}
    NoObj = NoObj
    NoAddr = NoAddr
    NoThread = NoThread
INVARIANTS MapAccessExclusive OneObjectPerValue AnswerIsOwnObject RoundTrip
PROPERTIES AddressesAreStable ImplementsAtomic CallsReturn
