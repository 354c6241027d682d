SPECIFICATION Spec
CONSTANTS
    Size = 5
    MaxAdds = 2
INVARIANTS CallsInPreOrder
PROPERTIES NoChildLeftBehind
