CONSTANTS
    Quantities = {1, 2}
    MaxStock = 4
SPECIFICATION Spec
INVARIANTS
    StoredNonNegative
    StoredBalanced
    UnitsConserved
    ConsistentUntilSale
