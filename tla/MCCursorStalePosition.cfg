\* Every statement kind: a fetch position left by a SELECT is used on the
\* result of the next INSERT, UPDATE, DELETE or other statement.
CONSTANTS
    Kinds <- MCAllKinds
    MaxRows = 2
    MaxExecs = 3
    Sizes = {1}
SPECIFICATION Spec
PROPERTY IteratorRefinement
