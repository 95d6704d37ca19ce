\* A read-only caller: SELECTs of up to 4 rows, fetched by fetchone,
\* fetchmany(0..2 or no size) and fetchall in any order, with close and
\* a new cursor in between.
CONSTANTS
    Kinds <- MCSelectOnly
    MaxRows = 4
    MaxExecs = 6
    Sizes = {0, 1, 2}
SPECIFICATION Spec
INVARIANT TypeOK
PROPERTY IteratorRefinement
