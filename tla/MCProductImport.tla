-------------------------- MODULE MCProductImport --------------------------
EXTENDS ProductImport
CONSTANTS fa, fb, n1, n2, c1
Row(n, c) == [name |-> n, code |-> c]
\* The first file repeats a row and needs two chunks of one row; the second
\* imports the coded row again and has a row without a name.
MCRows == [f \in {fa, fb} |->
    IF f = fa THEN <<Row(n1, None), Row(n1, None), Row(n2, c1)>>
    ELSE <<Row(n2, c1), Row(None, None)>>]
============================================================================
