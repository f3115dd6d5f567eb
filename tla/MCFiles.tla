------------------------------- MODULE MCFiles -------------------------------
EXTENDS Files, TLC
CONSTANTS t1, d1, d2, a1, l1, m1
Table == (t1 :> "template") @@ (d1 :> "document") @@ (d2 :> "document")
           @@ (a1 :> "answer") @@ (l1 :> "photo") @@ (m1 :> "signature")
MCKind == [r \in RowIds |-> Table[r]]
=============================================================================
