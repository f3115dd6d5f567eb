------------------------------ MODULE MCSessions ------------------------------
EXTENDS Sessions, TLC
CONSTANTS v1, v2, mahasiswa, dosen, u1, u2, s1, s2, s3
(* One profile with a single identity, one where a choice is needed.       *)
MCOffers == (v1 :> {mahasiswa}) @@ (v2 :> {mahasiswa, dosen})
=============================================================================
