----------------------------- MODULE MCLSMStore -----------------------------
(* LSMStore with small sets of tables, threads and vertices.               *)
EXTENDS LSMStore

\* Readers are interchangeable, and so are writers: no action and no property tells them apart.
Symmetric == Permutations(Writers) \cup Permutations(Readers)
=============================================================================
