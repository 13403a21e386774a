----------------------------- MODULE MCFileNotes -----------------------------
(* FileNotes for TLC: owners and threads are interchangeable.               *)
EXTENDS FileNotes, TLC

Interchangeable == Permutations(Owner) \cup Permutations(Thread)

===============================================================================
