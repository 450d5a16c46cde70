--------------------------- MODULE MCLevelProfileMap ---------------------------
(***************************************************************************)
(* Directories that the constructor of LevelProfileMap may find: an empty  *)
(* one, or a level 0 above a level 2, which a merge reaches only when what *)
(* is above it has become big enough.                                      *)
(***************************************************************************)
EXTENDS LevelProfileMap, TLC

Old == 2

MCFilledDirectory ==
    {<<FileLevel(0, 3, [Empty EXCEPT ![k] = Old]), FileLevel(2, 0, [j \in Keys |-> Old])>> :
        k \in Keys}

MCDirectories == {<<>>} \cup MCFilledDirectory

MCEmptyDirectory == {<<>>}

MCSymmetry == Permutations(Keys) \cup Permutations(Workers)
================================================================================
