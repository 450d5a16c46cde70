----------------------------- MODULE MCFileLevels -----------------------------
EXTENDS FileLevels

\* No property and no action tells one key from another.
MCSymmetry == Permutations(Keys)
=============================================================================
