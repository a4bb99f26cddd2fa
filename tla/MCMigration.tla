------------------------------- MODULE MCMigration -----------------------------
EXTENDS MigrationInvariant, TLC

Symmetry == Permutations(Server)

\* What the directories held when v2 was first started.  Files are 1 .check,
\* 2 an asset, 3 update-metadata.json.
Described == {{1, 2, 3}, {2, 3}, {2}}
Published == {{1, 2, 3}, {2}}
CheckedOnly == {{1, 2}}

================================================================================
