---------------------------- MODULE MCBackupStore ----------------------------
EXTENDS BackupStore, TLC

CONSTANTS first, a, b, tick

\* The two later requests are interchangeable.
Symmetry == Permutations({a, b})

\* What a stale write leads to is not followed: the properties end there.
UpToStale == ~stale

\* What a resting actor last read or stored is never read again.
AtRest(c) == pc[c] \in Rest
View == <<now, head, headIndex, ver, verIndex, bytes, pc, healthy, stale,
          [c \in {c \in Actor : ~AtRest(c)} |-> <<seen[c], row[c]>>]>>

=============================================================================
