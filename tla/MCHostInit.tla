----------------------------- MODULE MCHostInit -----------------------------
EXTENDS HostInit, TLC
S(zfs, engine, root) == [zfs |-> zfs, engine |-> engine, root |-> root]
\* A container or a systemd host on ebs-zfs, darwin on apfs, a container on reflink.
MCSites == {S(TRUE, "mysql", TRUE), S(TRUE, "mysql", FALSE), S(TRUE, "postgres", TRUE),
            S(TRUE, "postgres", FALSE), S(FALSE, "mysql", FALSE),
            S(FALSE, "postgres", FALSE), S(FALSE, "mysql", TRUE)}
MCFiles == {1, 2}
CONSTANTS schema, d1, d2
MCSymmetry == Permutations({d1, d2})
=============================================================================
