--------------------------- MODULE MCTcOperations ---------------------------
(* Small instances of TcOperations for TLC. *)
EXTENDS TcOperations, TLC

CONSTANTS s1, s2, t1, t2

UserSessions == {s1, s2}
ManagementSessions == {s1, DbMgmt, Launcher}
TwoThreads == {t1, t2}

AllServices == Opers \ {"NONE"}
\* Readers against writers that need no configuration session.
ReadWriteServices == {"READ", "USER_AUDIT", "DRIVER_AUDIT", "RUNNING_SAVE",
                      "AUTOSAVE_GET", "AUTOSAVE_ENABLE", "RELEASE_SESSION"}
AuditServices == {"DRIVER_AUDIT"}
\* What the liveness run offers: one operation of every kind.
FairServices == {"CONFIG_ACQUIRE", "CONFIG_ACQUIRE_FORCE", "CONFIG_RELEASE",
                 "CANDIDATE_COMMIT", "DRIVER_AUDIT", "RELEASE_SESSION"}

Symmetry == Permutations(TwoThreads) \cup Permutations(Sessions \ {DbMgmt, Launcher})
=============================================================================
