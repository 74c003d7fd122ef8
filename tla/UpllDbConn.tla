----------------------------- MODULE UpllDbConn -----------------------------
(***************************************************************************)
(* The database connections of UPLL (modules/upll/dbconn_mgr.cc, .hh).     *)
(*                                                                         *)
(* There is one read-write connection for the configuration, one for       *)
(* alarms and one for audits; each is shared by every thread that asks for *)
(* it and counts its users.  Read-only connections are kept in a pool of   *)
(* at most max_ro_conns_, are used by one thread at a time, and are handed *)
(* out behind a semaphore.  When the state of the node changes every       *)
(* connection is terminated, and on the active node replaced: one in use   *)
(* is closed by the thread that returns it.                                *)
(*                                                                         *)
(* Every function runs under conn_mutex_ and is one action, except         *)
(* AcquireRoConn, which waits for the semaphore before it takes the mutex. *)
(* A DbConn is named by its address: a deleted one may be allocated again. *)
(***************************************************************************)
EXTENDS Integers, FiniteSets

CONSTANTS
    Threads,     \* threads that use the database
    Conns,       \* addresses of DbConn objects
    Kinds,       \* the read-write connections: configuration, alarm, audit
    RoLimit,     \* max_ro_conns_ (db_conn_ro_limit of upll.conf)
    MaxUse,      \* bound on the users and leaked uses of a shared connection
    MaxFaults,   \* bound on cluster events and database errors
    NULL

ASSUME DbConnAssumption ==
    /\ RoLimit \in Nat /\ MaxUse \in Nat /\ MaxFaults \in Nat
    /\ IsFiniteSet(Conns) /\ IsFiniteSet(Threads) /\ NULL \notin Conns

VARIABLES
    rw_conn,     \* config_rw_conn_, alarm_rw_conn_, audit_rw_conn_
    stale,       \* stale_rw_conn_pool_
    ro_pool,     \* ro_conn_pool_
    active_cnt,  \* active_ro_conns_cnt_
    ro_sem,      \* the value of ro_conn_sem_
    conn,        \* the DbConn objects
    user,        \* what each thread holds, and where it is
    faults       \* cluster events and database errors so far

vars == <<rw_conn, stale, ro_pool, active_cnt, ro_sem, conn, user, faults>>

----------------------------------------------------------------------------
(* State *)

\* A DbConn: its in_use_cnt, its close_on_finish, and whether its connection is up.
NewConn == [use |-> 0, close |-> FALSE, up |-> TRUE]

\* delete: freed memory holds nothing.
Delete(f, deleted) == [c \in Conns |-> IF c \in deleted THEN NewConn ELSE f[c]]

\* A thread holds nothing, has passed the semaphore, or uses a connection.
Idle == [pc |-> "idle", dom |-> NULL]
Using(pc, c) == [pc |-> pc, dom |-> c]

Rw == {rw_conn[k] : k \in Kinds} \ {NULL}
Allocated == Rw \cup stale \cup ro_pool

\* The connections of ro_pool that nobody uses.
IdleRo == {c \in ro_pool : conn[c].use = 0}

\* The threads that use connection c.
Users(c) == {t \in Threads : user[t].pc \in {"ro", "rw"} /\ user[t].dom = c}

\* An event of the cluster or the database.
Fault == faults < MaxFaults /\ faults' = faults + 1

----------------------------------------------------------------------------
(* Read-write connections *)

\* GetConfigRwConn, GetAlarmRwConn, GetAuditRwConn.  While the node is not
\* active there is no such connection, and the callers return an error.
GetRwConn(t, k) ==
    /\ user[t].pc = "idle"
    /\ rw_conn[k] # NULL
    /\ conn[rw_conn[k]].use < MaxUse
    /\ conn' = [conn EXCEPT ![rw_conn[k]].use = @ + 1]
    /\ user' = [user EXCEPT ![t] = Using("rw", rw_conn[k])]
    /\ UNCHANGED <<rw_conn, stale, ro_pool, active_cnt, ro_sem, faults>>

\* ReleaseRwConn.  The last user of a stale connection closes and deletes it.  That
\* the connection is not found, or not in use, is excluded by LivesWhileUsed.
ReleaseRwConn(t) ==
    LET c == user[t].dom IN
    /\ user[t].pc = "rw"
    /\ user' = [user EXCEPT ![t] = Idle]
    /\ \/ /\ c \in Rw /\ conn[c].use > 0
          /\ conn' = [conn EXCEPT ![c].use = @ - 1]
          /\ UNCHANGED stale
       \/ /\ c \in stale \ Rw /\ conn[c].use > 1
          /\ conn' = [conn EXCEPT ![c].use = @ - 1]
          /\ UNCHANGED stale
       \/ /\ c \in stale \ Rw /\ conn[c].use = 1
          /\ conn' = Delete(conn, {c})
          /\ stale' = stale \ {c}
    /\ UNCHANGED <<rw_conn, ro_pool, active_cnt, ro_sem, faults>>

\* Some callers never return the connection they took: MergeValidate,
\* MergeImportToCandidate and PurgeCandidate do not release it at all, and
\* IsCandidateDirtyNoLock hands it to ReleaseRoConn, which does not find it.
LeakRwConn(t) ==
    /\ user[t].pc = "rw"
    /\ user[t].dom \in {rw_conn["config"]} \cup stale
    /\ user' = [user EXCEPT ![t] = Idle]
    /\ UNCHANGED <<rw_conn, stale, ro_pool, active_cnt, ro_sem, conn, faults>>

----------------------------------------------------------------------------
(* Read-only connections *)

\* TerminateAllRoConns_NoLock, with TerminateDbConn: what is in use is closed when
\* it is returned, the rest is closed and deleted.  f is the DbConn objects as the
\* caller has left them.
TerminateAllRoConns(f) ==
    LET idle == {c \in ro_pool : f[c].use = 0} IN
    /\ ro_pool' = ro_pool \ idle
    /\ conn' = [c \in Conns |-> IF c \in idle THEN NewConn
                               ELSE IF c \in ro_pool THEN [f[c] EXCEPT !.close = TRUE]
                               ELSE f[c]]
    /\ active_cnt' = active_cnt - Cardinality(idle)
    /\ ro_sem' = ro_sem + Cardinality(idle)

\* AcquireRoConn, the wait for ro_conn_sem_.
WaitRoConn(t) ==
    /\ user[t].pc = "idle"
    /\ ro_sem > 0
    /\ ro_sem' = ro_sem - 1
    /\ user' = [user EXCEPT ![t] = Using("ro_wait", NULL)]
    /\ UNCHANGED <<rw_conn, stale, ro_pool, active_cnt, conn, faults>>

\* Takes any connection of the pool.
ReuseAnyRoConn(t) ==
    /\ user[t].pc = "ro_wait"
    /\ \E c \in ro_pool :
         /\ conn' = [conn EXCEPT ![c].use = 1]
         /\ user' = [user EXCEPT ![t] = Using("ro", c)]
    /\ UNCHANGED <<rw_conn, stale, ro_pool, active_cnt, ro_sem, faults>>

\* AcquireRoConn finds a connection that is not in use.
ReuseRoConn(t) ==
    /\ user[t].pc = "ro_wait"
    /\ \E c \in IdleRo :
         /\ conn' = [conn EXCEPT ![c].use = 1]
         /\ user' = [user EXCEPT ![t] = Using("ro", c)]
    /\ UNCHANGED <<rw_conn, stale, ro_pool, active_cnt, ro_sem, faults>>

\* AcquireRoConn, the connection it opens when it finds none.
OpenConn(t) ==
    /\ user[t].pc = "ro_wait"
    /\ IdleRo = {}
    /\ \E c \in Conns \ Allocated :
         /\ conn' = [conn EXCEPT ![c] = [NewConn EXCEPT !.use = 1]]
         /\ ro_pool' = ro_pool \cup {c}
         /\ user' = [user EXCEPT ![t] = Using("ro", c)]
    /\ active_cnt' = active_cnt + 1
    /\ UNCHANGED <<rw_conn, stale, ro_sem, faults>>

\* Trusts the semaphore to keep the limit.
OpenRoConnUnlimited(t) == OpenConn(t)

\* AcquireRoConn opens a new connection.
OpenRoConn(t) == active_cnt < RoLimit /\ OpenConn(t)

\* AcquireRoConn fails: the limit is reached, or DalOpen fails and every read-only
\* connection is terminated.  The slot taken from the semaphore is not given back.
FailRoConn(t) ==
    /\ user[t].pc = "ro_wait"
    /\ IdleRo = {}
    /\ \/ /\ active_cnt >= RoLimit
          /\ UNCHANGED <<ro_pool, conn, active_cnt, ro_sem, faults>>
       \/ /\ active_cnt < RoLimit
          /\ Fault
          /\ TerminateAllRoConns(conn)
    /\ user' = [user EXCEPT ![t] = Idle]
    /\ UNCHANGED <<rw_conn, stale>>

\* ReleaseRoConn.  A connection that is to be closed is deleted, and neither
\* ro_conn_sem_ nor active_ro_conns_cnt_ learns of it; one that has met an error
\* ends every idle connection, itself included; any other goes back to the pool.
\* That the connection is not found is excluded by LivesWhileUsed.
ReleaseRoConn(t) ==
    LET c == user[t].dom IN
    /\ user[t].pc = "ro"
    /\ c \in ro_pool
    /\ \/ /\ conn[c].close
          /\ ro_pool' = ro_pool \ {c}
          /\ conn' = Delete(conn, {c})
          /\ UNCHANGED <<active_cnt, ro_sem>>
       \/ /\ ~conn[c].close /\ ~conn[c].up
          /\ TerminateAllRoConns([conn EXCEPT ![c].use = 0])
       \/ /\ ~conn[c].close /\ conn[c].up
          /\ conn' = [conn EXCEPT ![c].use = 0]
          /\ ro_sem' = ro_sem + 1
          /\ UNCHANGED <<ro_pool, active_cnt>>
    /\ user' = [user EXCEPT ![t] = Idle]
    /\ UNCHANGED <<rw_conn, stale, faults>>

----------------------------------------------------------------------------
(* The state of the node changes, and the database fails *)

\* InitializeDbConnectionsNoLock: three new connections, each of which may already
\* be unusable because its DalOpen failed.
NewRwConns(free) ==
    {new \in [Kinds -> free] : \A k, l \in Kinds : k # l => new[k] # new[l]}

NoRwConn == [k \in Kinds |-> NULL]

\* TerminateAllDbConnsNoLock and, on the active node, InitializeDbConnectionsNoLock:
\* the read-write connections of used become stale, the others are deleted, and each
\* is replaced or forgotten.
Reinitialize(used, active) ==
    /\ Fault
    /\ stale' = stale \cup used
    /\ \E new \in IF active THEN NewRwConns(Conns \ (stale \cup used \cup ro_pool))
                  ELSE {NoRwConn},
          down \in IF active THEN SUBSET Kinds ELSE {{}} :
         LET made == {new[k] : k \in Kinds} \ {NULL}
             closing == [c \in Conns |-> IF c \in used THEN [conn[c] EXCEPT !.close = TRUE]
                                        ELSE conn[c]] IN
         /\ rw_conn' = new
         /\ TerminateAllRoConns([c \in Conns |->
                IF c \in made THEN [NewConn EXCEPT !.up = c \notin {new[k] : k \in down}]
                ELSE Delete(closing, Rw \ used)[c]])
    /\ UNCHANGED user

ReinitializeDeletesAll(active) == Reinitialize({}, active)

\* TerminateAndInitializeDbConns, called by SetClusterState with the new state of the
\* node: what is in use becomes stale.
TerminateAndInitializeDbConns(active) ==
    Reinitialize({c \in Rw : conn[c].use > 0}, active)

\* A connection in use meets an error of the database.
Disconnect(c) ==
    /\ Users(c) # {} /\ conn[c].up
    /\ Fault
    /\ conn' = [conn EXCEPT ![c].up = FALSE]
    /\ UNCHANGED <<rw_conn, stale, ro_pool, active_cnt, ro_sem, user>>

Init ==
    /\ rw_conn = NoRwConn
    /\ stale = {} /\ ro_pool = {}
    /\ active_cnt = 0 /\ ro_sem = RoLimit
    /\ conn = [c \in Conns |-> NewConn]
    /\ user = [t \in Threads |-> Idle]
    /\ faults = 0

Next ==
    \/ \E t \in Threads :
         \/ \E k \in Kinds : GetRwConn(t, k)
         \/ ReleaseRwConn(t) \/ LeakRwConn(t)
         \/ WaitRoConn(t) \/ ReuseRoConn(t) \/ OpenRoConn(t) \/ FailRoConn(t)
         \/ ReleaseRoConn(t)
    \/ \E active \in BOOLEAN : TerminateAndInitializeDbConns(active)
    \/ \E c \in Conns : Disconnect(c)

Spec == Init /\ [][Next]_vars

----------------------------------------------------------------------------
(* Properties *)

\* The state has its type.  In particular active_ro_conns_cnt_, which is unsigned,
\* never falls below zero when idle connections are deleted.
TypeOK ==
    /\ rw_conn \in [Kinds -> Conns \cup {NULL}]
    /\ stale \subseteq Conns /\ ro_pool \subseteq Conns
    /\ active_cnt \in Nat /\ ro_sem \in Nat
    /\ conn \in [Conns -> [use : Nat, close : BOOLEAN, up : BOOLEAN]]
    /\ user \in [Threads -> [pc : {"idle", "ro_wait", "ro", "rw"}, dom : Conns \cup {NULL}]]
    /\ faults \in 0 .. MaxFaults

\* A read-only connection is used by one thread at a time, whatever the semaphore
\* counts, and by no thread that takes it for a read-write one.
RoConnNotShared ==
    \A c \in ro_pool : /\ Cardinality(Users(c)) = conn[c].use /\ conn[c].use <= 1
                       /\ c \notin Rw \cup stale

\* No connection is closed and deleted under a thread that uses it: not when the
\* node becomes active or passive, and not when another user of the same connection returns it.
\* So the releases that "should not happen" (dbconn_mgr.cc:194, 208) do not.  And
\* none stays open on the stale list after the release of its last user.
LivesWhileUsed ==
    /\ \A c \in stale : conn[c].use > 0
    /\ \A t \in Threads :
         /\ user[t].pc = "ro" => user[t].dom \in ro_pool
         /\ user[t].pc = "rw" => /\ user[t].dom \in Rw \cup stale
                                 /\ conn[user[t].dom].use >= Cardinality(Users(user[t].dom))

\* The pool never exceeds db_conn_ro_limit, although ro_conn_sem_ may come to admit
\* more threads than that: the posts for idle connections are one too many each.
WithinRoLimit ==
    Cardinality(ro_pool) <= active_cnt /\ active_cnt <= RoLimit

\* "Max number of DB read-only connections" (upll.conf:19): when no thread uses or
\* asks for a read-only connection, that many threads can get one.
RoSlotsReturn ==
    (\A t \in Threads : user[t].pc \notin {"ro", "ro_wait"}) => ro_sem >= RoLimit
=============================================================================
