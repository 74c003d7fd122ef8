-------------------------- MODULE UpllDbConnProofs --------------------------
(***************************************************************************)
(* The properties of UpllDbConn, for any number of threads, connections    *)
(* and kinds of read-write connection, and for any limits.                 *)
(*                                                                         *)
(* They hold together: that a connection is not deleted under its user     *)
(* needs the use counts, the counts need that the shared, the stale and    *)
(* the read-only connections are different objects, and that the limit is  *)
(* kept needs that an idle connection is one that nobody uses.             *)
(***************************************************************************)
EXTENDS UpllDbConn, FiniteSetTheorems, TLAPS

\* An object is a current read-write connection, a stale one or a read-only one.
Apart ==
    /\ Rw \cap stale = {}
    /\ (Rw \cup stale) \cap ro_pool = {}

\* Where a thread finds the connection that it holds.
Homes ==
    \A t \in Threads :
        /\ user[t].pc = "ro" => user[t].dom \in ro_pool
        /\ user[t].pc = "rw" => user[t].dom \in Rw \cup stale

\* A shared connection counts at least its users (more when uses have leaked), and
\* a stale one is in use.
RwCounts ==
    /\ \A c \in Rw \cup stale : conn[c].use >= Cardinality(Users(c))
    /\ \A c \in stale : conn[c].use > 0

\* A read-only connection has no user or one.
RoCounts ==
    \A c \in ro_pool :
        \/ conn[c].use = 0 /\ Users(c) = {}
        \/ conn[c].use = 1 /\ \E t \in Threads : Users(c) = {t}

\* The inductive invariant.
IInv ==
    /\ TypeOK /\ Apart /\ Homes /\ RwCounts /\ RoCounts /\ WithinRoLimit

ConnType == [use : Nat, close : BOOLEAN, up : BOOLEAN]

----------------------------------------------------------------------------
(* Users, and the deletion of idle connections *)

\* The users of a connection are finitely many threads.
LEMMA UsersFinite ==
    \A c : IsFiniteSet(Users(c)) /\ Cardinality(Users(c)) \in Nat
<1> SUFFICES ASSUME NEW c PROVE IsFiniteSet(Users(c)) /\ Cardinality(Users(c)) \in Nat
    OBVIOUS
<1>1. Users(c) \in SUBSET Threads
    BY DEF Users
<1>2. IsFiniteSet(Users(c))
    BY <1>1, DbConnAssumption, FS_Subset DEF DbConnAssumption
<1> QED
    BY <1>2, FS_CardinalityType

\* What a step of thread t does to the users of every connection: t is a user of
\* what it now holds and of nothing else.
LEMMA UsersChange ==
    ASSUME TypeOK, NEW t \in Threads, NEW h, user' = [user EXCEPT ![t] = h]
    PROVE  \A d : Users(d)' = IF h.pc \in {"ro", "rw"} /\ h.dom = d THEN Users(d) \cup {t}
                              ELSE Users(d) \ {t}
<1> SUFFICES ASSUME NEW d
             PROVE  Users(d)' = IF h.pc \in {"ro", "rw"} /\ h.dom = d
                                THEN Users(d) \cup {t} ELSE Users(d) \ {t}
    OBVIOUS
<1>1. \A s \in Threads : user'[s] = IF s = t THEN h ELSE user[s]
    BY DEF TypeOK
<1> QED
    BY <1>1 DEF Users

\* A connection with one counted use has no user but the one that returns it.
LEMMA LastUser ==
    ASSUME NEW c, NEW t \in Users(c), Cardinality(Users(c)) <= 1
    PROVE  Users(c) = {t}
<1>1. IsFiniteSet(Users(c) \ {t}) /\ Cardinality(Users(c) \ {t}) = Cardinality(Users(c)) - 1
    BY UsersFinite, FS_RemoveElement
<1>2. Cardinality(Users(c) \ {t}) \in Nat
    BY <1>1, FS_CardinalityType
<1>3. Cardinality(Users(c) \ {t}) = 0
    BY <1>1, <1>2, UsersFinite
<1>4. Users(c) \ {t} = {}
    BY <1>1, <1>3, FS_EmptySet
<1> QED
    BY <1>4

\* TerminateAllRoConns deletes what nobody uses and nothing else, and takes as many
\* from the count of connections as it deletes.
LEMMA TerminateRo ==
    ASSUME TypeOK, WithinRoLimit, NEW f \in [Conns -> ConnType], TerminateAllRoConns(f)
    PROVE  /\ active_cnt' \in Nat /\ ro_sem' \in Nat /\ conn' \in [Conns -> ConnType]
           /\ ro_pool' = {c \in ro_pool : f[c].use # 0}
           /\ \A c \in Conns \ ro_pool : conn'[c] = f[c]
           /\ \A c \in ro_pool' : conn'[c].use = f[c].use
           /\ WithinRoLimit'
<1> DEFINE idle == {c \in ro_pool : f[c].use = 0}
<1>1. IsFiniteSet(ro_pool) /\ idle \in SUBSET ro_pool
    BY DbConnAssumption, FS_Subset DEF DbConnAssumption, TypeOK
<1>2. IsFiniteSet(idle) /\ Cardinality(idle) <= Cardinality(ro_pool)
    BY <1>1, FS_Subset
<1>3. Cardinality(idle) \in Nat /\ Cardinality(ro_pool) \in Nat
    BY <1>1, <1>2, FS_CardinalityType
<1>4. ro_pool \cap idle = idle
    BY <1>1
<1>5. Cardinality(ro_pool \ idle) = Cardinality(ro_pool) - Cardinality(idle)
    BY <1>1, <1>4, FS_Difference, Zenon
<1>6. /\ ro_pool' = ro_pool \ idle
      /\ active_cnt' = active_cnt - Cardinality(idle)
      /\ ro_sem' = ro_sem + Cardinality(idle)
    BY DEF TerminateAllRoConns
<1>7. active_cnt' \in Nat /\ ro_sem' \in Nat
    BY <1>2, <1>3, <1>6 DEF TypeOK, WithinRoLimit
<1>8. WithinRoLimit'
  <2>1. Cardinality(ro_pool') = Cardinality(ro_pool) - Cardinality(idle)
    BY <1>5, <1>6
  <2> HIDE DEF idle
  <2> QED
    BY <2>1, <1>3, <1>6, <1>7, DbConnAssumption DEF WithinRoLimit, TypeOK, DbConnAssumption
<1>9. /\ conn' = [c \in Conns |-> IF c \in idle THEN NewConn
                                 ELSE IF c \in ro_pool THEN [f[c] EXCEPT !.close = TRUE]
                                 ELSE f[c]]
    BY DEF TerminateAllRoConns
<1>10. conn' \in [Conns -> ConnType]
    BY <1>9, Zenon DEF NewConn, ConnType
<1>11. \A c \in Conns \ ro_pool : conn'[c] = f[c]
    BY <1>9
<1>12. \A c \in ro_pool' : conn'[c].use = f[c].use
    BY <1>6, <1>9 DEF TypeOK, ConnType
<1>13. ro_pool' = {c \in ro_pool : f[c].use # 0}
    BY <1>6
<1> QED
    BY <1>7, <1>8, <1>10, <1>11, <1>12, <1>13

----------------------------------------------------------------------------
(* The steps *)

\* GetConfigRwConn and its siblings.
LEMMA GetRwConnStep ==
    ASSUME IInv, NEW t \in Threads, NEW k \in Kinds, GetRwConn(t, k)
    PROVE  IInv'
<1>0. PICK c : c = rw_conn[k]
    OBVIOUS
<1>1. /\ user[t].pc = "idle" /\ c # NULL
      /\ conn' = [conn EXCEPT ![c].use = @ + 1]
      /\ user' = [user EXCEPT ![t] = Using("rw", c)]
      /\ UNCHANGED <<rw_conn, stale, ro_pool, active_cnt, ro_sem, faults>>
    BY <1>0 DEF GetRwConn
<1>2. TypeOK /\ Apart /\ Homes /\ RwCounts /\ RoCounts /\ WithinRoLimit
    BY DEF IInv
<1>3. c \in Conns /\ c \in Rw
    BY <1>0, <1>1, <1>2 DEF TypeOK, Rw
<1>4. Rw' = Rw
    BY <1>1 DEF Rw
<1>5. \A d : Users(d)' = IF d = c THEN Users(d) \cup {t} ELSE Users(d) \ {t}
  <2>1. \A d : Users(d)' = IF Using("rw", c).pc \in {"ro", "rw"} /\ Using("rw", c).dom = d
                           THEN Users(d) \cup {t} ELSE Users(d) \ {t}
    BY <1>1, <1>2, UsersChange, Zenon
  <2> QED
    BY <2>1 DEF Using
<1>6. \A d : t \notin Users(d)
    BY <1>1 DEF Users
<1>7. \A d \in Conns : conn'[d] = IF d = c THEN [conn[c] EXCEPT !.use = @ + 1] ELSE conn[d]
    BY <1>1, <1>2 DEF TypeOK
<1>8. TypeOK'
    BY <1>1, <1>2, <1>3 DEF TypeOK, Using
<1>9. Apart'
    BY <1>1, <1>2, <1>4 DEF Apart
<1>10. Homes'
    BY <1>1, <1>2, <1>3, <1>4 DEF Homes, TypeOK, Using
<1>11. RwCounts'
  <2>1. Cardinality(Users(c) \cup {t}) = Cardinality(Users(c)) + 1
    BY <1>6, UsersFinite, FS_AddElement, Zenon
  <2>2. conn'[c].use = conn[c].use + 1 /\ conn[c].use \in Nat
    BY <1>2, <1>3, <1>7 DEF TypeOK
  <2>3. conn'[c].use >= Cardinality(Users(c)')
    <3>1. Users(c)' = Users(c) \cup {t}
        BY <1>5
    <3>2. conn[c].use >= Cardinality(Users(c)) /\ Cardinality(Users(c)) \in Nat
        BY <1>2, <1>3, UsersFinite DEF RwCounts
    <3> QED
        BY <3>1, <3>2, <2>1, <2>2
  <2>4. \A d \in (Rw \cup stale) \ {c} : conn'[d].use >= Cardinality(Users(d)')
    <3> SUFFICES ASSUME NEW d \in (Rw \cup stale) \ {c}
                 PROVE  conn'[d].use >= Cardinality(Users(d)')
        OBVIOUS
    <3>1. d \in Conns
        BY <1>2 DEF TypeOK, Rw
    <3>2. Users(d)' = Users(d)
        BY <1>5, <1>6
    <3>3. conn'[d] = conn[d]
        BY <3>1, <1>7
    <3> QED
        BY <3>2, <3>3, <1>2 DEF RwCounts
  <2>5. \A d \in stale : conn'[d].use > 0
    BY <1>2, <1>7, <2>2 DEF RwCounts, TypeOK
  <2> QED
    BY <2>3, <2>4, <2>5, <1>1, <1>4 DEF RwCounts
<1>12. RoCounts'
  <2> SUFFICES ASSUME NEW d \in ro_pool
               PROVE  \/ conn'[d].use = 0 /\ Users(d)' = {}
                      \/ conn'[d].use = 1 /\ \E u \in Threads : Users(d)' = {u}
      BY <1>1 DEF RoCounts
  <2>1. d # c /\ d \in Conns
      BY <1>2, <1>3 DEF Apart, TypeOK
  <2>2. Users(d)' = Users(d) /\ conn'[d] = conn[d]
      BY <2>1, <1>5, <1>6, <1>7
  <2> QED
      BY <2>2, <1>2 DEF RoCounts
<1>13. WithinRoLimit'
    BY <1>1, <1>2 DEF WithinRoLimit
<1> QED
    BY <1>8, <1>9, <1>10, <1>11, <1>12, <1>13 DEF IInv

\* What a thread that returns its connection does to the users: it is no longer one,
\* and nobody else's connection is concerned.
LEMMA UsersLeave ==
    ASSUME IInv, NEW t \in Threads, user[t].pc \in {"ro", "rw"},
           NEW c, c = user[t].dom, user' = [user EXCEPT ![t] = Idle]
    PROVE  /\ t \in Users(c)
           /\ \A d : d # c => Users(d)' = Users(d)
           /\ Users(c)' = Users(c) \ {t}
           /\ Cardinality(Users(c)') = Cardinality(Users(c)) - 1
           /\ user' \in [Threads -> [pc : {"idle", "ro_wait", "ro", "rw"}, dom : Conns \cup {NULL}]]
<1>1. TypeOK
    BY DEF IInv
<1>2. \A d : Users(d)' = Users(d) \ {t}
  <2>1. \A d : Users(d)' = IF Idle.pc \in {"ro", "rw"} /\ Idle.dom = d
                           THEN Users(d) \cup {t} ELSE Users(d) \ {t}
    BY <1>1, UsersChange, Zenon
  <2> QED
    BY <2>1 DEF Idle
<1>3. t \in Users(c) /\ \A d : d # c => t \notin Users(d)
    BY DEF Users
<1>4. Cardinality(Users(c) \ {t}) = Cardinality(Users(c)) - 1
    BY <1>3, UsersFinite, FS_RemoveElement, Zenon
<1>5. user' \in [Threads -> [pc : {"idle", "ro_wait", "ro", "rw"}, dom : Conns \cup {NULL}]]
    BY <1>1 DEF TypeOK, Idle
<1>6. \A d : d # c => Users(d)' = Users(d)
    BY <1>2, <1>3
<1> QED
    BY <1>2, <1>3, <1>4, <1>5, <1>6, Zenon

\* ReleaseRwConn: the last use of a stale connection is that of its only user.
LEMMA ReleaseRwConnStep ==
    ASSUME IInv, NEW t \in Threads, ReleaseRwConn(t)
    PROVE  IInv'
<1>0. PICK c : c = user[t].dom
    OBVIOUS
<1>1. /\ user[t].pc = "rw"
      /\ user' = [user EXCEPT ![t] = Idle]
      /\ UNCHANGED <<rw_conn, ro_pool, active_cnt, ro_sem, faults>>
    BY DEF ReleaseRwConn
<1>2. TypeOK /\ Apart /\ Homes /\ RwCounts /\ RoCounts /\ WithinRoLimit
    BY DEF IInv
<1>3. c \in Rw \cup stale /\ c \in Conns /\ c \notin ro_pool
    BY <1>0, <1>1, <1>2 DEF Homes, TypeOK, Rw, Apart
<1>4. Rw' = Rw
    BY <1>1 DEF Rw
<1>5. /\ t \in Users(c)
      /\ \A d : d # c => Users(d)' = Users(d)
      /\ Users(c)' = Users(c) \ {t}
      /\ Cardinality(Users(c)') = Cardinality(Users(c)) - 1
      /\ user' \in [Threads -> [pc : {"idle", "ro_wait", "ro", "rw"}, dom : Conns \cup {NULL}]]
    BY <1>0, <1>1, UsersLeave, Zenon
<1>6. conn[c].use \in Nat /\ Cardinality(Users(c)) \in Nat
      /\ conn[c].use >= Cardinality(Users(c))
    BY <1>2, <1>3, UsersFinite, SMTT(30) DEF TypeOK, RwCounts
<1>7. /\ stale' \subseteq stale
      /\ conn' \in [Conns -> ConnType]
      /\ \A d \in Conns \ {c} : conn'[d] = conn[d] /\ (d \in stale' <=> d \in stale)
      /\ \/ conn'[c].use = conn[c].use - 1 /\ (c \in stale' => conn[c].use > 1) /\ c \in Rw \cup stale'
         \/ Users(c)' = {} /\ c \notin Rw \cup stale'
  <2>1. CASE /\ c \in Rw /\ conn[c].use > 0
             /\ conn' = [conn EXCEPT ![c].use = @ - 1]
             /\ UNCHANGED stale
    <3>1. c \notin stale
        BY <2>1, <1>2 DEF Apart
    <3>2. conn' \in [Conns -> ConnType] /\ conn'[c].use = conn[c].use - 1
        BY <2>1, <1>2, <1>3, <1>6 DEF TypeOK, ConnType
    <3>3. \A d \in Conns \ {c} : conn'[d] = conn[d]
        BY <2>1, <1>2 DEF TypeOK
    <3> QED
        BY <3>1, <3>2, <3>3, <2>1
  <2>2. CASE /\ c \in stale \ Rw /\ conn[c].use > 1
             /\ conn' = [conn EXCEPT ![c].use = @ - 1]
             /\ UNCHANGED stale
    <3>2. conn' \in [Conns -> ConnType] /\ conn'[c].use = conn[c].use - 1
        BY <2>2, <1>2, <1>3, <1>6 DEF TypeOK, ConnType
    <3>3. \A d \in Conns \ {c} : conn'[d] = conn[d]
        BY <2>2, <1>2 DEF TypeOK
    <3> QED
        BY <3>2, <3>3, <2>2
  <2>3. CASE /\ c \in stale \ Rw /\ conn[c].use = 1
             /\ conn' = Delete(conn, {c})
             /\ stale' = stale \ {c}
    <3>1. Users(c) = {t}
        BY <2>3, <1>5, <1>6, LastUser
    <3>2. conn' \in [Conns -> ConnType] /\ \A d \in Conns \ {c} : conn'[d] = conn[d]
        BY <2>3, <1>2 DEF Delete, NewConn, ConnType, TypeOK
    <3> QED
        BY <3>1, <3>2, <2>3, <1>5, Zenon
  <2> QED
    BY <2>1, <2>2, <2>3, <1>0 DEF ReleaseRwConn
<1>8. TypeOK'
    BY <1>1, <1>2, <1>5, <1>7 DEF TypeOK, ConnType
<1>9. Apart'
    BY <1>1, <1>2, <1>4, <1>7 DEF Apart
<1>10. Homes'
  <2> SUFFICES ASSUME NEW u \in Threads
               PROVE  /\ user'[u].pc = "ro" => user'[u].dom \in ro_pool'
                      /\ user'[u].pc = "rw" => user'[u].dom \in (Rw \cup stale)'
      BY DEF Homes
  <2>1. CASE u = t
      BY <2>1, <1>1, <1>2 DEF Idle, TypeOK
  <2>2. CASE u # t
    <3>1. user'[u] = user[u]
        BY <2>2, <1>1, <1>2 DEF TypeOK
    <3>2. user[u].pc = "ro" => user[u].dom \in ro_pool
        BY <1>2 DEF Homes
    <3>3. ASSUME user[u].pc = "rw" PROVE user[u].dom \in Rw \cup stale'
      <4>1. user[u].dom \in Rw \cup stale /\ user[u].dom \in Conns
          BY <3>3, <1>2 DEF Homes, TypeOK, Rw
      <4>2. user[u].dom = c => u \in Users(c)'
          BY <3>1, <3>3 DEF Users
      <4> QED
          BY <4>1, <4>2, <1>7
    <3> QED
        BY <3>1, <3>2, <3>3, <1>1, <1>4
  <2> QED
      BY <2>1, <2>2
<1>11. RwCounts'
  <2>1. ASSUME NEW d \in Rw \cup stale' PROVE conn'[d].use >= Cardinality(Users(d)')
    <3>1. CASE d = c
        BY <3>1, <2>1, <1>5, <1>6, <1>7
    <3>2. CASE d # c
      <4>1. d \in Conns /\ d \in Rw \cup stale
          BY <2>1, <1>2, <1>7 DEF TypeOK, Rw
      <4>2. conn'[d] = conn[d] /\ Users(d)' = Users(d)
          BY <4>1, <3>2, <1>5, <1>7
      <4> QED
          BY <4>1, <4>2, <1>2 DEF RwCounts
    <3> QED
        BY <3>1, <3>2
  <2>2. ASSUME NEW d \in stale' PROVE conn'[d].use > 0
    <3>1. d \in stale /\ d \in Conns
        BY <1>2, <1>7 DEF TypeOK
    <3>2. CASE d = c
        BY <3>2, <1>6, <1>7
    <3>3. CASE d # c
        BY <3>1, <3>3, <1>2, <1>7 DEF RwCounts
    <3> QED
        BY <3>2, <3>3
  <2> QED
      BY <2>1, <2>2, <1>4 DEF RwCounts
<1>12. RoCounts'
  <2>1. \A d \in ro_pool : Users(d)' = Users(d) /\ conn'[d] = conn[d]
      BY <1>2, <1>3, <1>5, <1>7 DEF TypeOK
  <2> QED
      BY <2>1, <1>1, <1>2 DEF RoCounts
<1>13. WithinRoLimit'
    BY <1>1, <1>2 DEF WithinRoLimit
<1> QED
    BY <1>8, <1>9, <1>10, <1>11, <1>12, <1>13 DEF IInv

\* LeakRwConn: the count keeps what the user has given up.
LEMMA LeakRwConnStep ==
    ASSUME IInv, NEW t \in Threads, LeakRwConn(t)
    PROVE  IInv'
<1>0. PICK c : c = user[t].dom
    OBVIOUS
<1>1. /\ user[t].pc = "rw"
      /\ user' = [user EXCEPT ![t] = Idle]
      /\ UNCHANGED <<rw_conn, stale, ro_pool, active_cnt, ro_sem, conn, faults>>
    BY DEF LeakRwConn
<1>2. TypeOK /\ Apart /\ Homes /\ RwCounts /\ RoCounts /\ WithinRoLimit
    BY DEF IInv
<1>3. c \in Rw \cup stale /\ c \notin ro_pool
    BY <1>0, <1>1, <1>2 DEF Homes, Apart
<1>4. Rw' = Rw
    BY <1>1 DEF Rw
<1>5. /\ \A d : d # c => Users(d)' = Users(d)
      /\ Cardinality(Users(c)') = Cardinality(Users(c)) - 1
      /\ user' \in [Threads -> [pc : {"idle", "ro_wait", "ro", "rw"}, dom : Conns \cup {NULL}]]
    BY <1>0, <1>1, UsersLeave, Zenon
<1>6. TypeOK'
    BY <1>1, <1>2, <1>5 DEF TypeOK
<1>7. Apart' /\ WithinRoLimit'
    BY <1>1, <1>2, <1>4 DEF Apart, WithinRoLimit
<1>8. Homes'
    BY <1>1, <1>2, <1>4 DEF Homes, Idle, TypeOK
<1>9. RwCounts'
  <2>1. ASSUME NEW d \in Rw \cup stale PROVE conn[d].use >= Cardinality(Users(d)')
    <3>1. conn[d].use >= Cardinality(Users(d)) /\ Cardinality(Users(d)) \in Nat
          /\ conn[d].use \in Nat
        BY <1>2, UsersFinite DEF RwCounts, TypeOK, Rw
    <3> QED
        BY <3>1, <1>5
  <2> QED
      BY <2>1, <1>1, <1>2, <1>4 DEF RwCounts
<1>10. RoCounts'
    BY <1>1, <1>2, <1>3, <1>5 DEF RoCounts
<1> QED
    BY <1>6, <1>7, <1>8, <1>9, <1>10 DEF IInv

\* A thread that holds no connection and takes none is no user of any.
LEMMA UsersStay ==
    ASSUME IInv, NEW t \in Threads, user[t].pc \notin {"ro", "rw"},
           NEW h, h.pc \notin {"ro", "rw"}, user' = [user EXCEPT ![t] = h]
    PROVE  \A d : Users(d)' = Users(d)
<1>1. TypeOK
    BY DEF IInv
<1>2. \A d : Users(d)' = IF h.pc \in {"ro", "rw"} /\ h.dom = d
                         THEN Users(d) \cup {t} ELSE Users(d) \ {t}
    BY <1>1, UsersChange, Zenon
<1>3. \A d : t \notin Users(d)
    BY DEF Users
<1> QED
    BY <1>2, <1>3

\* AcquireRoConn waits for the semaphore.
LEMMA WaitRoConnStep ==
    ASSUME IInv, NEW t \in Threads, WaitRoConn(t)
    PROVE  IInv'
<1>1. /\ user[t].pc = "idle" /\ ro_sem > 0 /\ ro_sem' = ro_sem - 1
      /\ user' = [user EXCEPT ![t] = Using("ro_wait", NULL)]
      /\ UNCHANGED <<rw_conn, stale, ro_pool, active_cnt, conn, faults>>
    BY DEF WaitRoConn
<1>2. TypeOK /\ Apart /\ Homes /\ RwCounts /\ RoCounts /\ WithinRoLimit
    BY DEF IInv
<1>3. Using("ro_wait", NULL).pc \notin {"ro", "rw"}
    BY DEF Using
<1>4. \A d : Users(d)' = Users(d)
  <2>1. user[t].pc \notin {"ro", "rw"}
    BY <1>1
  <2> QED
    BY <2>1, <1>1, <1>3, UsersStay, Zenon
<1>5. Rw' = Rw
    BY <1>1 DEF Rw
<1>6. TypeOK'
    BY <1>1, <1>2 DEF TypeOK, Using
<1>7. Apart' /\ WithinRoLimit' /\ Homes'
    BY <1>1, <1>2, <1>5 DEF Apart, WithinRoLimit, Homes, TypeOK, Using
<1>8. RwCounts' /\ RoCounts'
    BY <1>1, <1>2, <1>4, <1>5 DEF RwCounts, RoCounts
<1> QED
    BY <1>6, <1>7, <1>8 DEF IInv

\* A thread takes a connection c of which it is the only user: one that was idle in
\* the pool, or a new one.
LEMMA TakeRoConn ==
    ASSUME IInv, NEW t \in Threads, user[t].pc = "ro_wait",
           NEW c \in Conns, c \notin Rw \cup stale, Users(c) = {},
           user' = [user EXCEPT ![t] = Using("ro", c)],
           ro_pool' = ro_pool \cup {c},
           conn' \in [Conns -> ConnType], conn'[c].use = 1,
           \A d \in Conns \ {c} : conn'[d] = conn[d],
           active_cnt' \in Nat, WithinRoLimit',
           UNCHANGED <<rw_conn, stale, ro_sem, faults>>
    PROVE  IInv'
<1>2. TypeOK /\ Apart /\ Homes /\ RwCounts /\ RoCounts
    BY DEF IInv
<1>3. \A d : Users(d)' = IF d = c THEN {t} ELSE Users(d)
  <2>1. \A d : Users(d)' = IF Using("ro", c).pc \in {"ro", "rw"} /\ Using("ro", c).dom = d
                           THEN Users(d) \cup {t} ELSE Users(d) \ {t}
    BY <1>2, UsersChange, Zenon
  <2>2. \A d : t \notin Users(d)
    BY DEF Users
  <2> QED
    BY <2>1, <2>2 DEF Using
<1>4. Rw' = Rw
    BY DEF Rw
<1>5. TypeOK'
    BY <1>2 DEF TypeOK, Using, ConnType
<1>6. Apart'
    BY <1>2, <1>4 DEF Apart
<1>7. Homes'
    BY <1>2, <1>4 DEF Homes, TypeOK, Using
<1>8. RwCounts'
  <2>1. \A d \in Rw \cup stale : d \in Conns /\ d # c
    BY <1>2 DEF TypeOK, Rw
  <2> QED
    BY <2>1, <1>2, <1>3, <1>4 DEF RwCounts
<1>9. RoCounts'
    BY <1>2, <1>3 DEF RoCounts, TypeOK
<1> QED
    BY <1>5, <1>6, <1>7, <1>8, <1>9 DEF IInv

\* AcquireRoConn takes an idle connection of the pool.
LEMMA ReuseRoConnStep ==
    ASSUME IInv, NEW t \in Threads, ReuseRoConn(t)
    PROVE  IInv'
<1>1. PICK c \in IdleRo : /\ conn' = [conn EXCEPT ![c].use = 1]
                          /\ user' = [user EXCEPT ![t] = Using("ro", c)]
    BY Zenon DEF ReuseRoConn
<1>2. TypeOK /\ Apart /\ RoCounts /\ WithinRoLimit
    BY DEF IInv
<1>3. /\ user[t].pc = "ro_wait"
      /\ UNCHANGED <<rw_conn, stale, ro_pool, active_cnt, ro_sem, faults>>
    BY DEF ReuseRoConn
<1>4. c \in Conns /\ c \in ro_pool /\ conn[c].use = 0
    BY <1>2 DEF IdleRo, TypeOK
<1>5. c \notin Rw \cup stale
    BY <1>2, <1>4 DEF Apart
<1>6. Users(c) = {}
    BY <1>2, <1>4 DEF RoCounts
<1>7. ro_pool' = ro_pool \cup {c}
    BY <1>3, <1>4
<1>8. conn' \in [Conns -> ConnType] /\ conn'[c].use = 1
    BY <1>1, <1>2, <1>4 DEF TypeOK, ConnType
<1>9. \A d \in Conns \ {c} : conn'[d] = conn[d]
    BY <1>1, <1>2 DEF TypeOK
<1>10. active_cnt' \in Nat /\ WithinRoLimit'
    BY <1>2, <1>3 DEF TypeOK, WithinRoLimit
<1> QED
    BY <1>1, <1>3, <1>4, <1>5, <1>6, <1>7, <1>8, <1>9, <1>10, TakeRoConn, Zenon

\* AcquireRoConn opens a connection: below the limit, and in fresh memory.
LEMMA OpenRoConnStep ==
    ASSUME IInv, NEW t \in Threads, OpenRoConn(t)
    PROVE  IInv'
<1>1. PICK c \in Conns \ Allocated :
            /\ conn' = [conn EXCEPT ![c] = [NewConn EXCEPT !.use = 1]]
            /\ ro_pool' = ro_pool \cup {c}
            /\ user' = [user EXCEPT ![t] = Using("ro", c)]
    BY Zenon DEF OpenRoConn, OpenConn
<1>2. TypeOK /\ Homes /\ WithinRoLimit
    BY DEF IInv
<1>3. /\ user[t].pc = "ro_wait" /\ active_cnt < RoLimit /\ active_cnt' = active_cnt + 1
      /\ UNCHANGED <<rw_conn, stale, ro_sem, faults>>
    BY DEF OpenRoConn, OpenConn
<1>4. c \in Conns /\ c \notin Rw \cup stale /\ c \notin ro_pool
    BY DEF Allocated
<1>5. Users(c) = {}
    BY <1>2, <1>4 DEF Users, Homes
<1>6. conn' \in [Conns -> ConnType] /\ conn'[c].use = 1
    BY <1>1, <1>2, <1>4, Zenon DEF TypeOK, ConnType, NewConn
<1>7. \A d \in Conns \ {c} : conn'[d] = conn[d]
    BY <1>1, <1>2 DEF TypeOK
<1>8. active_cnt' \in Nat /\ WithinRoLimit'
  <2>1. IsFiniteSet(ro_pool)
    BY <1>2, DbConnAssumption, FS_Subset DEF TypeOK, DbConnAssumption
  <2>2. Cardinality(ro_pool \cup {c}) = Cardinality(ro_pool) + 1
    BY <2>1, <1>4, FS_AddElement, Zenon
  <2>3. Cardinality(ro_pool) \in Nat
    BY <2>1, FS_CardinalityType
  <2>4. Cardinality(ro_pool') = Cardinality(ro_pool) + 1
    BY <2>2, <1>1
  <2> QED
    BY <2>3, <2>4, <1>2, <1>3, DbConnAssumption DEF WithinRoLimit, TypeOK, DbConnAssumption
<1>9. UNCHANGED <<rw_conn, stale, ro_sem, faults>> /\ ro_pool' = ro_pool \cup {c}
      /\ user' = [user EXCEPT ![t] = Using("ro", c)]
    BY <1>1, <1>3
<1> QED
    BY <1>3, <1>4, <1>5, <1>6, <1>7, <1>8, <1>9, TakeRoConn, Zenon

\* What follows when idle read-only connections are terminated and nothing else has
\* changed but the connection c0 that a thread has returned, if any: f is conn but
\* for c0, which nobody uses any more.
LEMMA TerminateStep ==
    ASSUME IInv, NEW f \in [Conns -> ConnType], TerminateAllRoConns(f),
           NEW c0, c0 \notin Rw \cup stale,
           c0 \in ro_pool => f[c0].use = 0 /\ Users(c0)' = {},
           \A d \in Conns \ {c0} : f[d] = conn[d],
           \A d : d # c0 => Users(d)' = Users(d),
           user' \in [Threads -> [pc : {"idle", "ro_wait", "ro", "rw"}, dom : Conns \cup {NULL}]],
           \A u \in Threads : user'[u] = user[u] \/ user'[u].pc = "idle",
           faults' \in 0 .. MaxFaults, UNCHANGED <<rw_conn, stale>>
    PROVE  IInv'
<1>1. TypeOK /\ Apart /\ Homes /\ RwCounts /\ RoCounts /\ WithinRoLimit
    BY DEF IInv
<1>2. /\ active_cnt' \in Nat /\ ro_sem' \in Nat /\ conn' \in [Conns -> ConnType]
      /\ ro_pool' = {c \in ro_pool : f[c].use # 0}
      /\ \A c \in Conns \ ro_pool : conn'[c] = f[c]
      /\ \A c \in ro_pool' : conn'[c].use = f[c].use
      /\ WithinRoLimit'
    BY <1>1, TerminateRo
<1>3. Rw' = Rw
    BY DEF Rw
<1>4. TypeOK'
    BY <1>1, <1>2 DEF TypeOK, ConnType
<1>5. Apart'
    BY <1>1, <1>2, <1>3 DEF Apart
<1>6. \A d \in Rw \cup stale : conn'[d] = conn[d] /\ Users(d)' = Users(d)
    BY <1>1, <1>2 DEF Apart, TypeOK, Rw
<1>7. RwCounts'
    BY <1>1, <1>3, <1>6 DEF RwCounts
<1>8. ASSUME NEW d \in ro_pool'
      PROVE  d # c0 /\ d \in ro_pool /\ conn'[d].use = conn[d].use /\ Users(d)' = Users(d)
    BY <1>1, <1>2 DEF TypeOK
<1>9. RoCounts'
    BY <1>1, <1>8 DEF RoCounts
<1>10. Homes'
  <2> SUFFICES ASSUME NEW u \in Threads
               PROVE  /\ user'[u].pc = "ro" => user'[u].dom \in ro_pool'
                      /\ user'[u].pc = "rw" => user'[u].dom \in (Rw \cup stale)'
      BY DEF Homes
  <2>1. CASE user'[u].pc = "idle"
      BY <2>1
  <2>2. CASE user'[u] = user[u]
    <3>1. user[u].pc = "rw" => user[u].dom \in Rw \cup stale
        BY <1>1 DEF Homes
    <3>2. ASSUME user[u].pc = "ro" PROVE user[u].dom \in ro_pool'
      <4>1. PICK d : d = user[u].dom
          OBVIOUS
      <4>2. d \in ro_pool /\ d \in Conns
          BY <3>2, <4>1, <1>1 DEF Homes, TypeOK
      <4>3. u \in Users(d) /\ u \in Users(d)'
          BY <3>2, <4>1, <2>2 DEF Users
      <4>4. d # c0
          BY <4>2, <4>3
      <4>5. conn[d].use = 1
          BY <4>2, <4>3, <1>1 DEF RoCounts
      <4> QED
          BY <4>1, <4>2, <4>4, <4>5, <1>2
    <3> QED
        BY <3>1, <3>2, <2>2, <1>3
  <2> QED
      BY <2>1, <2>2
<1> QED
    BY <1>2, <1>4, <1>5, <1>7, <1>9, <1>10 DEF IInv

\* AcquireRoConn fails.
LEMMA FailRoConnStep ==
    ASSUME IInv, NEW t \in Threads, FailRoConn(t)
    PROVE  IInv'
<1>1. /\ user[t].pc = "ro_wait"
      /\ user' = [user EXCEPT ![t] = Idle]
      /\ UNCHANGED <<rw_conn, stale>>
    BY DEF FailRoConn
<1>2. TypeOK /\ Apart /\ Homes /\ RwCounts /\ RoCounts /\ WithinRoLimit
    BY DEF IInv
<1>3. \A d : Users(d)' = Users(d)
  <2>1. user[t].pc \notin {"ro", "rw"} /\ Idle.pc \notin {"ro", "rw"}
    BY <1>1 DEF Idle
  <2> QED
    BY <2>1, <1>1, UsersStay, Zenon
<1>4. user' \in [Threads -> [pc : {"idle", "ro_wait", "ro", "rw"}, dom : Conns \cup {NULL}]]
    BY <1>1, <1>2 DEF TypeOK, Idle
<1>5. \A u \in Threads : user'[u] = user[u] \/ user'[u].pc = "idle"
    BY <1>1, <1>2 DEF TypeOK, Idle
<1>6. CASE UNCHANGED <<ro_pool, conn, active_cnt, ro_sem, faults>>
  <2>1. Rw' = Rw
    BY <1>1 DEF Rw
  <2>2. TypeOK'
    BY <1>1, <1>2, <1>4, <1>6 DEF TypeOK
  <2>3. Apart' /\ WithinRoLimit'
    BY <1>1, <1>2, <1>6, <2>1 DEF Apart, WithinRoLimit
  <2>4. Homes'
    BY <1>1, <1>2, <1>5, <1>6, <2>1 DEF Homes
  <2>5. RwCounts' /\ RoCounts'
    BY <1>1, <1>2, <1>3, <1>6, <2>1 DEF RwCounts, RoCounts
  <2> QED
    BY <2>2, <2>3, <2>4, <2>5 DEF IInv
<1>7. CASE Fault /\ TerminateAllRoConns(conn)
  <2>1. NULL \notin Rw \cup stale /\ NULL \notin ro_pool
    BY <1>2, DbConnAssumption DEF TypeOK, Rw, DbConnAssumption
  <2>2. conn \in [Conns -> ConnType]
    BY <1>2 DEF TypeOK, ConnType
  <2>3. faults' \in 0 .. MaxFaults
    BY <1>2, <1>7, DbConnAssumption DEF Fault, TypeOK, DbConnAssumption
  <2> QED
    BY <1>1, <1>3, <1>4, <1>5, <1>7, <2>1, <2>2, <2>3, TerminateStep
<1> QED
    BY <1>6, <1>7 DEF FailRoConn

\* ReleaseRoConn deletes the connection, terminates what is idle, or gives it back.
LEMMA ReleaseRoConnStep ==
    ASSUME IInv, NEW t \in Threads, ReleaseRoConn(t)
    PROVE  IInv'
<1>0. PICK c : c = user[t].dom
    OBVIOUS
<1>1. /\ user[t].pc = "ro" /\ c \in ro_pool
      /\ user' = [user EXCEPT ![t] = Idle]
      /\ UNCHANGED <<rw_conn, stale, faults>>
    BY <1>0 DEF ReleaseRoConn
<1>2. TypeOK /\ Apart /\ Homes /\ RwCounts /\ RoCounts /\ WithinRoLimit
    BY DEF IInv
<1>3. c \in Conns /\ c \notin Rw \cup stale
    BY <1>1, <1>2 DEF TypeOK, Apart
<1>4. /\ t \in Users(c)
      /\ \A d : d # c => Users(d)' = Users(d)
      /\ Users(c)' = Users(c) \ {t}
      /\ user' \in [Threads -> [pc : {"idle", "ro_wait", "ro", "rw"}, dom : Conns \cup {NULL}]]
    BY <1>0, <1>1, UsersLeave, Zenon
<1>5. Users(c)' = {}
    BY <1>1, <1>2, <1>4 DEF RoCounts
<1>6. \A u \in Threads : user'[u] = user[u] \/ user'[u].pc = "idle"
    BY <1>1, <1>2 DEF TypeOK, Idle
<1>7. Rw' = Rw
    BY <1>1 DEF Rw
<1>8. \A u \in Threads : user'[u].pc \in {"ro", "rw"} => user'[u] = user[u] /\ user[u].dom # c
  <2> SUFFICES ASSUME NEW u \in Threads, user'[u].pc \in {"ro", "rw"}
               PROVE  user'[u] = user[u] /\ user[u].dom # c
      OBVIOUS
  <2>1. user'[u] = user[u]
      BY <1>6
  <2>2. user'[u].dom = c => u \in Users(c)'
      BY DEF Users
  <2> QED
      BY <2>1, <2>2, <1>5
<1>9. ASSUME ro_pool' \in {ro_pool, ro_pool \ {c}}, conn' \in [Conns -> ConnType],
             conn'[c].use = 0, \A d \in Conns \ {c} : conn'[d] = conn[d],
             ro_sem' \in Nat, UNCHANGED active_cnt
      PROVE  IInv'
  <2>1. TypeOK'
    BY <1>1, <1>2, <1>4, <1>9 DEF TypeOK, ConnType
  <2>2. Apart'
    BY <1>1, <1>2, <1>7, <1>9 DEF Apart
  <2>3. Homes'
    BY <1>1, <1>2, <1>7, <1>8, <1>9, SMTT(30) DEF Homes
  <2>4. RwCounts'
    <3>1. \A d \in Rw \cup stale : d \in Conns /\ d # c
        BY <1>2, <1>3 DEF TypeOK, Rw
    <3> QED
        BY <3>1, <1>1, <1>2, <1>4, <1>7, <1>9 DEF RwCounts
  <2>5. RoCounts'
    <3>1. ASSUME NEW d \in ro_pool'
          PROVE  \/ conn'[d].use = 0 /\ Users(d)' = {}
                 \/ conn'[d].use = 1 /\ \E u \in Threads : Users(d)' = {u}
      <4>1. CASE d = c
          BY <4>1, <1>5, <1>9
      <4>2. CASE d # c
        <5>1. d \in ro_pool /\ conn'[d] = conn[d] /\ Users(d)' = Users(d)
            BY <4>2, <1>2, <1>4, <1>9, <3>1, SMTT(30) DEF TypeOK
        <5> QED
            BY <5>1, <1>2 DEF RoCounts
      <4> QED
          BY <4>1, <4>2
    <3> QED
        BY <3>1 DEF RoCounts
  <2>6. WithinRoLimit'
    <3>1. IsFiniteSet(ro_pool)
        BY <1>2, DbConnAssumption, FS_Subset DEF TypeOK, DbConnAssumption
    <3>2. Cardinality(ro_pool) \in Nat
        BY <3>1, FS_CardinalityType
    <3>3. Cardinality(ro_pool \ {c}) = Cardinality(ro_pool) - 1
        BY <3>1, <1>1, FS_RemoveElement, Zenon
    <3>4. Cardinality(ro_pool') = Cardinality(ro_pool) \/ Cardinality(ro_pool') = Cardinality(ro_pool) - 1
        BY <3>3, <1>9, Zenon
    <3> QED
        BY <3>2, <3>4, <1>2, <1>9, DbConnAssumption DEF WithinRoLimit, TypeOK, DbConnAssumption
  <2> QED
    BY <2>1, <2>2, <2>3, <2>4, <2>5, <2>6 DEF IInv
<1>10. CASE /\ ro_pool' = ro_pool \ {c}
            /\ conn' = Delete(conn, {c})
            /\ UNCHANGED <<active_cnt, ro_sem>>
    BY <1>2, <1>3, <1>9, <1>10, SMTT(30) DEF Delete, NewConn, ConnType, TypeOK
<1>11. CASE TerminateAllRoConns([conn EXCEPT ![c].use = 0])
  <2>1. PICK f : f = [conn EXCEPT ![c].use = 0]
    BY Zenon
  <2>2. f \in [Conns -> ConnType] /\ f[c].use = 0 /\ \A d \in Conns \ {c} : f[d] = conn[d]
    BY <2>1, <1>2, <1>3 DEF TypeOK, ConnType
  <2>3. TerminateAllRoConns(f)
    BY <2>1, <1>11
  <2>4. faults' \in 0 .. MaxFaults /\ UNCHANGED <<rw_conn, stale>>
    BY <1>1, <1>2 DEF TypeOK
  <2> QED
    BY <2>2, <2>3, <2>4, <1>3, <1>4, <1>5, <1>6, TerminateStep
<1>12. CASE /\ conn' = [conn EXCEPT ![c].use = 0]
            /\ ro_sem' = ro_sem + 1
            /\ UNCHANGED <<ro_pool, active_cnt>>
    BY <1>2, <1>3, <1>9, <1>12 DEF ConnType, TypeOK
<1> QED
    BY <1>0, <1>10, <1>11, <1>12 DEF ReleaseRoConn

\* TerminateAndInitializeDbConns: a connection that is not kept has no user, and a
\* new one is made where no connection is kept.
LEMMA ReinitializeStep ==
    ASSUME IInv, NEW active \in BOOLEAN, TerminateAndInitializeDbConns(active)
    PROVE  IInv'
<1>1. TypeOK /\ Apart /\ Homes /\ RwCounts /\ RoCounts /\ WithinRoLimit
    BY DEF IInv
<1>2. PICK used : used = {c \in Rw : conn[c].use > 0}
    BY Zenon
<1>3. Reinitialize(used, active)
    BY <1>2 DEF TerminateAndInitializeDbConns
<1>4. PICK new \in IF active THEN NewRwConns(Conns \ (stale \cup used \cup ro_pool))
                  ELSE {NoRwConn},
          down \in IF active THEN SUBSET Kinds ELSE {{}} :
         LET made == {new[k] : k \in Kinds} \ {NULL}
             closing == [c \in Conns |-> IF c \in used THEN [conn[c] EXCEPT !.close = TRUE]
                                        ELSE conn[c]] IN
         /\ rw_conn' = new
         /\ TerminateAllRoConns([c \in Conns |->
                IF c \in made THEN [NewConn EXCEPT !.up = c \notin {new[k] : k \in down}]
                ELSE Delete(closing, Rw \ used)[c]])
    BY <1>3, Zenon DEF Reinitialize
<1>5. PICK made : made = {new[k] : k \in Kinds} \ {NULL}
    BY Zenon
<1>6. PICK closing : closing = [c \in Conns |-> IF c \in used THEN [conn[c] EXCEPT !.close = TRUE]
                                               ELSE conn[c]]
    BY Zenon
<1>7. PICK f : f = [c \in Conns |->
                IF c \in made THEN [NewConn EXCEPT !.up = c \notin {new[k] : k \in down}]
                ELSE Delete(closing, Rw \ used)[c]]
    BY Zenon
<1>8. rw_conn' = new /\ TerminateAllRoConns(f)
    BY <1>4, <1>5, <1>6, <1>7
<1>9. stale' = stale \cup used /\ user' = user /\ faults' \in 0 .. MaxFaults
    BY <1>1, <1>3, DbConnAssumption DEF Reinitialize, Fault, TypeOK, DbConnAssumption
<1>10. new \in [Kinds -> (Conns \ (stale \cup used \cup ro_pool)) \cup {NULL}]
  <2>1. CASE active
    BY <2>1, <1>4 DEF NewRwConns
  <2>2. CASE ~active
    BY <2>2, <1>4 DEF NoRwConn
  <2> QED
    BY <2>1, <2>2
<1>11. made \subseteq Conns /\ made \cap (stale \cup used \cup ro_pool) = {}
    BY <1>5, <1>10
<1>12. Rw' = made
    BY <1>5, <1>8 DEF Rw
<1>13. closing \in [Conns -> ConnType] /\ \A c \in Conns : closing[c].use = conn[c].use
    BY <1>1, <1>6, Zenon DEF TypeOK, ConnType
<1>14. f \in [Conns -> ConnType]
    BY <1>7, <1>13, Zenon DEF Delete, NewConn, ConnType
<1>15. \A c \in made : f[c].use = 0
    BY <1>7, <1>11 DEF NewConn
<1>16. \A c \in Conns \ made : c \notin Rw \ used => f[c].use = conn[c].use
    BY <1>7, <1>13 DEF Delete
<1>17. /\ active_cnt' \in Nat /\ ro_sem' \in Nat /\ conn' \in [Conns -> ConnType]
       /\ ro_pool' = {c \in ro_pool : f[c].use # 0}
       /\ \A c \in Conns \ ro_pool : conn'[c] = f[c]
       /\ \A c \in ro_pool' : conn'[c].use = f[c].use
       /\ WithinRoLimit'
    BY <1>1, <1>8, <1>14, TerminateRo
<1>18. \A d : Users(d)' = Users(d)
    BY <1>9 DEF Users
<1>19. Rw \subseteq Conns /\ stale \subseteq Conns /\ ro_pool \subseteq Conns /\ used \subseteq Rw
    BY <1>1, <1>2 DEF TypeOK, Rw
<1>20. \A d \in Rw \ used : Users(d) = {}
  <2> SUFFICES ASSUME NEW d \in Rw \ used PROVE Users(d) = {}
      OBVIOUS
  <2>1. conn[d].use \in Nat /\ ~(conn[d].use > 0)
      BY <1>1, <1>2, <1>19 DEF TypeOK
  <2>2. conn[d].use >= Cardinality(Users(d)) /\ Cardinality(Users(d)) \in Nat
      BY <1>1, UsersFinite DEF RwCounts
  <2>3. Cardinality(Users(d)) = 0
      BY <2>1, <2>2
  <2> QED
      BY <2>3, UsersFinite, FS_EmptySet
<1>21. \A d \in made : Users(d) = {}
  <2> SUFFICES ASSUME NEW d \in made, NEW u \in Users(d) PROVE FALSE
      OBVIOUS
  <2>1. d \in Rw \cup stale \cup ro_pool
      BY <1>1 DEF Users, Homes
  <2> QED
      BY <2>1, <1>11, <1>20
<1>22. \A d \in stale \cup used : conn'[d].use = conn[d].use
    BY <1>1, <1>11, <1>16, <1>17, <1>19, SMTT(30) DEF Apart
<1>23. \A d \in ro_pool : f[d].use = conn[d].use
    BY <1>1, <1>11, <1>16, <1>19, SMTT(30) DEF Apart
<1>24. TypeOK'
    BY <1>1, <1>8, <1>9, <1>10, <1>17, <1>19 DEF TypeOK, ConnType
<1>25. Apart'
    BY <1>1, <1>9, <1>11, <1>12, <1>17, <1>19 DEF Apart
<1>26. Homes'
  <2> SUFFICES ASSUME NEW u \in Threads
               PROVE  /\ user[u].pc = "ro" => user[u].dom \in ro_pool'
                      /\ user[u].pc = "rw" => user[u].dom \in (Rw \cup stale)'
      BY <1>9 DEF Homes
  <2>1. PICK d : d = user[u].dom
      OBVIOUS
  <2>2. user[u].pc \in {"ro", "rw"} => u \in Users(d)
      BY <2>1 DEF Users
  <2>3. ASSUME user[u].pc = "ro" PROVE d \in ro_pool'
    <3>1. d \in ro_pool
        BY <2>1, <2>3, <1>1 DEF Homes
    <3>2. conn[d].use = 1
        BY <3>1, <2>2, <2>3, <1>1 DEF RoCounts
    <3> QED
        BY <3>1, <3>2, <1>17, <1>23, SMTT(30)
  <2>4. ASSUME user[u].pc = "rw" PROVE d \in stale'
    <3>1. d \in Rw \cup stale
        BY <2>1, <2>4, <1>1 DEF Homes
    <3> QED
        BY <3>1, <2>2, <2>4, <1>9, <1>20
  <2> QED
      BY <2>1, <2>3, <2>4
<1>27. RwCounts'
  <2>1. ASSUME NEW d \in made PROVE conn'[d].use >= Cardinality(Users(d)')
    <3>1. conn'[d].use = 0
        BY <1>11, <1>15, <1>17
    <3>2. Cardinality(Users(d)') = 0
        BY <1>18, <1>21, FS_EmptySet
    <3> QED
        BY <3>1, <3>2
  <2>2. \A d \in stale \cup used : conn'[d].use >= Cardinality(Users(d)')
      BY <1>1, <1>18, <1>19, <1>22 DEF RwCounts
  <2>3. \A d \in stale \cup used : conn'[d].use > 0
      BY <1>1, <1>2, <1>22 DEF RwCounts
  <2> QED
      BY <2>1, <2>2, <2>3, <1>9, <1>12 DEF RwCounts
<1>28. RoCounts'
    BY <1>1, <1>17, <1>18, <1>23 DEF RoCounts
<1> QED
    BY <1>17, <1>24, <1>25, <1>26, <1>27, <1>28 DEF IInv

\* A database error changes nothing that is counted.
LEMMA DisconnectStep ==
    ASSUME IInv, NEW c \in Conns, Disconnect(c)
    PROVE  IInv'
<1>1. TypeOK /\ Apart /\ Homes /\ RwCounts /\ RoCounts /\ WithinRoLimit
    BY DEF IInv
<1>2. /\ conn' = [conn EXCEPT ![c].up = FALSE]
      /\ UNCHANGED <<rw_conn, stale, ro_pool, active_cnt, ro_sem, user>>
      /\ Fault
    BY DEF Disconnect
<1>3. Rw' = Rw /\ \A d : Users(d)' = Users(d)
    BY <1>2 DEF Rw, Users
<1>4. conn' \in [Conns -> ConnType] /\ \A d \in Conns : conn'[d].use = conn[d].use
    BY <1>1, <1>2, Zenon DEF TypeOK, ConnType
<1>5. TypeOK'
    BY <1>1, <1>2, <1>4, DbConnAssumption DEF TypeOK, ConnType, Fault, DbConnAssumption
<1>6. Apart' /\ Homes' /\ WithinRoLimit'
    BY <1>1, <1>2, <1>3 DEF Apart, Homes, WithinRoLimit
<1>7. Rw \subseteq Conns /\ stale \subseteq Conns /\ ro_pool \subseteq Conns
    BY <1>1 DEF TypeOK, Rw
<1>8. RwCounts'
    BY <1>1, <1>2, <1>3, <1>4, <1>7 DEF RwCounts
<1>9. RoCounts'
    BY <1>1, <1>2, <1>3, <1>4, <1>7 DEF RoCounts
<1> QED
    BY <1>5, <1>6, <1>8, <1>9 DEF IInv

----------------------------------------------------------------------------
(* The theorems *)

\* The invariant holds when the process starts and after every call of the
\* connection manager, however the threads interleave.
THEOREM DbConnInvariance == Spec => []IInv
<1>1. Init => IInv
  <2> SUFFICES ASSUME Init PROVE IInv
      OBVIOUS
  <2>1. Rw = {} /\ stale = {} /\ ro_pool = {}
      BY DEF Init, NoRwConn, Rw
  <2>2. TypeOK
      BY DbConnAssumption, SMTT(30)
      DEF Init, NoRwConn, TypeOK, NewConn, Idle, DbConnAssumption
  <2>3. Apart /\ RwCounts /\ RoCounts
      BY <2>1 DEF Apart, RwCounts, RoCounts
  <2>4. Homes
      BY DEF Init, Homes, Idle
  <2>5. WithinRoLimit
      BY <2>1, FS_EmptySet, DbConnAssumption DEF Init, WithinRoLimit, DbConnAssumption
  <2> QED
      BY <2>2, <2>3, <2>4, <2>5 DEF IInv
<1>2. IInv /\ [Next]_vars => IInv'
  <2> SUFFICES ASSUME IInv, [Next]_vars PROVE IInv'
      OBVIOUS
  <2>1. CASE UNCHANGED vars
    <3>1. Rw' = Rw /\ \A d : Users(d)' = Users(d)
        BY <2>1 DEF vars, Rw, Users
    <3>2. TypeOK' /\ Apart' /\ Homes' /\ WithinRoLimit'
        BY <2>1, <3>1 DEF vars, IInv, TypeOK, Apart, Homes, WithinRoLimit
    <3>3. RwCounts' /\ RoCounts'
        BY <2>1, <3>1 DEF vars, IInv, RwCounts, RoCounts
    <3> QED
        BY <3>2, <3>3 DEF IInv
  <2>2. ASSUME NEW t \in Threads, NEW k \in Kinds, GetRwConn(t, k) PROVE IInv'
      BY <2>2, GetRwConnStep
  <2>3. ASSUME NEW t \in Threads, ReleaseRwConn(t) PROVE IInv'
      BY <2>3, ReleaseRwConnStep
  <2>4. ASSUME NEW t \in Threads, LeakRwConn(t) PROVE IInv'
      BY <2>4, LeakRwConnStep
  <2>5. ASSUME NEW t \in Threads, WaitRoConn(t) PROVE IInv'
      BY <2>5, WaitRoConnStep
  <2>6. ASSUME NEW t \in Threads, ReuseRoConn(t) PROVE IInv'
      BY <2>6, ReuseRoConnStep
  <2>7. ASSUME NEW t \in Threads, OpenRoConn(t) PROVE IInv'
      BY <2>7, OpenRoConnStep
  <2>8. ASSUME NEW t \in Threads, FailRoConn(t) PROVE IInv'
      BY <2>8, FailRoConnStep
  <2>9. ASSUME NEW t \in Threads, ReleaseRoConn(t) PROVE IInv'
      BY <2>9, ReleaseRoConnStep
  <2>10. ASSUME NEW active \in BOOLEAN, TerminateAndInitializeDbConns(active) PROVE IInv'
      BY <2>10, ReinitializeStep
  <2>11. ASSUME NEW c \in Conns, Disconnect(c) PROVE IInv'
      BY <2>11, DisconnectStep
  <2> QED
      BY <2>1, <2>2, <2>3, <2>4, <2>5, <2>6, <2>7, <2>8, <2>9, <2>10, <2>11 DEF Next
<1> QED
    BY <1>1, <1>2, PTL DEF Spec

\* The counts of the connection manager keep their type; the unsigned
\* active_ro_conns_cnt_ never wraps.
THEOREM DbConnTypeCorrect == Spec => []TypeOK
<1>1. IInv => TypeOK
    BY DEF IInv
<1> QED
    BY <1>1, DbConnInvariance, PTL

\* AcquireRoConn hands no read-only connection to two threads, and none that is
\* also a read-write connection.
THEOREM RoConnNotSharedHolds == Spec => []RoConnNotShared
<1>1. IInv => RoConnNotShared
  <2> SUFFICES ASSUME IInv, NEW c \in ro_pool
               PROVE  /\ Cardinality(Users(c)) = conn[c].use /\ conn[c].use <= 1
                      /\ c \notin Rw \cup stale
      BY DEF RoConnNotShared
  <2>1. c \notin Rw \cup stale
      BY DEF IInv, Apart
  <2>2. CASE conn[c].use = 0 /\ Users(c) = {}
      BY <2>1, <2>2, FS_EmptySet
  <2>3. CASE conn[c].use = 1 /\ \E t \in Threads : Users(c) = {t}
      BY <2>1, <2>3, FS_Singleton, SMTT(30)
  <2> QED
      BY <2>2, <2>3 DEF IInv, RoCounts
<1> QED
    BY <1>1, DbConnInvariance, PTL

\* No connection is deleted under a thread that uses it: not when the node becomes
\* active, and not by the release of another user.
THEOREM LivesWhileUsedHolds == Spec => []LivesWhileUsed
<1>1. IInv => LivesWhileUsed
  <2> SUFFICES ASSUME IInv PROVE LivesWhileUsed
      OBVIOUS
  <2>1. \A c \in stale : conn[c].use > 0
      BY DEF IInv, RwCounts
  <2>2. \A t \in Threads : user[t].pc = "ro" => user[t].dom \in ro_pool
      BY DEF IInv, Homes
  <2>3. \A t \in Threads : user[t].pc = "rw" =>
            /\ user[t].dom \in Rw \cup stale
            /\ conn[user[t].dom].use >= Cardinality(Users(user[t].dom))
      BY DEF IInv, Homes, RwCounts
  <2> QED
      BY <2>1, <2>2, <2>3 DEF LivesWhileUsed
<1> QED
    BY <1>1, DbConnInvariance, PTL

\* The pool of read-only connections never exceeds db_conn_ro_limit, although the
\* semaphore in front of it does not count its slots exactly.
THEOREM WithinRoLimitHolds == Spec => []WithinRoLimit
<1>1. IInv => WithinRoLimit
    BY DEF IInv
<1> QED
    BY <1>1, DbConnInvariance, PTL
=============================================================================
