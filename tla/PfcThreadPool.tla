--------------------------- MODULE PfcThreadPool ---------------------------
(***************************************************************************)
(* Thread pools and logical threads of the PFC core library                *)
(* (core/libs/libpfc/tpool.c, thread.c, thread_exit.c).                    *)
(*                                                                         *)
(* pfc_thread_createat registers a job (a logical thread) and hands it to  *)
(* a physical thread of a pool: one from the free list, or a new one as    *)
(* long as the pool is below its maximum.  After a job a physical thread   *)
(* goes back to the free list or quits.  A manager thread creates and      *)
(* deletes free threads in the background, a periodic reaper deletes the   *)
(* ones that have not been used for a while, jobs are joined and detached, *)
(* and one thread at a time tries to destroy the pool.                     *)
(*                                                                         *)
(* An action is what one thread does under the lock of the pool, or under  *)
(* that of a physical thread or a job when the pool's is not taken.  A     *)
(* lock that is taken below the pool's belongs to the same action.         *)
(***************************************************************************)
EXTENDS Integers, SequencesExt

CONSTANTS
    Threads,         \* physical thread instances
    Jobs,            \* logical threads; each is created at most once
    ThreadMax,             \* tp_max
    FreeMax,         \* tp_free_max
    FreeMin,         \* tp_free_min
    Reap,            \* tp_reap
    MayTimeOut,      \* whether joins and the destruction are given a timeout
    LockTimesOut,    \* whether that timeout may end in a wait for a thread's lock
    NoJob, NoThread

ASSUME ConstantsAssumption ==
    /\ ThreadMax \in Nat \ {0} /\ FreeMax \in 0..ThreadMax /\ FreeMin \in 0..FreeMax
    /\ Reap \in Nat /\ MayTimeOut \in BOOLEAN /\ LockTimesOut \in BOOLEAN
    /\ Cardinality(Threads) >= ThreadMax /\ NoJob \notin Jobs /\ NoThread \notin Threads

VARIABLES
    pool,       \* the tpool_t, and whether it is in thread_pools
    thr,        \* the tpool_thread_t of every physical thread, and where it is
    job,        \* the tpool_job_t of every job, and where its creator is
    joiner,     \* where the thread is that joins a job
    mgr,        \* the manager thread and its queue
    destroyer,  \* the thread in pfc_tpool_destroy
    ran,        \* history: how often the function of a job was called
    freed,      \* history: how often a tpool_job_t was freed
    visited     \* whether a caller that found a job by its id has it locked

vars == <<pool, thr, job, joiner, mgr, destroyer, ran, freed, visited>>

----------------------------------------------------------------------------
(* Data structures *)

\* pfc_tpool_create_impl.
NewPool == [visible |-> TRUE, shutdown |-> FALSE, freed |-> FALSE,
            free |-> <<>>, nthreads |-> 0, nfree |-> 0, refcnt |-> 1,
            lastreap |-> 0, created |-> FALSE]

\* A thread instance that is not in use, and one that has just been created.
\* "getjob": the thread is about to take its lock and look for a job.
NoInstance == [pc |-> "none", job |-> NoJob, shutdown |-> FALSE, aged |-> FALSE]
NewInstance == [NoInstance EXCEPT !.pc = "getjob"]

\* A job that has not been created yet.
NewJob == [pc |-> "idle", thread |-> NoThread, state |-> "none",
           detached |-> FALSE, joining |-> FALSE]

\* TPOOL_NEED_EXPANDED and TPOOL_NEED_SHRUNK.
NeedExpanded(p) == p.nfree < FreeMin /\ p.nthreads < ThreadMax
NeedShrunk(p) == p.nfree > FreeMax

\* Slip: the manager's request does not hold the pool.
AdjustAsyncUnheld(p, m) ==
    [pool |-> p, mgr |-> IF m.up THEN [m EXCEPT !.queue = @ + 1] ELSE m]

\* pfc_tpool_adjust_async: the pool is held and queued for the manager.
AdjustAsync(p, m) ==
    [pool |-> [p EXCEPT !.refcnt = @ + 1],
     mgr  |-> IF m.up THEN [m EXCEPT !.queue = @ + 1] ELSE m]

\* pfc_tpool_release.
Release(p) == [p EXCEPT !.refcnt = @ - 1, !.freed = p.refcnt = 1]

\* The threads S are told to quit, and are woken if they wait.
Shut(ts, S) ==
    [t \in Threads |-> IF t \notin S THEN ts[t]
        ELSE [ts[t] EXCEPT !.shutdown = TRUE,
                           !.pc = IF @ = "wait" THEN "getjob" ELSE @]]

\* pfc_tpool_nthreads_dec, on the pool p and the manager's state m.
nthreads_dec(p, m) ==
    LET q == [p EXCEPT !.nthreads = @ - 1]
        a == IF ~q.shutdown /\ (NeedExpanded(q) \/ NeedShrunk(q))
             THEN AdjustAsync(q, m) ELSE [pool |-> q, mgr |-> m]
    IN  /\ pool' = a.pool /\ mgr' = a.mgr
        /\ destroyer' = IF q.shutdown /\ q.nthreads = 0 /\ destroyer = "wait"
                        THEN "woken" ELSE destroyer

\* pfc_thread_job_destroy, and the end of pfc_thread_createat on an error.
FreeJob(js, j) ==
    /\ job' = [js EXCEPT ![j].state = "freed"]
    /\ freed' = [freed EXCEPT ![j] = @ + 1]

----------------------------------------------------------------------------
(* Creating a logical thread *)

\* pfc_tpool_create after the pool has become visible: one with a minimum of
\* free threads is filled in the background.
Create ==
    LET p == [pool EXCEPT !.created = TRUE]
        a == IF FreeMin # 0 THEN AdjustAsync(p, mgr) ELSE [pool |-> p, mgr |-> mgr]
    IN  /\ ~pool.created
        /\ pool' = a.pool /\ mgr' = a.mgr
        /\ UNCHANGED <<thr, job, joiner, destroyer, ran, freed, visited>>

\* pfc_thread_createat up to pfc_tpool_dispatch: the job is registered.
Createat(j, detached) ==
    /\ job[j].pc = "idle"
    /\ job' = [job EXCEPT ![j] = [NewJob EXCEPT !.pc = "get", !.state = "active",
                                                !.detached = detached]]
    /\ UNCHANGED <<pool, thr, joiner, mgr, destroyer, ran, freed, visited>>

\* pfc_tpool_thread_get: a free thread is taken, or a new one is counted in,
\* or the creation of the job fails.
ThreadGet(j) ==
    /\ job[j].pc = "get"
    /\ \/ /\ ~pool.visible \/ pool.shutdown
          /\ FreeJob([job EXCEPT ![j].pc = "done"], j)
          /\ UNCHANGED <<pool, mgr>>
       \/ /\ pool.visible /\ ~pool.shutdown /\ pool.free # <<>>
          /\ LET p == [pool EXCEPT !.free = Tail(@), !.nfree = @ - 1]
                 a == IF NeedExpanded(p) THEN AdjustAsync(p, mgr)
                      ELSE [pool |-> p, mgr |-> mgr]
             IN  pool' = a.pool /\ mgr' = a.mgr
          /\ job' = [job EXCEPT ![j].pc = "give", ![j].thread = Head(pool.free)]
          /\ UNCHANGED freed
       \/ /\ pool.visible /\ ~pool.shutdown /\ pool.free = <<>>
          /\ pool.nthreads >= ThreadMax
          /\ FreeJob([job EXCEPT ![j].pc = "done"], j)
          /\ UNCHANGED <<pool, mgr>>
       \/ /\ pool.visible /\ ~pool.shutdown /\ pool.free = <<>>
          /\ pool.nthreads < ThreadMax
          /\ pool' = [pool EXCEPT !.nthreads = @ + 1]
          /\ job' = [job EXCEPT ![j].pc = "create"]
          /\ UNCHANGED <<mgr, freed>>
    /\ UNCHANGED <<thr, joiner, destroyer, ran, visited>>

\* pfc_tpool_thread_create after the thread was counted, up to the end of its
\* initialisation, which its creator waits for; or the failure of one of them.
ThreadCreate(j) ==
    /\ job[j].pc = "create"
    /\ \/ /\ \E t \in Threads :
               /\ thr[t].pc = "none"
               /\ thr' = [thr EXCEPT ![t] = NewInstance]
               /\ job' = [job EXCEPT ![j].pc = "give", ![j].thread = t]
          /\ UNCHANGED <<pool, mgr, destroyer, freed>>
       \/ /\ nthreads_dec(pool, mgr)
          /\ FreeJob([job EXCEPT ![j].pc = "done"], j)
          /\ UNCHANGED thr
    /\ UNCHANGED <<joiner, ran, visited>>

\* The rest of pfc_tpool_dispatch: the thread gets the job.  If it is about
\* to quit another one is looked for.
GiveJob(j) ==
    LET t == job[j].thread
    IN  /\ job[j].pc = "give"
        /\ IF thr[t].shutdown
           THEN job' = [job EXCEPT ![j].pc = "get"] /\ UNCHANGED thr
           ELSE /\ thr' = [thr EXCEPT ![t].job = j,
                                      ![t].pc = IF @ = "wait" THEN "getjob" ELSE @]
                /\ job' = [job EXCEPT ![j].pc = "done", ![j].thread = NoThread]
        /\ UNCHANGED <<pool, joiner, mgr, destroyer, ran, freed, visited>>

----------------------------------------------------------------------------
(* Physical threads *)

\* Slip: the thread goes to sleep without another look at its job.
ThreadGetJobLate(t) ==
    /\ thr[t].pc = "getjob"
    /\ thr' = [thr EXCEPT ![t].pc = IF thr[t].shutdown THEN "quit" ELSE "wait"]
    /\ UNCHANGED <<pool, job, joiner, mgr, destroyer, ran, freed, visited>>

\* pfc_tpool_thread_get_job.
ThreadGetJob(t) ==
    /\ thr[t].pc = "getjob"
    /\ \/ /\ thr[t].job # NoJob
          /\ thr' = [thr EXCEPT ![t].pc = "run", ![t].aged = FALSE]
       \/ /\ thr[t].job = NoJob /\ thr[t].shutdown
          /\ thr' = [thr EXCEPT ![t].pc = "quit"]
       \/ /\ thr[t].job = NoJob /\ ~thr[t].shutdown
          /\ thr' = [thr EXCEPT ![t].pc = "wait"]
    /\ UNCHANGED <<pool, job, joiner, mgr, destroyer, ran, freed, visited>>

\* pfc_thread_cleanup of the job j up to the unlock of the job: it is done, and
\* a thread that joins it is woken unless it is detached.
Cleanup(j) ==
    /\ ~visited[j]
    /\ job' = [job EXCEPT ![j].state = "done"]
    /\ joiner' = IF ~job[j].detached /\ job[j].joining /\ joiner[j] = "wait"
                 THEN [joiner EXCEPT ![j] = "woken"] ELSE joiner
    /\ ran' = [ran EXCEPT ![j] = @ + 1]

\* The function of the job has returned, or it has called pfc_thread_exit and
\* the physical thread quits.
EndDispatch(t) ==
    \/ thr' = [thr EXCEPT ![t].pc = "finish"]
    \/ thr' = [thr EXCEPT ![t].pc = "quit", ![t].job = NoJob]

\* pfc_thread_dispatch: a detached job is still to be freed.
ThreadRun(t) ==
    /\ thr[t].pc = "run"
    /\ Cleanup(thr[t].job)
    /\ IF job[thr[t].job].detached THEN thr' = [thr EXCEPT ![t].pc = "free"]
       ELSE EndDispatch(t)
    /\ UNCHANGED <<pool, mgr, destroyer, freed, visited>>

\* The rest of pfc_thread_cleanup for a detached job, whose lock is free.
ThreadFreeJob(t) ==
    /\ thr[t].pc = "free"
    /\ FreeJob(job, thr[t].job)
    /\ EndDispatch(t)
    /\ UNCHANGED <<pool, joiner, mgr, destroyer, ran, visited>>

\* Slip: a thread that comes back is not counted as a free one.
ThreadFinishUncounted(t) ==
    /\ thr[t].pc = "finish"
    /\ IF pool.nfree >= FreeMax \/ pool.shutdown
       THEN /\ thr' = [thr EXCEPT ![t].pc = "quit", ![t].job = NoJob]
            /\ UNCHANGED pool
       ELSE /\ thr' = [thr EXCEPT ![t].pc = "getjob", ![t].job = NoJob]
            /\ pool' = [pool EXCEPT !.free = <<t>> \o @]
    /\ UNCHANGED <<job, joiner, mgr, destroyer, ran, freed, visited>>

\* The end of the loop of pfc_tpool_thread_main: back to the free list,
\* unless there are enough free threads or the pool is shut down.
ThreadFinish(t) ==
    /\ thr[t].pc = "finish"
    /\ IF pool.nfree >= FreeMax \/ pool.shutdown
       THEN /\ thr' = [thr EXCEPT ![t].pc = "quit", ![t].job = NoJob]
            /\ UNCHANGED pool
       ELSE /\ thr' = [thr EXCEPT ![t].pc = "getjob", ![t].job = NoJob]
            /\ pool' = [pool EXCEPT !.free = <<t>> \o @, !.nfree = @ + 1]
    /\ UNCHANGED <<job, joiner, mgr, destroyer, ran, freed, visited>>

\* pfc_tpool_thread_cleanup.
ThreadQuit(t) ==
    /\ thr[t].pc = "quit"
    /\ thr' = [thr EXCEPT ![t] = NoInstance]
    /\ nthreads_dec(pool, mgr)
    /\ UNCHANGED <<job, joiner, ran, freed, visited>>

----------------------------------------------------------------------------
(* The manager thread and the reaper *)

\* pfc_tpool_mgr_adjust up to the first thread it creates.
MgrAdjust ==
    LET surplus == SubSeq(pool.free, 1, pool.nfree - FreeMax)
        avail   == ThreadMax - pool.nthreads
        want    == FreeMin - pool.nfree
        new     == IF want > avail THEN avail ELSE want
        next    == [mgr EXCEPT !.queue = @ - 1]
    IN  /\ mgr.pc = "idle" /\ mgr.queue > 0
        /\ \/ /\ ~pool.shutdown /\ pool.nfree > FreeMax
              /\ pool' = Release([pool EXCEPT !.nfree = FreeMax,
                                    !.free = SubSeq(@, Len(surplus) + 1, Len(@))])
              /\ thr' = Shut(thr, ToSet(surplus))
              /\ mgr' = next
           \/ /\ ~pool.shutdown /\ pool.nfree <= FreeMax /\ new > 0
              /\ pool' = [pool EXCEPT !.nthreads = @ + 1]
              /\ mgr' = [next EXCEPT !.pc = "create", !.left = new]
              /\ UNCHANGED thr
           \/ /\ pool.shutdown \/ (pool.nfree <= FreeMax /\ new <= 0)
              /\ pool' = Release(pool) /\ mgr' = next /\ UNCHANGED thr
        /\ UNCHANGED <<job, joiner, destroyer, ran, freed, visited>>

\* pfc_tpool_thread_create on the manager thread; when it fails the manager
\* gives up.
MgrCreate ==
    /\ mgr.pc = "create"
    /\ \/ /\ \E t \in Threads :
               /\ thr[t].pc = "none"
               /\ thr' = [thr EXCEPT ![t] = NewInstance]
               /\ mgr' = [mgr EXCEPT !.pc = "push", !.thread = t, !.left = @ - 1]
          /\ UNCHANGED <<pool, destroyer>>
       \/ /\ nthreads_dec(pool, [mgr EXCEPT !.pc = "release", !.left = 0])
          /\ UNCHANGED thr
    /\ UNCHANGED <<job, joiner, ran, freed, visited>>

\* The new thread goes to the free list, unless the pool was shut down
\* meanwhile, and the next one is created.
MgrPush ==
    LET t == mgr.thread
        p == [pool EXCEPT !.free = <<t>> \o @, !.nfree = @ + 1]
        more == p.nfree < FreeMin /\ mgr.left > 0 /\ p.nthreads < ThreadMax
        done == [mgr EXCEPT !.pc = "idle", !.thread = NoThread, !.left = 0]
    IN  /\ mgr.pc = "push"
        /\ \/ /\ pool.shutdown
              /\ thr' = Shut(thr, {t}) /\ pool' = Release(pool) /\ mgr' = done
           \/ /\ ~pool.shutdown
              /\ pool' = IF more THEN [p EXCEPT !.nthreads = @ + 1] ELSE Release(p)
              /\ mgr' = IF more THEN [mgr EXCEPT !.pc = "create", !.thread = NoThread]
                                ELSE done
              /\ UNCHANGED thr
        /\ UNCHANGED <<job, joiner, destroyer, ran, freed, visited>>

\* pfc_tpool_release at the end of pfc_tpool_mgr_adjust, after a failure.
MgrRelease ==
    /\ mgr.pc = "release"
    /\ pool' = Release(pool) /\ mgr' = [mgr EXCEPT !.pc = "idle"]
    /\ UNCHANGED <<thr, job, joiner, destroyer, ran, freed, visited>>

\* pfc_tpool_reap, pfc_tpool_shrink and pfc_tpool_delete_aged: of the threads
\* beyond the minimum those are deleted that were free at the last reaping
\* and have not run since; the others are marked.
Reaper ==
    LET excess == pool.nfree - FreeMin
        n      == IF excess > Reap THEN Reap ELSE excess
        aged   == SelectSeq(pool.free, LAMBDA t : thr[t].aged)
        old    == ToSet(SubSeq(aged, 1, IF n < Len(aged) THEN n ELSE Len(aged)))
        kept   == SelectSeq(pool.free, LAMBDA t : t \notin old)
        shrink == ~pool.shutdown /\ pool.nthreads <= pool.lastreap /\ n > 0
    IN  /\ pool.visible
        /\ pool' = IF shrink
                   THEN [pool EXCEPT !.free = kept, !.lastreap = pool.nthreads,
                                     !.nfree = @ - Cardinality(old)]
                   ELSE [pool EXCEPT !.lastreap = pool.nthreads]
        /\ thr' = IF ~shrink THEN thr
                  ELSE LET ts == Shut(thr, old)
                       IN  [t \in Threads |-> IF t \in ToSet(kept)
                                THEN [ts[t] EXCEPT !.aged = TRUE] ELSE ts[t]]
        /\ UNCHANGED <<job, joiner, mgr, destroyer, ran, freed, visited>>

----------------------------------------------------------------------------
(* Joining and detaching *)

\* pfc_tidhash_get: a job that is registered, by the id that its creator has
\* returned.  The caller gets its lock, which nobody else has.
TidHashGet(j) == job[j].pc = "done" /\ job[j].state # "freed" /\ ~visited[j]

\* pfc_thread_timedjoin up to its wait, or up to its unlock if the job is done.
Join(j) ==
    /\ TidHashGet(j)
    /\ ~job[j].joining /\ ~job[j].detached
    /\ job' = [job EXCEPT ![j].joining = TRUE]
    /\ joiner' = [joiner EXCEPT ![j] = IF job[j].state = "active" THEN "wait"
                                                                 ELSE "free"]
    /\ UNCHANGED <<pool, thr, mgr, destroyer, ran, freed, visited>>

\* pfc_thread_timedjoin after its wait, up to its next wait or its unlock.
JoinResume(j) ==
    /\ ~visited[j]
    /\ \/ /\ joiner[j] \in {"woken", "timedout"} /\ job[j].state = "done"
          /\ joiner' = [joiner EXCEPT ![j] = "free"]
          /\ UNCHANGED job
       \/ /\ joiner[j] = "woken" /\ job[j].state = "active"
          /\ joiner' = [joiner EXCEPT ![j] = "wait"]
          /\ UNCHANGED job
       \/ /\ joiner[j] = "timedout" /\ job[j].state = "active"
          /\ joiner' = [joiner EXCEPT ![j] = "idle"]
          /\ job' = [job EXCEPT ![j].joining = FALSE]
    /\ UNCHANGED <<pool, thr, mgr, destroyer, ran, freed, visited>>

\* pfc_thread_job_destroy at the end of pfc_thread_timedjoin.
JoinFreeJob(j) ==
    /\ joiner[j] = "free"
    /\ FreeJob(job, j)
    /\ joiner' = [joiner EXCEPT ![j] = "idle"]
    /\ UNCHANGED <<pool, thr, mgr, destroyer, ran, visited>>

JoinTimeOut(j) ==
    /\ MayTimeOut /\ joiner[j] = "wait"
    /\ joiner' = [joiner EXCEPT ![j] = "timedout"]
    /\ UNCHANGED <<pool, thr, job, mgr, destroyer, ran, freed, visited>>

\* Slip: a job that is joined can be detached.
DetachJoined(j) ==
    /\ TidHashGet(j) /\ job[j].state = "active" /\ ~job[j].detached
    /\ job' = [job EXCEPT ![j].detached = TRUE]
    /\ UNCHANGED <<pool, thr, joiner, mgr, destroyer, ran, freed, visited>>

\* pfc_thread_detach.
Detach(j) ==
    /\ TidHashGet(j) /\ job[j].state = "active"
    /\ ~job[j].joining /\ ~job[j].detached
    /\ job' = [job EXCEPT ![j].detached = TRUE]
    /\ UNCHANGED <<pool, thr, joiner, mgr, destroyer, ran, freed, visited>>

\* The other calls of pfc_thread_timedjoin and pfc_thread_detach: they find the
\* job, are refused or have nothing to do, and unlock it again.
Visit(j) ==
    /\ TidHashGet(j)
    /\ job[j].joining \/ job[j].detached \/ job[j].state = "done"
    /\ visited' = [visited EXCEPT ![j] = TRUE]
    /\ UNCHANGED <<pool, thr, job, joiner, mgr, destroyer, ran, freed>>

Leave(j) ==
    /\ visited[j]
    /\ visited' = [visited EXCEPT ![j] = FALSE]
    /\ UNCHANGED <<pool, thr, job, joiner, mgr, destroyer, ran, freed>>

----------------------------------------------------------------------------
(* Destroying the pool *)

\* pfc_tpool_destroy waits until all threads have quit.
AwaitQuit(p) ==
    /\ pool' = p
    /\ destroyer' = IF p.nthreads # 0 THEN "wait" ELSE "remove"

\* Slip: the threads told to quit stay on the free list.
DestroyKeepsList ==
    /\ destroyer = "idle" /\ pool.created /\ pool.visible /\ ~pool.shutdown
    /\ thr' = Shut(thr, ToSet(pool.free))
    /\ AwaitQuit([pool EXCEPT !.shutdown = TRUE])
    /\ UNCHANGED <<job, joiner, mgr, ran, freed, visited>>

\* pfc_tpool_destroy up to its wait: the free threads are told to quit.  The
\* timeout may expire while it waits for the lock of one of them, which is
\* then off the free list.
Destroy ==
    /\ destroyer = "idle" /\ pool.created /\ pool.visible /\ ~pool.shutdown
    /\ \/ /\ thr' = Shut(thr, ToSet(pool.free))
          /\ AwaitQuit([pool EXCEPT !.shutdown = TRUE, !.free = <<>>, !.nfree = 0])
       \/ /\ MayTimeOut /\ LockTimesOut
          /\ \E k \in 1..Len(pool.free) :
                /\ thr[pool.free[k]].pc = "getjob"
                /\ thr' = Shut(thr, ToSet(SubSeq(pool.free, 1, k - 1)))
                /\ pool' = [pool EXCEPT !.free = SubSeq(@, k + 1, Len(@))]
          /\ UNCHANGED destroyer
    /\ UNCHANGED <<job, joiner, mgr, ran, freed, visited>>

DestroyResume ==
    /\ destroyer = "woken"
    /\ AwaitQuit(pool)
    /\ UNCHANGED <<thr, job, joiner, mgr, ran, freed, visited>>

\* The timeout expires, and the pool is in service again.
DestroyTimeOut ==
    /\ MayTimeOut /\ destroyer \in {"wait", "woken"}
    /\ pool' = [pool EXCEPT !.shutdown = FALSE]
    /\ destroyer' = "idle"
    /\ UNCHANGED <<thr, job, joiner, mgr, ran, freed, visited>>

\* The end of pfc_tpool_destroy.
DestroyRemove ==
    /\ destroyer = "remove"
    /\ pool' = Release([pool EXCEPT !.visible = FALSE])
    /\ destroyer' = "done"
    /\ UNCHANGED <<thr, job, joiner, mgr, ran, freed, visited>>

\* pfc_tpool_fini: the manager's queue is cleared and closed, and the pool is
\* shut down.
Fini ==
    /\ mgr.up
    /\ mgr' = [mgr EXCEPT !.up = FALSE, !.queue = 0]
    /\ pool' = IF pool.visible THEN [pool EXCEPT !.shutdown = TRUE] ELSE pool
    /\ UNCHANGED <<thr, job, joiner, destroyer, ran, freed, visited>>

\* POSIX allows a wait for a condition variable to return without a signal.
SpuriousWakeUp ==
    /\ \/ /\ \E t \in Threads : /\ thr[t].pc = "wait"
                                /\ thr' = [thr EXCEPT ![t].pc = "getjob"]
          /\ UNCHANGED <<joiner, destroyer>>
       \/ /\ \E j \in Jobs : /\ joiner[j] = "wait"
                             /\ joiner' = [joiner EXCEPT ![j] = "woken"]
          /\ UNCHANGED <<thr, destroyer>>
       \/ /\ destroyer = "wait" /\ destroyer' = "woken"
          /\ UNCHANGED <<thr, joiner>>
    /\ UNCHANGED <<pool, job, mgr, ran, freed, visited>>

----------------------------------------------------------------------------
(* Specification *)

Init ==
    /\ pool = NewPool
    /\ thr = [t \in Threads |-> NoInstance]
    /\ job = [j \in Jobs |-> NewJob]
    /\ joiner = [j \in Jobs |-> "idle"]
    /\ mgr = [pc |-> "idle", left |-> 0, thread |-> NoThread, queue |-> 0,
              up |-> TRUE]
    /\ destroyer = "idle"
    /\ ran = [j \in Jobs |-> 0] /\ freed = [j \in Jobs |-> 0]
    /\ visited = [j \in Jobs |-> FALSE]

CreatorStep(j) == ThreadGet(j) \/ ThreadCreate(j) \/ GiveJob(j)
ThreadStep(t) ==
    \/ ThreadGetJob(t) \/ ThreadRun(t) \/ ThreadFreeJob(t)
    \/ ThreadFinish(t) \/ ThreadQuit(t)
MgrStep == MgrAdjust \/ MgrCreate \/ MgrPush \/ MgrRelease

Next ==
    \/ \E j \in Jobs :
          \/ \E detached \in BOOLEAN : Createat(j, detached)
          \/ CreatorStep(j)
          \/ Join(j) \/ JoinResume(j) \/ JoinFreeJob(j) \/ JoinTimeOut(j)
          \/ Detach(j) \/ Visit(j) \/ Leave(j)
    \/ \E t \in Threads : ThreadStep(t)
    \/ Create \/ MgrStep \/ Reaper
    \/ Destroy \/ DestroyResume \/ DestroyTimeOut \/ DestroyRemove
    \/ Fini \/ SpuriousWakeUp

Spec == Init /\ [][Next]_vars

----------------------------------------------------------------------------
(* Properties *)

Creating == {j \in Jobs : job[j].pc = "create"}
Given == {job[j].thread : j \in {i \in Jobs : job[i].pc = "give"}}

\* The type invariant, which also says that nthreads counts the threads in use
\* and those being created, and nfree the free list.
TypeOK ==
    /\ thr \in [Threads -> [pc : {"none", "getjob", "wait", "run", "free", "finish",
                                  "quit"},
                            job : Jobs \cup {NoJob}, shutdown : BOOLEAN,
                            aged : BOOLEAN]]
    /\ pool.nthreads = Cardinality({t \in Threads : thr[t].pc # "none"})
          + Cardinality(Creating) + (IF mgr.pc = "create" THEN 1 ELSE 0)
    /\ pool.nthreads <= ThreadMax
    /\ pool.nfree = Len(pool.free)
    /\ destroyer \in {"idle", "wait", "woken", "remove", "done"}

\* A physical thread that has nothing to do is in the hands of exactly one who
\* will give it a job or tell it to quit: it is on the free list once, with one
\* caller, or with the manager.  Were it with two, one would use a thread that is
\* told to quit (pfc_tpool_dispatch would then loop without the lock of the pool);
\* with nobody it would be counted for ever.
ThreadHasOneOwner ==
    /\ \A t \in ToSet(pool.free) \cup Given :
          thr[t].pc \in {"getjob", "wait"} /\ thr[t].job = NoJob /\ ~thr[t].shutdown
    /\ IsInjective(pool.free)
    /\ ToSet(pool.free) \cap Given = {}
    /\ mgr.thread \notin ToSet(pool.free) \cup Given
    /\ \A i, j \in Jobs : job[i].pc = "give" /\ job[j].pc = "give"
                             /\ job[i].thread = job[j].thread => i = j
    /\ \A t \in Threads :
          thr[t].pc \in {"getjob", "wait"} /\ thr[t].job = NoJob /\ ~thr[t].shutdown =>
             t \in ToSet(pool.free) \cup Given \cup {mgr.thread}

\* The job a thread was given does not wait for a wake-up that was lost, and
\* its function is called once.
GivenJobRuns ==
    /\ \A t \in Threads : thr[t].job # NoJob => thr[t].pc \notin {"wait", "quit"}
    /\ \A j \in Jobs : /\ ran[j] <= 1
                       /\ job[j].state = "done" => ran[j] = 1

Freers(j) == {t \in Threads : thr[t].pc = "free" /\ thr[t].job = j}

\* The flags of a tpool_job_t let one of its creator, the thread that runs it and
\* the one that joins it free it, once, and not before the other two are through
\* with it.  Nothing is said of callers that are refused: see JobFreedUnused.
JobFreedOnce ==
    \A j \in Jobs :
        /\ freed[j] + Cardinality(Freers(j)) + (IF joiner[j] = "free" THEN 1 ELSE 0) <= 1
        /\ freed[j] > 0 \/ joiner[j] = "free" \/ Freers(j) # {} =>
              /\ job[j].pc = "done"
              /\ joiner[j] \in {"idle", "free"}
              /\ \A t \in Threads : thr[t].job = j => thr[t].pc \in {"free", "finish"}

\* A job is freed when nobody has it locked (thread.c:774, "We can free job
\* instance here.").  The code unlocks it first and takes it out of the hash
\* afterwards, so that a join or a detach that is to be refused may still get it.
JobFreedUnused == \A j \in Jobs : job[j].state = "freed" => ~visited[j]

\* The pool is freed after the last thread, the last request of the manager
\* and the last creator have let go of it; and the thread in pfc_tpool_destroy,
\* which may wait without a limit, does not sleep once the last thread has quit.
PoolOutlivesUsers ==
    /\ pool.freed => /\ \A t \in Threads : thr[t].pc = "none"
                     /\ Creating = {} /\ Given = {}
                     /\ mgr.pc = "idle" /\ mgr.queue = 0
    /\ destroyer = "wait" => pool.nthreads # 0
=============================================================================
