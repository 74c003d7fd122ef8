--------------------------- MODULE PfcTaskQueue ---------------------------
(***************************************************************************)
(* The task queue of the PFC core library (core/libs/libpfc/taskq.c).      *)
(*                                                                         *)
(* Every module of the coordinator hands work to task queues: timers, IPC  *)
(* events, the events of UPLL and UPPL, the launcher.  A queue has a list  *)
(* of queued tasks, a list of running ones, and dispatcher threads that    *)
(* come from a thread pool when there is work and leave after a while      *)
(* without any.  When the pool has no thread left, one reserve thread,     *)
(* shared by all queues, runs the tasks of a queue without dispatchers.    *)
(* Callers dispatch, cancel and join tasks, flush and clear the queue, and *)
(* one of them destroys it.                                                *)
(*                                                                         *)
(* All of it is guarded by the mutex of the queue, so that an action is    *)
(* what one thread does between taking the mutex and giving it up, in a    *)
(* wait for a condition variable or by unlocking it.  A thread that is     *)
(* woken, or whose wait has timed out, still has to take the mutex: the    *)
(* state of the queue may change before it does.                           *)
(***************************************************************************)
EXTENDS Integers, Sequences, FiniteSetsExt

CONSTANTS
    Dispatchers,     \* threads that may run taskq_main for the queue
    Clients,         \* callers of the interface of the queue
    Concurrency,     \* tq_concurrency
    MaxTasks,        \* bound: task identifiers given out
    QueueLimit,      \* taskq_max_tasks; zero for no limit
    MaxFree,         \* bound: values for pfc_taskq_set_free
    MayTimeOut,      \* whether joins, flushes and clears are given a timeout
    NoTask           \* no task at all

ASSUME ConstantsAssumption ==
    /\ Concurrency \in Nat \ {0} /\ MaxTasks \in Nat /\ QueueLimit \in Nat
    /\ MaxFree \in Nat /\ MayTimeOut \in BOOLEAN
    /\ NoTask \notin 1..MaxTasks

VARIABLES
    tq,          \* the taskq_t, and whether it is found in taskq_tree
    task,        \* the task_t of every identifier
    disp,        \* what every dispatcher is doing, and on which task
    reserve,     \* the same of the reserve thread
    reserveReq,  \* how many requests for the queue are in taskq_reserve_req
    client,      \* what every caller is doing
    destroyer,   \* the thread that destroys the queue
    ended,       \* history: tasks whose function has returned, or that were
                 \* cancelled before they ran
    destructed,  \* history: how often the destructor of a task was called
    early        \* history: tasks that a flush or clear has told its caller to
                 \* be over and that were not

vars == <<tq, task, disp, reserve, reserveReq, client, destroyer,
          ended, destructed, early>>
history == <<ended, destructed, early>>

Tasks == 1..MaxTasks

----------------------------------------------------------------------------
(* Data structures *)

\* typedef struct task: its kind stands for TASK_FLAG_DETACHED and
\* TASK_FLAG_SYNC, waiter for TASK_FLAG_HASWAITER.
Task == [kind : {"detached", "joinable", "sync"}, waiter : BOOLEAN,
         state : {"none", "queued", "inprogress", "done"}]

\* An identifier that has not been given out.
NewTask == [kind |-> "detached", waiter |-> FALSE, state |-> "none"]

\* pfc_taskq_task_remove: the tasks S leave tq_tasktree.
Removed(ts, S) ==
    [t \in Tasks |-> IF t \in S THEN [ts[t] EXCEPT !.state = "none"] ELSE ts[t]]

\* The tasks in tq_tasktree.
Tree(ts) == {t \in Tasks : ts[t].state # "none"}

\* taskq_alloc, and the counters and lists it clears.
NewQueue == [state |-> "live", tasklist |-> <<>>, running |-> <<>>,
             nthreads |-> 0, nreserve |-> 0, nfree |-> 0, njoin |-> 0,
             maxfree |-> 0, next |-> 1]

ntasks(q) == Len(q.tasklist)

Idle == [pc |-> "none", task |-> NoTask]
IdleClient == [pc |-> "idle", call |-> "none", task |-> NoTask,
               before |-> {}]

\* The destructors of a set of tasks are called; a sync task has none.
Destruct(ts, S) ==
    destructed' = [t \in Tasks |->
        IF t \in S /\ ts[t].kind # "sync" THEN destructed[t] + 1
                                         ELSE destructed[t]]

----------------------------------------------------------------------------
(* Condition variables *)

\* Threads that wait for tq_dispcond, and callers that wait for tq_joincond.
DispWaiting == {d \in Dispatchers : disp[d].pc \in {"wait", "stay"}}
JoinWaiting == {c \in Clients : client[c].pc = "wait"}

\* pfc_cond_signal(&tq_dispcond): one waiting dispatcher is woken, if there
\* is one.  ds are the dispatchers after the rest of the step.
SignalDispatcher(ds) ==
    IF DispWaiting = {} THEN disp' = ds
    ELSE \E d \in DispWaiting : disp' = [ds EXCEPT ![d].pc = "woken"]

\* pfc_cond_broadcast(&tq_joincond), if cond holds: it wakes the joiners and
\* the destroyer.
BroadcastJoin(cond) ==
    /\ client' = [c \in Clients |-> IF cond /\ c \in JoinWaiting
                                    THEN [client[c] EXCEPT !.pc = "woken"]
                                    ELSE client[c]]
    /\ destroyer' = IF cond /\ destroyer = "wait" THEN "woken" ELSE destroyer

----------------------------------------------------------------------------
(* Taking tasks off the queue *)

\* What is left of a list without the tasks S.
Without(list, S) == SelectSeq(list, LAMBDA t : t \notin S)

\* The sync tasks at the head of a list.
LeadingSyncs(list, ts) ==
    LET others == {i \in DOMAIN list : ts[list[i]].kind # "sync"}
    IN  IF others = {} THEN list ELSE SubSeq(list, 1, Min(others) - 1)

\* The sync tasks S are done: one that nobody waits for is removed.
SyncsDone(ts, S) ==
    [t \in Tasks |-> IF t \notin S THEN ts[t]
                     ELSE IF ts[t].waiter THEN [ts[t] EXCEPT !.state = "done"]
                     ELSE [ts[t] EXCEPT !.state = "none"]]

\* taskq_prepare_calling: the first task that is not a sync task starts to
\* run.  The sync tasks before it are done when nothing is running, or else
\* queue up behind what is running.
taskq_prepare_calling(q, ts) ==
    LET syncs == LeadingSyncs(q.tasklist, ts)
        rest  == SubSeq(q.tasklist, Len(syncs) + 1, Len(q.tasklist))
        tp    == IF rest = <<>> THEN NoTask ELSE Head(rest)
        calm  == q.running = <<>>
        ts1   == IF calm THEN SyncsDone(ts, Range(syncs))
                 ELSE [t \in Tasks |-> IF t \in Range(syncs)
                                       THEN [ts[t] EXCEPT !.state = "inprogress"]
                                       ELSE ts[t]]
        q1    == [q EXCEPT !.tasklist = IF rest = <<>> THEN <<>> ELSE Tail(rest),
                           !.running  = IF calm THEN <<>> ELSE @ \o syncs]
    IN  [q     |-> IF tp = NoTask THEN q1 ELSE [q1 EXCEPT !.running = Append(@, tp)],
         task  |-> IF tp = NoTask THEN ts1 ELSE [ts1 EXCEPT ![tp].state = "inprogress"],
         tp    |-> tp,
         broadcast |-> calm /\ \E t \in Range(syncs) : ts[t].waiter]

\* Slip: every sync task among the running ones is done, wherever it is.
finish_calling_all_syncs(q, ts, tp) ==
    LET left  == Without(q.running, {tp})
        syncs == SelectSeq(left, LAMBDA t : ts[t].kind = "sync")
    IN  [q    |-> [q EXCEPT !.running =
                      SelectSeq(left, LAMBDA t : ts[t].kind # "sync")],
         task |-> IF ts[tp].kind = "detached"
                  THEN Removed(SyncsDone(ts, Range(syncs)), {tp})
                  ELSE [SyncsDone(ts, Range(syncs)) EXCEPT ![tp].state = "done"],
         broadcast |-> syncs # <<>> \/ ts[tp].waiter]

\* taskq_finish_calling: the task tp is done, and so are the sync tasks that
\* are now at the head of the running tasks.
taskq_finish_calling(q, ts, tp) ==
    LET left  == Without(q.running, {tp})
        syncs == LeadingSyncs(left, ts)
        ts1   == SyncsDone(ts, Range(syncs))
    IN  [q    |-> [q EXCEPT !.running = SubSeq(left, Len(syncs) + 1, Len(left))],
         task |-> IF ts[tp].kind = "detached" THEN Removed(ts1, {tp})
                  ELSE [ts1 EXCEPT ![tp].state = "done"],
         broadcast |-> syncs # <<>> \/ ts[tp].waiter]

\* taskq_create_dispatcher on the queue q, with ds the dispatchers after the
\* rest of the step.  The pool may have no thread to give: a queue without
\* dispatchers then asks the reserve thread.
taskq_create_dispatcher(q, ds) ==
    \/ /\ q.nthreads >= Concurrency
       /\ tq' = q /\ disp' = ds /\ UNCHANGED reserveReq
    \/ /\ q.nthreads < Concurrency
       /\ \E d \in Dispatchers :
            /\ ds[d].pc = "none"
            /\ disp' = [ds EXCEPT ![d].pc = "start"]
       /\ tq' = [q EXCEPT !.nthreads = @ + 1]
       /\ UNCHANGED reserveReq
    \/ /\ q.nthreads < Concurrency
       /\ tq' = q /\ disp' = ds
       /\ reserveReq' = IF q.nthreads = 0 THEN reserveReq + 1 ELSE reserveReq

\* A free dispatcher is told of a task, or a new one is asked for.
NotifyDispatcher(q, ds) ==
    IF q.nfree # 0
    THEN tq' = q /\ SignalDispatcher(ds) /\ UNCHANGED reserveReq
    ELSE taskq_create_dispatcher(q, ds)

----------------------------------------------------------------------------
(* Dispatcher threads and the reserve thread *)

\* Slip: the reserve thread is not counted.
nactive_dispatchers(q) == q.nthreads - q.nfree

\* Threads that run or are about to look for a task.
nactive(q) == q.nthreads + q.nreserve - q.nfree

\* What a dispatcher does first when it has the mutex: it counts itself out
\* of the free ones, or finishes the task it has called.
Resumed(d) ==
    IF disp[d].pc = "finish" THEN taskq_finish_calling(tq, task, disp[d].task)
    ELSE [q |-> IF disp[d].pc = "start" THEN tq ELSE [tq EXCEPT !.nfree = @ - 1],
          task |-> task, broadcast |-> FALSE]

\* Slip: it leaves after its stay without another look at the list.
MustExitAfterStay(d) == tq.state = "shutdown" \/ disp[d].pc = "timedout"

\* It leaves a queue that is being destroyed, and an empty one after it has
\* stayed for a while.
MustExit(d) == \/ tq.state = "shutdown"
               \/ disp[d].pc = "timedout" /\ tq.tasklist = <<>>

\* Slip: the last dispatcher of a queue is not counted out.
DispatcherExitUncounted(d, r) ==
    /\ tq' = r.q /\ task' = r.task
    /\ disp' = [disp EXCEPT ![d] = Idle]
    /\ BroadcastJoin(r.broadcast \/ (r.q.state = "shutdown" /\ r.q.nthreads = 0))
    /\ UNCHANGED reserveReq

DispatcherExit(d, r) ==
    LET q == [r.q EXCEPT !.nthreads = @ - 1]
    IN  /\ tq' = q /\ task' = r.task
        /\ disp' = [disp EXCEPT ![d] = Idle]
        /\ BroadcastJoin(r.broadcast \/ (q.state = "shutdown" /\ q.nthreads = 0))
        /\ UNCHANGED reserveReq

\* It waits for a task: for ever if few enough are free, or only for a while.
DispatcherIdle(d, r) ==
    LET n == r.q.nfree + 1
    IN  /\ tq' = [r.q EXCEPT !.nfree = n] /\ task' = r.task
        /\ disp' = [disp EXCEPT ![d] =
                [pc |-> IF n <= r.q.maxfree THEN "wait" ELSE "stay", task |-> NoTask]]
        /\ BroadcastJoin(r.broadcast)
        /\ UNCHANGED reserveReq

\* It takes a task; if more are queued it sees to a thread for the next.
DispatcherTake(d, r) ==
    LET ds == [disp EXCEPT ![d] = [pc |-> "call", task |-> r.tp]]
    IN  /\ task' = r.task
        /\ IF ntasks(r.q) # 0 THEN NotifyDispatcher(r.q, ds)
           ELSE tq' = r.q /\ disp' = ds /\ UNCHANGED reserveReq
        /\ BroadcastJoin(r.broadcast)

\* One turn of the loop of taskq_main, from taking the mutex to releasing it.
taskq_main(d) ==
    /\ disp[d].pc \in {"start", "woken", "timedout", "finish"}
    /\ LET r    == Resumed(d)
           busy == r.q.tasklist = <<>> \/ nactive(r.q) > Concurrency
           p    == taskq_prepare_calling(r.q, r.task)
           next == [p EXCEPT !.broadcast = @ \/ r.broadcast]
       IN  \/ MustExit(d) /\ DispatcherExit(d, r)
           \/ ~MustExit(d) /\ busy /\ DispatcherIdle(d, r)
           \/ ~MustExit(d) /\ ~busy /\ next.tp = NoTask /\ DispatcherIdle(d, next)
           \/ ~MustExit(d) /\ ~busy /\ next.tp # NoTask /\ DispatcherTake(d, next)
    /\ UNCHANGED <<reserve, history>>

\* The stay of an idle dispatcher is over.
StayTimeOut(d) ==
    /\ disp[d].pc = "stay"
    /\ disp' = [disp EXCEPT ![d].pc = "timedout"]
    /\ UNCHANGED <<tq, task, reserve, reserveReq, client, destroyer, history>>

\* Slip: the destructor of a joinable task is called as well.
taskq_call_destructs(t) ==
    /\ ended' = ended \cup {t}
    /\ Destruct(task, {t})
    /\ UNCHANGED <<tq, task, reserveReq, client, destroyer, early>>

\* taskq_call: the function of a task is called without the mutex, and the
\* destructor of a detached one.
taskq_call(t) ==
    /\ ended' = ended \cup {t}
    /\ Destruct(task, {t} \cap {u \in Tasks : task[u].kind = "detached"})
    /\ UNCHANGED <<tq, task, reserveReq, client, destroyer, early>>

DispatcherCall(d) ==
    /\ disp[d].pc = "call"
    /\ disp' = [disp EXCEPT ![d].pc = "finish"]
    /\ taskq_call(disp[d].task)
    /\ UNCHANGED reserve

\* taskq_reserve_main up to the call: a request is served unless the queue
\* is gone, is empty or has got a dispatcher meanwhile.
ReserveTake ==
    /\ reserve.pc = "none" /\ reserveReq > 0
    /\ reserveReq' = reserveReq - 1
    /\ IF tq.state # "live" \/ tq.tasklist = <<>> \/ tq.nthreads # 0
       THEN UNCHANGED <<tq, task, reserve, client, destroyer>>
       ELSE LET p == taskq_prepare_calling(tq, task)
            IN  /\ task' = p.task
                /\ BroadcastJoin(p.broadcast)
                /\ IF p.tp = NoTask THEN tq' = p.q /\ UNCHANGED reserve
                   ELSE /\ tq' = [p.q EXCEPT !.nreserve = @ + 1]
                        /\ reserve' = [pc |-> "call", task |-> p.tp]
    /\ UNCHANGED <<disp, history>>

ReserveCall ==
    /\ reserve.pc = "call"
    /\ reserve' = [reserve EXCEPT !.pc = "finish"]
    /\ taskq_call(reserve.task)
    /\ UNCHANGED disp

\* taskq_reserve_main after the call: it wakes a dispatcher if there is more
\* to do, and a thread that waits to destroy the queue.
ReserveFinish ==
    /\ reserve.pc = "finish"
    /\ LET r == taskq_finish_calling(tq, task, reserve.task)
       IN  /\ tq' = [r.q EXCEPT !.nreserve = @ - 1] /\ task' = r.task
           /\ IF ntasks(r.q) # 0 /\ r.q.nfree # 0 THEN SignalDispatcher(disp)
              ELSE UNCHANGED disp
           /\ BroadcastJoin(r.broadcast \/ tq.state = "shutdown")
    /\ reserve' = Idle
    /\ UNCHANGED <<reserveReq, history>>

----------------------------------------------------------------------------
(* Callers *)

\* taskq_register, with pfc_taskq_lookup: a live queue that is not full
\* gives the task the next identifier, and a dispatcher is told.
taskq_register(kind) ==
    /\ tq.state = "live" /\ tq.next <= MaxTasks
    /\ QueueLimit = 0 \/ ntasks(tq) < QueueLimit
    /\ task' = [task EXCEPT ![tq.next] =
                    [kind |-> kind, waiter |-> FALSE, state |-> "queued"]]
    /\ NotifyDispatcher([tq EXCEPT !.tasklist = Append(@, tq.next),
                                   !.next = @ + 1], disp)

\* pfc_taskq_dispatch of a detached or joinable task, on any thread.
Dispatch(kind) ==
    /\ taskq_register(kind)
    /\ UNCHANGED <<reserve, client, destroyer, history>>

\* taskq_dispatch_sync, the first half of pfc_taskq_flush and
\* pfc_taskq_clear; pc is what the call goes on with.  before: the tasks
\* dispatched before the call.
DispatchSync(c, pc) ==
    /\ client[c].pc = "idle"
    /\ taskq_register("sync")
    /\ client' = [client EXCEPT ![c] =
            [pc |-> pc, call |-> "sync", task |-> tq.next,
             before |-> {t \in 1..(tq.next - 1) : task[t].kind # "sync"}]]
    /\ UNCHANGED <<reserve, destroyer, history>>

\* The loop of pfc_taskq_clear: queued tasks are cancelled up to the sync
\* task, except sync tasks and those that somebody joins.
ClearTasks(c) ==
    /\ client[c].pc = "clear"
    /\ LET tid  == client[c].task
           upto == {i \in DOMAIN tq.tasklist :
                       \A k \in 1..i : tq.tasklist[k] # tid}
           S    == {t \in {tq.tasklist[i] : i \in upto} :
                       task[t].kind # "sync" /\ ~task[t].waiter}
           gone == IF tq.state = "live" THEN S ELSE {}
       IN  /\ tq' = [tq EXCEPT !.tasklist = Without(@, gone)]
           /\ task' = Removed(task, gone)
           /\ ended' = ended \cup gone
           /\ Destruct(task, gone)
    /\ client' = [client EXCEPT ![c].pc = "join"]
    /\ UNCHANGED <<disp, reserve, reserveReq, destroyer, early>>

\* The call of c returns; with zero, a flush or clear has kept its promise
\* for the tasks dispatched before it.
Return(c, cl, ok) ==
    /\ client' = [client EXCEPT ![c] = IdleClient]
    /\ early' = IF ok THEN early \cup (cl.before \ ended) ELSE early

\* A joined task that is done is removed and destructed.
JoinDone(c, cl) ==
    /\ task' = Removed([task EXCEPT ![cl.task].waiter = FALSE], {cl.task})
    /\ Destruct(task, {cl.task})
    /\ Return(c, cl, TRUE)

\* pfc_taskq_timedjoin up to the wait, by the caller c whose call is cl.  For
\* taskq_wait_sync a sync task that is gone is one that is done.
timedjoin(c, cl) ==
    LET t == cl.task
    IN  /\ \/ /\ tq.state # "live" \/ task[t].waiter \/ task[t].kind = "detached"
              /\ Return(c, cl, FALSE) /\ UNCHANGED <<tq, task, destructed>>
           \/ /\ tq.state = "live" /\ task[t].state = "none"
              /\ Return(c, cl, cl.call = "sync")
              /\ UNCHANGED <<tq, task, destructed>>
           \/ /\ tq.state = "live" /\ task[t].state = "done" /\ ~task[t].waiter
              /\ JoinDone(c, cl) /\ UNCHANGED tq
           \/ /\ tq.state = "live" /\ task[t].state \in {"queued", "inprogress"}
              /\ ~task[t].waiter /\ task[t].kind # "detached"
              /\ task' = [task EXCEPT ![t].waiter = TRUE]
              /\ tq' = [tq EXCEPT !.njoin = @ + 1]
              /\ client' = [client EXCEPT ![c] = [cl EXCEPT !.pc = "wait"]]
              /\ UNCHANGED <<destructed, early>>
        /\ UNCHANGED <<disp, reserve, reserveReq, destroyer, ended>>

\* pfc_taskq_join and pfc_taskq_timedjoin, called for a task.
Join(c, t) ==
    /\ client[c].pc = "idle" /\ t < tq.next /\ task[t].kind # "sync"
    /\ timedjoin(c, [pc |-> "join", call |-> "join", task |-> t,
                     before |-> {}])

\* taskq_wait_sync, the second half of pfc_taskq_flush and pfc_taskq_clear.
taskq_wait_sync(c) ==
    /\ client[c].pc = "join"
    /\ timedjoin(c, client[c])

\* pfc_taskq_timedjoin after the wait.
JoinResume(c) ==
    LET t == client[c].task
        q == [tq EXCEPT !.njoin = @ - 1]
    IN  /\ client[c].pc \in {"woken", "timedout"}
        /\ \/ /\ client[c].pc = "timedout"
              /\ tq' = q /\ task' = [task EXCEPT ![t].waiter = FALSE]
              /\ Return(c, client[c], FALSE) /\ UNCHANGED <<destructed, destroyer>>
           \/ /\ client[c].pc = "woken" /\ tq.state = "shutdown"
              /\ tq' = q /\ task' = [task EXCEPT ![t].waiter = FALSE]
              /\ client' = [d \in Clients |->
                    IF d = c THEN IdleClient
                    ELSE IF q.njoin = 0 /\ d \in JoinWaiting
                    THEN [client[d] EXCEPT !.pc = "woken"] ELSE client[d]]
              /\ destroyer' = IF q.njoin = 0 /\ destroyer = "wait"
                              THEN "woken" ELSE destroyer
              /\ UNCHANGED <<destructed, early>>
           \/ /\ client[c].pc = "woken" /\ tq.state = "live" /\ task[t].state = "done"
              /\ tq' = q /\ JoinDone(c, client[c]) /\ UNCHANGED destroyer
           \/ /\ client[c].pc = "woken" /\ tq.state = "live" /\ task[t].state # "done"
              /\ client' = [client EXCEPT ![c].pc = "wait"]
              /\ UNCHANGED <<tq, task, destructed, early, destroyer>>
        /\ UNCHANGED <<disp, reserve, reserveReq, ended>>

\* The timeout of a join, flush or clear expires.
JoinTimeOut(c) ==
    /\ MayTimeOut /\ client[c].pc = "wait"
    /\ client' = [client EXCEPT ![c].pc = "timedout"]
    /\ UNCHANGED <<tq, task, disp, reserve, reserveReq, destroyer, history>>

\* pfc_taskq_cancel: a running task and one that is joined stay.
Cancel(t) ==
    /\ tq.state = "live"
    /\ task[t].kind # "sync" /\ ~task[t].waiter
    /\ task[t].state \in {"queued", "done"}
    /\ ended' = ended \cup {t}
    /\ tq' = [tq EXCEPT !.tasklist = Without(@, {t})]
    /\ task' = Removed(task, {t})
    /\ Destruct(task, {t})
    /\ UNCHANGED <<disp, reserve, reserveReq, client, destroyer, early>>

\* pfc_taskq_set_free.
SetFree(n) ==
    /\ tq.state = "live" /\ tq.maxfree # n
    /\ tq' = [tq EXCEPT !.maxfree = n]
    /\ UNCHANGED <<task, disp, reserve, reserveReq, client, destroyer, history>>

\* pfc_taskq_destroy waits until no thread uses the queue, and taskq_free
\* then destructs and frees what is left in the tree.
AwaitThreads(q) ==
    IF q.nthreads # 0 \/ q.njoin # 0 \/ q.nreserve # 0
    THEN destroyer' = "wait" /\ tq' = q /\ UNCHANGED <<task, destructed>>
    ELSE /\ destroyer' = "done" /\ tq' = [q EXCEPT !.state = "freed"]
         /\ task' = Removed(task, Tree(task))
         /\ Destruct(task, Tree(task))

\* pfc_taskq_destroy: the queue is not found any more, and all waiting
\* threads are woken.
Destroy ==
    /\ destroyer = "none"
    /\ AwaitThreads([tq EXCEPT !.state = "shutdown"])
    /\ disp' = [d \in Dispatchers |-> IF d \in DispWaiting
                                      THEN [disp[d] EXCEPT !.pc = "woken"]
                                      ELSE disp[d]]
    /\ client' = [c \in Clients |-> IF c \in JoinWaiting
                                    THEN [client[c] EXCEPT !.pc = "woken"]
                                    ELSE client[c]]
    /\ UNCHANGED <<reserve, reserveReq, ended, early>>

DestroyResume ==
    /\ destroyer = "woken"
    /\ AwaitThreads(tq)
    /\ UNCHANGED <<disp, reserve, reserveReq, client, ended, early>>

\* POSIX allows a wait for a condition variable to return without a signal.
SpuriousWakeUp ==
    /\ \/ \E d \in DispWaiting :
             disp' = [disp EXCEPT ![d].pc = "woken"] /\ UNCHANGED <<client, destroyer>>
       \/ \E c \in JoinWaiting :
             client' = [client EXCEPT ![c].pc = "woken"] /\ UNCHANGED <<disp, destroyer>>
       \/ destroyer = "wait" /\ destroyer' = "woken" /\ UNCHANGED <<disp, client>>
    /\ UNCHANGED <<tq, task, reserve, reserveReq, history>>

----------------------------------------------------------------------------
(* Specification *)

Init ==
    /\ tq = NewQueue
    /\ task = [t \in Tasks |-> NewTask]
    /\ disp = [d \in Dispatchers |-> Idle]
    /\ reserve = Idle /\ reserveReq = 0
    /\ client = [c \in Clients |-> IdleClient]
    /\ destroyer = "none"
    /\ ended = {} /\ early = {}
    /\ destructed = [t \in Tasks |-> 0]

\* What threads decide to do: a call that returns at once, or one that may
\* wait, by one of the callers.
Call ==
    \/ \E kind \in {"detached", "joinable"} : Dispatch(kind)
    \/ \E t \in Tasks : Cancel(t)
    \/ \E n \in 0..MaxFree : SetFree(n)
    \/ \E c \in Clients :
          \/ \E pc \in {"join", "clear"} : DispatchSync(c, pc)
          \/ \E t \in Tasks : Join(c, t)

\* What a caller does once it has called.
ClientReturns(c) == ClearTasks(c) \/ taskq_wait_sync(c) \/ JoinResume(c)

DispatcherStep(d) == taskq_main(d) \/ DispatcherCall(d)
ReserveStep == ReserveTake \/ ReserveCall \/ ReserveFinish

Next ==
    \/ Call
    \/ \E c \in Clients : ClientReturns(c) \/ JoinTimeOut(c)
    \/ \E d \in Dispatchers : DispatcherStep(d) \/ StayTimeOut(d)
    \/ ReserveStep \/ Destroy \/ DestroyResume \/ SpuriousWakeUp

Spec == Init /\ [][Next]_vars

----------------------------------------------------------------------------
(* Properties *)

\* The type invariant, which also says that the counters count: nthreads and
\* nfree the dispatchers, njoin the callers that wait.
TypeOK ==
    /\ tq.state \in {"live", "shutdown", "freed"}
    /\ task \in [Tasks -> Task]
    /\ tq.nthreads = Cardinality({d \in Dispatchers : disp[d].pc # "none"})
    /\ tq.nfree = Cardinality({d \in Dispatchers :
                        disp[d].pc \in {"wait", "stay", "woken", "timedout"}})
    /\ tq.njoin = Cardinality({c \in Clients :
                        client[c].pc \in {"wait", "woken", "timedout"}})
    /\ reserveReq \in Nat /\ ended \subseteq Tasks

\* No more threads run tasks of the queue than its concurrency, the reserve
\* thread included, although the reserve thread and new dispatchers start
\* independently of each other.
WithinConcurrency ==
    Cardinality({d \in Dispatchers : disp[d].pc \in {"call", "finish"}})
        + (IF reserve.pc = "none" THEN 0 ELSE 1) <= Concurrency

\* When pfc_taskq_flush or pfc_taskq_clear has returned zero, every task that
\* was dispatched before the call has been executed or cancelled, whatever
\* ran in parallel and whoever timed out meanwhile.
FlushedTasksEnded == early = {}

\* The destructor of a task is called once, after its function has returned
\* or the task was cancelled, and by the time the queue is freed it has been
\* called for every task.  A task that a caller waits for stays in the tree until
\* the caller has seen the end of the wait: it uses the task_t after waking up.
DestructedOnce ==
    \A t \in 1..(tq.next - 1) : task[t].kind # "sync" =>
        /\ destructed[t] <= 1
        /\ destructed[t] = 1 =>
              \/ t \in ended
              \/ tq.state = "freed"
        /\ tq.state = "freed" => destructed[t] = 1
        /\ task[t].state = "none" => destructed[t] = 1
        /\ \A c \in Clients :
              client[c].task = t /\ client[c].pc \in {"wait", "woken", "timedout"} =>
                 task[t].state # "none" /\ task[t].waiter /\ tq.state # "freed"

\* As long as tasks are queued some thread is on its way to the list: a
\* dispatcher that is running, starting, woken or staying only for a while, or
\* the reserve thread, which must not find a dispatcher when it comes.  No
\* wake-up is lost between dispatchers that come and go, a pool without
\* threads and the reserve thread.
NoTaskStranded ==
    tq.state = "live" /\ tq.tasklist # <<>> =>
        \/ \E d \in Dispatchers : disp[d].pc \notin {"none", "wait"}
        \/ reserve.pc # "none"
        \/ reserveReq > 0 /\ tq.nthreads = 0

\* The thread in pfc_taskq_destroy does not sleep when all it waits for, "for
\* dispatcher and joiner threads to be terminated", has happened.
DestroyerIsWoken ==
    destroyer = "wait" => tq.nthreads # 0 \/ tq.njoin # 0 \/ tq.nreserve # 0
=============================================================================
