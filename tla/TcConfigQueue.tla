---------------------------- MODULE TcConfigQueue ----------------------------
(***************************************************************************)
(* The queue of timed requests for the configuration mode:                 *)
(* tc_config_operations.cc, on top of the lock table.                      *)
(*                                                                         *)
(* TcOperations leaves out the timed acquisition and what goes with it: a  *)
(* flag config_mode_available_ and a queue, each with a mutex of its own,  *)
(* that are changed beside the lock table and not together with it.  Here  *)
(* TC is in the state ACT and every session has one request at a time, on  *)
(* a thread of its own.                                                    *)
(*                                                                         *)
(* A section under config_req_queue_lock_ is one step: of what it touches, *)
(* only SetConfigModeAvailability(FALSE) is done elsewhere without this    *)
(* mutex, by a thread that has taken the configuration session and so      *)
(* excludes the section's own attempt to take it.                          *)
(***************************************************************************)
EXTENDS TcLock, Sequences, FiniteSetsExt

CONSTANT Timeouts   \* of timed requests: "zero", "finite", "infinite"

ASSUME TcConfigQueueAssumption == Timeouts \subseteq {"zero", "finite", "infinite"}

VARIABLES
    config_mode_available,
    config_req_queue,   \* the sessions whose timed requests are queued
    request,            \* request[s]: what the thread of session s is doing
    release_failed      \* history: a release has failed after it freed the lock
                        \* table, and none has succeeded since

queueVars == <<config_mode_available, config_req_queue, release_failed>>
vars == <<lockVars, queueVars, request>>

RequestOper == {"NONE", "ACQUIRE", "TIMED", "FORCE", "RELEASE"}

\* Sleeping: in pthread_cond_wait.  Before it the thread has let go of the queue
\* but does not sleep yet; after it, it was signalled, has woken without a signal,
\* or its time has expired.
RequestPc == {"idle", "exclusion", "acquired", "before_wait", "sleeping",
              "signalled", "woken", "expired", "notify", "released"}

NoRequest == [pc |-> "idle", oper |-> "NONE", timeout |-> "zero"]

Init ==
    /\ LockFree("ACT", TRUE)
    /\ config_mode_available = TRUE
    /\ config_req_queue = <<>>
    /\ request = [s \in Sessions |-> NoRequest]
    /\ release_failed = FALSE

At(s, pc) == request[s].pc = pc
Goto(s, pc) == request' = [request EXCEPT ![s].pc = pc]
Answer(s) == request' = [request EXCEPT ![s] = NoRequest]
Begin(s, oper, pc) ==
    request' = [request EXCEPT ![s] =
                  [pc |-> pc, oper |-> oper, timeout |-> "zero"]]

-----------------------------------------------------------------------------
(* Dispatch of a request that does not wait *)

\* ACQUIRE: IsConfigReqQueueEmpty is asked before the lock is tried.
DispatchAcquire(s) ==
    /\ At(s, "idle")
    /\ config_req_queue = <<>>
    /\ Begin(s, "ACQUIRE", "exclusion")
    /\ UNCHANGED <<lockVars, queueVars>>

DispatchForce(s) ==
    /\ At(s, "idle")
    /\ Begin(s, "FORCE", "exclusion")
    /\ UNCHANGED <<lockVars, queueVars>>

\* TcGetExclusion of either; a refused request is answered.
TcGetExclusion(s) ==
    /\ At(s, "exclusion")
    /\ IF request[s].oper = "FORCE"
       THEN IF canForceAcquireConfigLock(s)
            THEN ForceAcquireConfigLock(s) /\ Goto(s, "acquired")
            ELSE UNCHANGED lockVars /\ Answer(s)
       ELSE IF canAcquireConfigLock(s)
            THEN AcquireConfigLock(s) /\ Goto(s, "acquired")
            ELSE UNCHANGED lockVars /\ Answer(s)
    /\ UNCHANGED queueVars

\* SetConfigModeAvailability(FALSE), a step of its own.
SetUnavailable(s) ==
    /\ At(s, "acquired")
    /\ config_mode_available' = FALSE
    /\ Goto(s, "notify")
    /\ UNCHANGED <<lockVars, config_req_queue, release_failed>>

-----------------------------------------------------------------------------
(* HandleTimedConfigAcquisition *)

\* Timeout zero: take it if it is available, whoever waits.
TimedZero(s) ==
    /\ "zero" \in Timeouts
    /\ At(s, "idle")
    /\ config_mode_available
    /\ AcquireConfigLock(s)
    /\ config_mode_available' = FALSE
    /\ Begin(s, "TIMED", "notify")
    /\ UNCHANGED <<config_req_queue, release_failed>>

\* A slip: the request itself is not counted.
AllowedBehindOne(queue) == Len(queue) <= 2

IsConfigAcquireAllowed(queue) == Len(queue) <= 1

InsertConfigRequest(s, timeout) ==
    LET queue == Append(config_req_queue, s)
        wait == ~config_mode_available \/ ~IsConfigAcquireAllowed(queue)
    IN  /\ timeout \in Timeouts \ {"zero"}
        /\ At(s, "idle")
        /\ config_req_queue' = queue
        /\ request' = [request EXCEPT ![s] =
                         [pc |-> IF wait THEN "before_wait" ELSE "signalled",
                          oper |-> "TIMED", timeout |-> timeout]]
        /\ UNCHANGED <<lockVars, config_mode_available, release_failed>>

FallAsleep(s) ==
    /\ At(s, "before_wait")
    /\ Goto(s, "sleeping")
    /\ UNCHANGED <<lockVars, queueVars>>

Expire(s) ==
    /\ At(s, "sleeping")
    /\ request[s].timeout = "finite"
    /\ Goto(s, "expired")
    /\ UNCHANGED <<lockVars, queueVars>>

\* pthread_cond_wait may return 0 without a signal; the code does not look again.
SpuriousWakeUp(s) ==
    /\ At(s, "sleeping")
    /\ Goto(s, "woken")
    /\ UNCHANGED <<lockVars, queueVars>>

\* The first request of the session is erased, if there is one.
Erase(queue, s) ==
    LET found == {i \in 1 .. Len(queue) : queue[i] = s}
        it == Min(found)
    IN  IF found = {} THEN queue
        ELSE SubSeq(queue, 1, it - 1) \o SubSeq(queue, it + 1, Len(queue))

RemoveConfigRequest(s) == config_req_queue' = Erase(config_req_queue, s)

\* A slip: the expired request stays in the queue.
GiveUpInQueue(s) ==
    At(s, "expired") /\ Answer(s) /\ UNCHANGED <<lockVars, queueVars>>

\* pthread_ret is not 0: the request is taken out of the queue and refused.
GiveUp(s) ==
    /\ At(s, "expired")
    /\ RemoveConfigRequest(s)
    /\ Answer(s)
    /\ UNCHANGED <<lockVars, config_mode_available, release_failed>>

\* The wait is complete: the lock is tried once, and the request leaves the queue
\* whether it was granted or not.
WaitComplete(s) ==
    /\ At(s, "signalled") \/ At(s, "woken")
    /\ RemoveConfigRequest(s)
    /\ IF canAcquireConfigLock(s)
       THEN /\ AcquireConfigLock(s)
            /\ config_mode_available' = FALSE
            /\ Goto(s, "notify")
       ELSE UNCHANGED <<lockVars, config_mode_available>> /\ Answer(s)
    /\ UNCHANGED release_failed

-----------------------------------------------------------------------------
(* The end of an acquisition, and a release *)

\* MSG_NOTIFY_CONFIGID was sent; with success or not the notification is over.
NotifyAcquire(s) ==
    /\ At(s, "notify")
    /\ request[s].oper # "RELEASE"
    /\ NotifyConfigIdSessionIdDone(config_id, s, "ACQUIRE")
    /\ Answer(s)
    /\ UNCHANGED queueVars

DispatchRelease(s) ==
    /\ At(s, "idle")
    /\ ReleaseConfigLock(s, config_id)
    /\ Begin(s, "RELEASE", "notify")
    /\ UNCHANGED queueVars

\* If MSG_NOTIFY_CONFIGID fails RevokeOperation ends the notification too, but
\* HandleConfigRelease is not reached.
NotifyRelease(s) ==
    /\ At(s, "notify")
    /\ request[s].oper = "RELEASE"
    /\ NotifyConfigIdSessionIdDone(config_id, s, "RELEASE")
    /\ \/ Goto(s, "released") /\ UNCHANGED release_failed
       \/ Answer(s) /\ release_failed' = TRUE
    /\ UNCHANGED <<config_mode_available, config_req_queue>>

\* A slip: the flag is left alone when a request waits, as if that request were
\* sure to take the mode.
HandleConfigReleaseToWaiter(s) ==
    /\ At(s, "released")
    /\ config_mode_available' = (config_req_queue = <<>>)
    /\ request' = [u \in Sessions |->
                     IF u = s THEN NoRequest
                     ELSE IF /\ config_req_queue # <<>>
                             /\ u = Head(config_req_queue)
                             /\ At(u, "sleeping")
                     THEN [request[u] EXCEPT !.pc = "signalled"]
                     ELSE request[u]]
    /\ release_failed' = FALSE
    /\ UNCHANGED <<lockVars, config_req_queue>>

\* pthread_cond_signal reaches a thread only if it sleeps.
HandleConfigRelease(s) ==
    /\ At(s, "released")
    /\ config_mode_available' = TRUE
    /\ request' = [u \in Sessions |->
                     IF u = s THEN NoRequest
                     ELSE IF /\ config_req_queue # <<>>
                             /\ u = Head(config_req_queue)
                             /\ At(u, "sleeping")
                     THEN [request[u] EXCEPT !.pc = "signalled"]
                     ELSE request[u]]
    /\ release_failed' = FALSE
    /\ UNCHANGED <<lockVars, config_req_queue>>

-----------------------------------------------------------------------------
\* A request arrives.
Arrival(s) ==
    \/ DispatchAcquire(s) \/ DispatchForce(s) \/ DispatchRelease(s)
    \/ TimedZero(s)
    \/ \E timeout \in Timeouts : InsertConfigRequest(s, timeout)

\* The thread of a request goes on by itself.
Progress(s) ==
    \/ TcGetExclusion(s) \/ SetUnavailable(s) \/ FallAsleep(s) \/ Expire(s)
    \/ GiveUp(s) \/ WaitComplete(s) \/ NotifyAcquire(s) \/ NotifyRelease(s)
    \/ HandleConfigRelease(s)

Next == \E s \in Sessions : Arrival(s) \/ Progress(s) \/ SpuriousWakeUp(s)

Spec == Init /\ [][Next]_vars

-----------------------------------------------------------------------------
TypeOK ==
    /\ LockTypeOK
    /\ config_mode_available \in BOOLEAN
    /\ config_req_queue \in Seq(Sessions)
    /\ request \in [Sessions -> [pc : RequestPc, oper : RequestOper,
                                 timeout : {"zero", "finite", "infinite"}]]
    /\ release_failed \in BOOLEAN

\* The queue holds every request that waits or has just stopped waiting, once,
\* and no other: a request left behind would block all plain acquisitions, one
\* lost would never be signalled.
QueueHoldsWaiters ==
    /\ IsInjective(config_req_queue)
    /\ Range(config_req_queue) =
         {s \in Sessions : request[s].pc \in {"before_wait", "sleeping", "signalled",
                                              "woken", "expired"}}

\* No request is between two steps.
Quiet == \A s \in Sessions : request[s].pc \in {"idle", "sleeping"}

\* When nothing is going on and nobody has the configuration mode, the flag says
\* so, which the lock table is ahead of.  A release that cannot notify UPLL and
\* UPPL frees the lock table and leaves the flag (RevokeOperation); the next
\* release that succeeds makes that good.
FreeModeIsAvailable ==
    Quiet /\ ~is_taken => config_mode_available \/ release_failed

\* When nothing is going on and nobody has the configuration mode, no request
\* sleeps: a release that succeeds triggers the signal that a waiting request
\* needs.
NoStrandedRequest ==
    Quiet /\ ~is_taken /\ ~release_failed => \A s \in Sessions : ~At(s, "sleeping")

\* A timed request that waits is granted when all that came before it have left
\* the queue: granted first, expired or refused.  Only timeout zero, which does not
\* wait, and a wake-up without a signal pass the queue.
EarlierRequestsFirst ==
    [][\A s \in Sessions :
         /\ request'[s].oper = "TIMED" /\ request'[s].pc = "notify"
         /\ request[s].pc \notin {"notify", "woken"}
         /\ request'[s].timeout # "zero"
         => config_req_queue # <<>> /\ Head(config_req_queue) = s]_vars
=============================================================================
