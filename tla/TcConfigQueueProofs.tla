------------------------ MODULE TcConfigQueueProofs ------------------------
(***************************************************************************)
(* Proofs about the queue of timed requests for the configuration mode,    *)
(* for any number of sessions.                                             *)
(*                                                                         *)
(* Neither QueueHoldsWaiters, which looks at the requests one by one, nor  *)
(* FreeModeIsAvailable, which holds only between requests, says enough     *)
(* about the steps in between.  IInv adds which request the pending        *)
(* notification belongs to, who is going to set the flag while it is       *)
(* behind the lock table, and which request may be awake.                  *)
(***************************************************************************)
EXTENDS TcConfigQueue, TLAPS

\* In a sequence without repetitions Erase cuts at the one index of the
\* element.
LEMMA EraseIndex ==
    ASSUME NEW S, NEW q \in Seq(S), IsInjective(q), NEW i \in 1 .. Len(q)
    PROVE  Erase(q, q[i]) = SubSeq(q, 1, i - 1) \o SubSeq(q, i + 1, Len(q))
<1>1. {j \in 1 .. Len(q) : q[j] = q[i]} = {i}
    BY DEF IsInjective
<1>2. Min({i}) = i
    BY DEF Min
<1>3. \E j \in 1 .. Len(q) : q[j] = q[i]
    OBVIOUS
<1> QED
    BY <1>1, <1>2, <1>3, Zenon DEF Erase

\* Erase takes the element out of an injective sequence, and nothing else.
LEMMA EraseProperties ==
    ASSUME NEW S, NEW q \in Seq(S), NEW e \in Range(q), IsInjective(q)
    PROVE  /\ Erase(q, e) \in Seq(S)
           /\ IsInjective(Erase(q, e))
           /\ Range(Erase(q, e)) = Range(q) \ {e}
           /\ e # Head(q) => /\ Erase(q, e) # <<>>
                             /\ Head(Erase(q, e)) = Head(q)
<1>1. PICK i \in 1 .. Len(q) : q[i] = e
    BY DEF Range
<1>2. PICK a : a = SubSeq(q, 1, i - 1)
    BY Zenon
<1>3. PICK b : b = SubSeq(q, i + 1, Len(q))
    BY Zenon
<1>4. PICK r : r = a \o b
    BY Zenon
<1>5. Erase(q, e) = r
    BY <1>1, <1>2, <1>3, <1>4, EraseIndex, Zenon
<1>6. a \in Seq(S) /\ Len(a) = i - 1 /\ \A j \in 1 .. i - 1 : a[j] = q[j]
    BY <1>2
<1>7. /\ b \in Seq(S) /\ Len(b) = Len(q) - i
      /\ \A j \in 1 .. Len(q) - i : b[j] = q[j + i]
    BY <1>3
<1>8. r \in Seq(S) /\ Len(r) = Len(q) - 1 /\ Len(q) \in Nat
  <2>1. a \in Seq(S) /\ b \in Seq(S)
    BY <1>6, <1>7, Zenon
  <2>2. a \o b \in Seq(S) /\ Len(a \o b) = Len(a) + Len(b)
    BY <2>1
  <2>3. r \in Seq(S) /\ Len(r) = Len(a) + Len(b)
    BY <1>4, <2>2, Zenon
  <2>4. Len(a) = i - 1 /\ Len(b) = Len(q) - i /\ Len(q) \in Nat
    BY <1>6, <1>7
  <2> QED BY <2>3, <2>4
<1>9. \A j \in 1 .. Len(q) - 1 : r[j] = IF j < i THEN q[j] ELSE q[j + 1]
    BY <1>4, <1>6, <1>7
<1>10. DOMAIN r = 1 .. Len(q) - 1 /\ DOMAIN q = 1 .. Len(q)
    BY <1>8
<1>11. IsInjective(r)
  <2>1. ASSUME NEW j \in 1 .. Len(q) - 1, NEW k \in 1 .. Len(q) - 1, r[j] = r[k]
        PROVE  j = k
    <3>1. \A x, y \in 1 .. Len(q) : q[x] = q[y] => x = y
        BY <1>10 DEF IsInjective
    <3>2. PICK x \in 1 .. Len(q) : x = IF j < i THEN j ELSE j + 1
        BY <1>8
    <3>3. PICK y \in 1 .. Len(q) : y = IF k < i THEN k ELSE k + 1
        BY <1>8
    <3>4. q[x] = q[y]
        BY <2>1, <1>9, <3>2, <3>3
    <3>5. x = y
        BY <3>1, <3>4
    <3> QED BY <3>2, <3>3, <3>5, <1>8
  <2> QED BY <2>1, <1>10 DEF IsInjective
<1>12. Range(r) = Range(q) \ {e}
  <2>1. ASSUME NEW x \in Range(r) PROVE x \in Range(q) \ {e}
    BY <1>1, <1>8, <1>9, <1>10, SMTT(30) DEF Range, IsInjective
  <2>2. ASSUME NEW x \in Range(q), x # e PROVE x \in Range(r)
    <3>1. PICK k \in 1 .. Len(q) : x = q[k]
        BY <1>10 DEF Range
    <3>2. PICK j \in 1 .. Len(q) - 1 : IF j < i THEN j = k ELSE j + 1 = k
      <4>1. CASE k < i
        BY <4>1, <1>8
      <4>2. CASE k > i
        <5> WITNESS k - 1 \in 1 .. Len(q) - 1
        <5> QED BY <4>2, <1>8
      <4> QED BY <3>1, <2>2, <1>1, <4>1, <4>2, <1>8
    <3> QED BY <3>1, <3>2, <1>9, <1>10, Zenon DEF Range
  <2> QED BY <2>1, <2>2
<1>13. ASSUME e # Head(q) PROVE r # <<>> /\ Head(r) = Head(q)
  <2>1. q # <<>> /\ Head(q) = q[1]
    BY <1>8
  <2>2. i > 1 /\ 1 \in 1 .. Len(q) - 1
    BY <1>1, <1>8, <1>13, <2>1
  <2>3. r[1] = q[1]
    BY <1>9, <2>2
  <2> QED BY <1>8, <2>1, <2>2, <2>3
<1> QED
    BY <1>5, <1>8, <1>11, <1>12, <1>13

-----------------------------------------------------------------------------
Waiting == {"before_wait", "sleeping", "signalled", "woken", "expired"}

Request == [pc : RequestPc, oper : RequestOper,
            timeout : {"zero", "finite", "infinite"}]

\* The types of what the queue looks at.
Typed ==
    /\ is_taken \in BOOLEAN
    /\ is_notify_pending \in BOOLEAN
    /\ config_mode_available \in BOOLEAN
    /\ config_req_queue \in Seq(Sessions)
    /\ request \in [Sessions -> Request]

\* Only a timed request waits, and it never passes through "acquired".
Order ==
    \A s \in Sessions :
        /\ request[s].pc \in {"exclusion", "acquired"} =>
             request[s].oper \in {"ACQUIRE", "FORCE"}
        /\ request[s].pc \in Waiting => request[s].oper = "TIMED"

\* The one request whose notification is pending: the lock table records its
\* session, and is taken unless the request is a release.
Notified ==
    \A s \in Sessions :
        request[s].pc \in {"acquired", "notify"} =>
          /\ is_notify_pending
          /\ session_id = s
          /\ is_taken <=> request[s].oper # "RELEASE"

Releasing(s) ==
    At(s, "released") \/ (At(s, "notify") /\ request[s].oper = "RELEASE")

\* As long as the flag is behind the lock table somebody is about to set it, or
\* has failed before.
Available ==
    ~is_taken => \/ config_mode_available \/ release_failed
                 \/ \E s \in Sessions : Releasing(s)

\* A request that need not wait any longer is the first in the queue.
SignalledIsFirst ==
    \A s \in Sessions : At(s, "signalled") => /\ config_req_queue # <<>>
                                              /\ Head(config_req_queue) = s

IInv ==
    /\ Typed /\ Order /\ QueueHoldsWaiters /\ Notified /\ Available
    /\ SignalledIsFirst

\* What a step of the thread of s does to the requests.
LEMMA OneRequest ==
    ASSUME Typed, NEW s \in Sessions, NEW r \in Request,
           request' = [request EXCEPT ![s] = r]
    PROVE  /\ request' \in [Sessions -> Request]
           /\ request'[s] = r
           /\ \A u \in Sessions : u # s => request'[u] = request[u]
BY DEF Typed

\* A step of a request that neither begins nor ends to wait.
LEMMA QueueStays ==
    ASSUME Typed, QueueHoldsWaiters, SignalledIsFirst,
           NEW s \in Sessions, NEW r \in Request,
           request' = [request EXCEPT ![s] = r],
           request[s].pc \in Waiting <=> r.pc \in Waiting,
           r.pc # "signalled",
           config_req_queue' = config_req_queue
    PROVE  QueueHoldsWaiters' /\ SignalledIsFirst'
<1>1. /\ request'[s] = r
      /\ \A u \in Sessions : u # s => request'[u] = request[u]
    BY OneRequest, Zenon
<1>2. \A u \in Sessions : request'[u].pc \in Waiting <=> request[u].pc \in Waiting
    BY <1>1
<1>3. QueueHoldsWaiters'
    BY <1>2 DEF QueueHoldsWaiters, Waiting
<1>4. SignalledIsFirst'
    BY <1>1 DEF SignalledIsFirst, At
<1> QED BY <1>3, <1>4

\* A request that has stopped waiting leaves the queue.
LEMMA QueueLeft ==
    ASSUME Typed, QueueHoldsWaiters, SignalledIsFirst,
           NEW s \in Sessions, NEW r \in Request,
           request' = [request EXCEPT ![s] = r],
           request[s].pc \in Waiting, r.pc \notin Waiting,
           RemoveConfigRequest(s)
    PROVE  /\ config_req_queue' \in Seq(Sessions)
           /\ QueueHoldsWaiters' /\ SignalledIsFirst'
<1>1. /\ request'[s] = r
      /\ \A u \in Sessions : u # s => request'[u] = request[u]
    BY OneRequest, Zenon
<1>2. s \in Range(config_req_queue) /\ IsInjective(config_req_queue)
    BY DEF QueueHoldsWaiters, Waiting
<1>3. config_req_queue \in Seq(Sessions)
    BY DEF Typed
<1>4. /\ config_req_queue' \in Seq(Sessions)
      /\ IsInjective(config_req_queue')
      /\ Range(config_req_queue') = Range(config_req_queue) \ {s}
      /\ s # Head(config_req_queue) =>
           /\ config_req_queue' # <<>>
           /\ Head(config_req_queue') = Head(config_req_queue)
    BY <1>2, <1>3, EraseProperties DEF RemoveConfigRequest
<1>5. \A u \in Sessions :
        request'[u].pc \in Waiting <=> request[u].pc \in Waiting /\ u # s
    BY <1>1
<1>6. Range(config_req_queue') = {u \in Sessions : request'[u].pc \in Waiting}
    BY <1>4, <1>5 DEF QueueHoldsWaiters, Waiting
<1>7. QueueHoldsWaiters'
    BY <1>4, <1>6, Zenon DEF QueueHoldsWaiters, Waiting
<1>8. SignalledIsFirst'
  <2>1. ASSUME NEW u \in Sessions, request'[u].pc = "signalled"
        PROVE  config_req_queue' # <<>> /\ Head(config_req_queue') = u
    <3>1. u # s
        BY <2>1, <1>1 DEF Waiting
    <3>2. Head(config_req_queue) = u
        BY <2>1, <3>1, <1>1 DEF SignalledIsFirst, At
    <3> QED BY <1>4, <3>1, <3>2
  <2> QED BY <2>1 DEF SignalledIsFirst, At
<1> QED BY <1>4, <1>7, <1>8

\* The thread of s goes on, and what it has to do with the lock table does not
\* change.
LEMMA LockStays ==
    ASSUME IInv, NEW s \in Sessions, NEW r \in Request,
           request' = [request EXCEPT ![s] = r],
           r.pc \in {"exclusion", "acquired"} => r.oper \in {"ACQUIRE", "FORCE"},
           r.pc \in Waiting => r.oper = "TIMED",
           r.pc = "notify" => request[s].pc = "acquired" /\ r.oper = request[s].oper,
           r.pc # "acquired",
           ~Releasing(s),
           UNCHANGED lockVars,
           config_mode_available' \in BOOLEAN,
           \/ is_taken
           \/ UNCHANGED <<config_mode_available, release_failed>>
    PROVE  Order' /\ Notified' /\ Available'
<1>1. /\ request'[s] = r
      /\ \A u \in Sessions : u # s => request'[u] = request[u]
    BY OneRequest, Zenon DEF IInv
<1>2. UNCHANGED <<is_taken, is_notify_pending, session_id>>
    BY DEF lockVars, configVars
<1>3. Order'
    BY <1>1 DEF IInv, Order
<1>4. Notified'
    BY <1>1, <1>2 DEF IInv, Notified
<1>5. \A u \in Sessions : Releasing(u) => Releasing(u)'
    BY <1>1 DEF Releasing, At
<1>6. Available'
    BY <1>2, <1>5 DEF IInv, Available
<1> QED BY <1>3, <1>4, <1>6

\* The thread of s takes the configuration session.
LEMMA LockTaken ==
    ASSUME IInv, NEW s \in Sessions, NEW r \in Request,
           request' = [request EXCEPT ![s] = r],
           \/ r.pc = "acquired" /\ r.oper \in {"ACQUIRE", "FORCE"}
           \/ r.pc = "notify" /\ r.oper = "TIMED",
           AcquireConfigLock(s) \/ ForceAcquireConfigLock(s)
    PROVE  /\ is_taken' = TRUE /\ is_notify_pending' = TRUE
           /\ Order' /\ Notified' /\ Available'
<1>1. /\ request'[s] = r
      /\ \A u \in Sessions : u # s => request'[u] = request[u]
    BY OneRequest, Zenon DEF IInv
<1>2. /\ ~is_notify_pending
      /\ is_taken' = TRUE /\ is_notify_pending' = TRUE /\ session_id' = s
    BY DEF AcquireConfigLock, ForceAcquireConfigLock, canAcquireConfigLock,
           canForceAcquireConfigLock, UpdateConfigData
<1>3. Order'
    BY <1>1 DEF IInv, Order, Waiting
<1>4. \A u \in Sessions : request[u].pc \notin {"acquired", "notify"}
    BY <1>2 DEF IInv, Notified
<1>5. Notified'
    BY <1>1, <1>2, <1>4 DEF Notified
<1>6. Available'
    BY <1>2, Zenon DEF Available
<1> QED BY <1>2, <1>3, <1>5, <1>6

\* The records that the actions write are requests.
LEMMA Requests ==
    /\ NoRequest \in Request
    /\ \A oper \in RequestOper, pc \in RequestPc,
          timeout \in {"zero", "finite", "infinite"} :
         [pc |-> pc, oper |-> oper, timeout |-> timeout] \in Request
    /\ \A r \in Request, pc \in RequestPc :
         /\ [r EXCEPT !.pc = pc] \in Request
         /\ [r EXCEPT !.pc = pc].pc = pc
         /\ [r EXCEPT !.pc = pc].oper = r.oper
BY DEF NoRequest, Request, RequestOper, RequestPc

\* Goto moves one request on.
LEMMA GotoRequest ==
    ASSUME Typed, NEW s \in Sessions, NEW pc \in RequestPc, Goto(s, pc)
    PROVE  \E r \in Request : /\ request' = [request EXCEPT ![s] = r]
                              /\ r.pc = pc /\ r.oper = request[s].oper
<1>1. request[s] \in Request
    BY DEF Typed
<1>2. PICK r \in Request : r = [request[s] EXCEPT !.pc = pc]
    BY <1>1, Requests, Zenon
<1>3. r.pc = pc /\ r.oper = request[s].oper
    BY <1>1, <1>2, Requests
<1> QED BY <1>2, <1>3, Zenon DEF Goto

\* Begin changes one request.
LEMMA BeginRequest ==
    ASSUME Typed, NEW s \in Sessions, NEW oper \in RequestOper,
           NEW pc \in RequestPc, Begin(s, oper, pc)
    PROVE  \E r \in Request : /\ request' = [request EXCEPT ![s] = r]
                              /\ r.pc = pc /\ r.oper = oper
<1>1. PICK r \in Request : r = [pc |-> pc, oper |-> oper, timeout |-> "zero"]
    BY Requests, Zenon
<1> QED BY <1>1, Zenon DEF Begin

\* Answer ends one request.
LEMMA AnswerRequest ==
    ASSUME Typed, NEW s \in Sessions, Answer(s)
    PROVE  \E r \in Request : request' = [request EXCEPT ![s] = r] /\ r.pc = "idle"
BY Requests, Zenon DEF Answer, NoRequest

\* Requests that are only dispatched, and threads that only move on.
LEMMA QuietStep ==
    ASSUME IInv, NEW s \in Sessions,
           \/ DispatchAcquire(s) \/ DispatchForce(s)
           \/ FallAsleep(s) \/ Expire(s) \/ SpuriousWakeUp(s)
    PROVE  IInv'
<1>1. PICK r \in Request :
        /\ request' = [request EXCEPT ![s] = r]
        /\ \/ At(s, "idle") /\ r.pc = "exclusion" /\ r.oper \in {"ACQUIRE", "FORCE"}
           \/ /\ request[s].pc \in Waiting /\ r.pc \in Waiting
              /\ r.oper = request[s].oper
        /\ r.pc # "signalled"
  <2>1. CASE DispatchAcquire(s)
    BY <2>1, BeginRequest DEF DispatchAcquire, IInv, RequestOper, RequestPc
  <2>2. CASE DispatchForce(s)
    BY <2>2, BeginRequest DEF DispatchForce, IInv, RequestOper, RequestPc
  <2>3. CASE FallAsleep(s)
    BY <2>3, GotoRequest DEF FallAsleep, IInv, RequestPc, Waiting, At
  <2>4. CASE Expire(s)
    BY <2>4, GotoRequest DEF Expire, IInv, RequestPc, Waiting, At
  <2>5. CASE SpuriousWakeUp(s)
    BY <2>5, GotoRequest DEF SpuriousWakeUp, IInv, RequestPc, Waiting, At
  <2> QED BY <2>1, <2>2, <2>3, <2>4, <2>5
<1>2. UNCHANGED <<lockVars, queueVars>>
    BY DEF DispatchAcquire, DispatchForce, FallAsleep, Expire, SpuriousWakeUp
<1>3. QueueHoldsWaiters' /\ SignalledIsFirst'
    BY <1>1, <1>2, QueueStays, Zenon DEF IInv, queueVars, Waiting, At
<1>4. r.pc \in Waiting => r.oper = "TIMED"
    BY <1>1 DEF IInv, Order, Waiting
<1>5. ~Releasing(s)
    BY <1>1 DEF Releasing, At, Waiting
<1>6. Order' /\ Notified' /\ Available'
  <2>1. /\ r.pc \in {"exclusion", "acquired"} => r.oper \in {"ACQUIRE", "FORCE"}
        /\ r.pc # "notify" /\ r.pc # "acquired"
    BY <1>1 DEF Waiting
  <2>2. UNCHANGED <<config_mode_available, release_failed>>
    BY <1>2 DEF queueVars
  <2>3. config_mode_available' \in BOOLEAN
    BY <2>2 DEF IInv, Typed
  <2> QED BY <1>1, <1>2, <1>4, <1>5, <2>1, <2>2, <2>3, LockStays, Zenon
<1>7. Typed'
    BY <1>1, <1>2, OneRequest DEF IInv, Typed, lockVars, configVars, queueVars
<1> QED BY <1>3, <1>6, <1>7 DEF IInv

\* SetConfigModeAvailability(FALSE) by a thread that holds the session.
LEMMA SetUnavailableStep ==
    ASSUME IInv, NEW s \in Sessions, SetUnavailable(s)
    PROVE  IInv'
<1>1. PICK r \in Request :
        /\ request' = [request EXCEPT ![s] = r]
        /\ r.pc = "notify" /\ r.oper = request[s].oper
    BY GotoRequest DEF SetUnavailable, IInv, RequestPc
<1>2. /\ At(s, "acquired") /\ config_mode_available' = FALSE
      /\ UNCHANGED <<lockVars, config_req_queue>>
    BY DEF SetUnavailable
<1>3. request[s].oper \in {"ACQUIRE", "FORCE"} /\ is_taken
    BY <1>2 DEF IInv, Order, Notified, At
<1>4. QueueHoldsWaiters' /\ SignalledIsFirst'
    BY <1>1, <1>2, QueueStays, Zenon DEF IInv, Waiting, At
<1>5. Order' /\ Notified' /\ Available'
  <2>1. ~Releasing(s)
    BY <1>2 DEF Releasing, At
  <2> QED BY <1>1, <1>2, <1>3, <2>1, LockStays, Zenon DEF At, Waiting
<1>6. Typed'
    BY <1>1, <1>2, OneRequest, Zenon DEF IInv, Typed, lockVars, configVars
<1> QED BY <1>4, <1>5, <1>6 DEF IInv

\* TcGetExclusion: the request takes the session, or is refused.
LEMMA TcGetExclusionStep ==
    ASSUME IInv, NEW s \in Sessions, TcGetExclusion(s)
    PROVE  IInv'
<1>1. At(s, "exclusion") /\ UNCHANGED queueVars
    BY DEF TcGetExclusion
<1>2. /\ config_req_queue' = config_req_queue
      /\ UNCHANGED <<config_mode_available, release_failed>>
      /\ config_mode_available' \in BOOLEAN
      /\ config_req_queue \in Seq(Sessions)
    BY <1>1 DEF queueVars, IInv, Typed
<1>3. CASE (AcquireConfigLock(s) \/ ForceAcquireConfigLock(s)) /\ Goto(s, "acquired")
  <2>1. PICK r \in Request :
          /\ request' = [request EXCEPT ![s] = r]
          /\ r.pc = "acquired" /\ r.oper = request[s].oper
    BY <1>3, GotoRequest DEF IInv, RequestPc
  <2>2. r.oper \in {"ACQUIRE", "FORCE"}
    BY <1>1, <2>1 DEF IInv, Order, At
  <2>3. /\ is_taken' = TRUE /\ is_notify_pending' = TRUE
        /\ Order' /\ Notified' /\ Available'
    BY <1>3, <2>1, <2>2, LockTaken, Zenon
  <2>4. QueueHoldsWaiters' /\ SignalledIsFirst'
    BY <1>1, <1>2, <2>1, QueueStays, Zenon DEF IInv, Waiting, At
  <2>5. Typed'
    BY <1>2, <2>1, <2>3, OneRequest DEF IInv, Typed
  <2> QED BY <2>3, <2>4, <2>5 DEF IInv
<1>4. CASE UNCHANGED lockVars /\ Answer(s)
  <2>1. PICK r \in Request : request' = [request EXCEPT ![s] = r] /\ r.pc = "idle"
    BY <1>4, AnswerRequest DEF IInv
  <2>2. ~Releasing(s)
    BY <1>1 DEF Releasing, At
  <2>3. Order' /\ Notified' /\ Available'
    BY <1>2, <1>4, <2>1, <2>2, LockStays, Zenon DEF Waiting
  <2>4. QueueHoldsWaiters' /\ SignalledIsFirst'
    BY <1>1, <1>2, <2>1, QueueStays, Zenon DEF IInv, Waiting, At
  <2>5. Typed'
    BY <1>2, <1>4, <2>1, OneRequest DEF IInv, Typed, lockVars, configVars
  <2> QED BY <2>3, <2>4, <2>5 DEF IInv
<1> QED BY <1>3, <1>4 DEF TcGetExclusion

\* A timed request with timeout zero.
LEMMA TimedZeroStep ==
    ASSUME IInv, NEW s \in Sessions, TimedZero(s)
    PROVE  IInv'
<1>1. PICK r \in Request :
        request' = [request EXCEPT ![s] = r] /\ r.pc = "notify" /\ r.oper = "TIMED"
    BY BeginRequest DEF TimedZero, IInv, RequestOper, RequestPc
<1>2. /\ At(s, "idle") /\ AcquireConfigLock(s)
      /\ config_mode_available' = FALSE /\ config_req_queue' = config_req_queue
    BY DEF TimedZero
<1>3. /\ is_taken' = TRUE /\ is_notify_pending' = TRUE
      /\ Order' /\ Notified' /\ Available'
    BY <1>1, <1>2, LockTaken, Zenon
<1>4. QueueHoldsWaiters' /\ SignalledIsFirst'
    BY <1>1, <1>2, QueueStays, Zenon DEF IInv, Waiting, At
<1>5. Typed'
    BY <1>1, <1>2, <1>3, OneRequest, Zenon DEF IInv, Typed
<1> QED BY <1>3, <1>4, <1>5 DEF IInv

\* The end of a wait: the request gives up, or tries the lock once.
LEMMA EndOfWaitStep ==
    ASSUME IInv, NEW s \in Sessions, GiveUp(s) \/ WaitComplete(s)
    PROVE  IInv'
<1>1. request[s].pc \in Waiting /\ RemoveConfigRequest(s)
    BY DEF GiveUp, WaitComplete, At, Waiting
<1>2. CASE UNCHANGED <<lockVars, config_mode_available>> /\ Answer(s)
  <2>1. PICK r \in Request : request' = [request EXCEPT ![s] = r] /\ r.pc = "idle"
    BY <1>2, AnswerRequest DEF IInv
  <2>2. ~Releasing(s)
    BY <1>1 DEF Releasing, At, Waiting
  <2>3. /\ UNCHANGED <<config_mode_available, release_failed>>
        /\ config_mode_available' \in BOOLEAN
    BY <1>2 DEF IInv, Typed, GiveUp, WaitComplete
  <2>4. Order' /\ Notified' /\ Available'
    BY <1>2, <2>1, <2>2, <2>3, LockStays, Zenon DEF Waiting
  <2>5. config_req_queue' \in Seq(Sessions) /\ QueueHoldsWaiters' /\ SignalledIsFirst'
    BY <1>1, <2>1, QueueLeft, Zenon DEF IInv, Waiting
  <2>6. Typed'
    BY <1>2, <2>1, <2>3, <2>5, OneRequest DEF IInv, Typed, lockVars, configVars
  <2> QED BY <2>4, <2>5, <2>6 DEF IInv
<1>3. CASE /\ AcquireConfigLock(s)
           /\ config_mode_available' = FALSE
           /\ Goto(s, "notify")
  <2>1. PICK r \in Request :
          /\ request' = [request EXCEPT ![s] = r]
          /\ r.pc = "notify" /\ r.oper = request[s].oper
    BY <1>3, GotoRequest DEF IInv, RequestPc
  <2>2. r.oper = "TIMED"
    BY <1>1, <2>1 DEF IInv, Order
  <2>3. /\ is_taken' = TRUE /\ is_notify_pending' = TRUE
        /\ Order' /\ Notified' /\ Available'
    BY <1>3, <2>1, <2>2, LockTaken, Zenon
  <2>4. config_req_queue' \in Seq(Sessions) /\ QueueHoldsWaiters' /\ SignalledIsFirst'
    BY <1>1, <2>1, QueueLeft, Zenon DEF IInv, Waiting
  <2>5. Typed'
    BY <1>3, <2>1, <2>3, <2>4, OneRequest, Zenon DEF IInv, Typed
  <2> QED BY <2>3, <2>4, <2>5 DEF IInv
<1> QED BY <1>2, <1>3, Zenon DEF GiveUp, WaitComplete

\* A timed request is queued; it need not wait only if it is alone.
LEMMA InsertConfigRequestStep ==
    ASSUME IInv, NEW s \in Sessions, NEW timeout, InsertConfigRequest(s, timeout)
    PROVE  IInv'
<1>1. /\ timeout \in {"zero", "finite", "infinite"} /\ At(s, "idle")
      /\ config_req_queue' = Append(config_req_queue, s)
      /\ UNCHANGED <<lockVars, config_mode_available, release_failed>>
    BY TcConfigQueueAssumption DEF InsertConfigRequest
<1>2. PICK r \in Request :
        /\ request' = [request EXCEPT ![s] = r]
        /\ r.pc \in {"before_wait", "signalled"} /\ r.oper = "TIMED"
        /\ r.pc = "signalled" => Len(Append(config_req_queue, s)) <= 1
  <2>1. CASE ~config_mode_available \/ ~IsConfigAcquireAllowed(Append(config_req_queue, s))
    <3>1. PICK r \in Request :
            r = [pc |-> "before_wait", oper |-> "TIMED", timeout |-> timeout]
        BY <1>1, Requests, Zenon DEF RequestPc, RequestOper
    <3> QED BY <2>1, <3>1, Zenon DEF InsertConfigRequest
  <2>2. CASE config_mode_available /\ IsConfigAcquireAllowed(Append(config_req_queue, s))
    <3>1. PICK r \in Request :
            r = [pc |-> "signalled", oper |-> "TIMED", timeout |-> timeout]
        BY <1>1, Requests, Zenon DEF RequestPc, RequestOper
    <3> QED BY <2>2, <3>1, Zenon DEF InsertConfigRequest, IsConfigAcquireAllowed
  <2> QED BY <2>1, <2>2
<1>3. /\ request'[s] = r
      /\ \A u \in Sessions : u # s => request'[u] = request[u]
    BY <1>2, OneRequest, Zenon DEF IInv
<1>4. PICK q \in Seq(Sessions) : q = config_req_queue
    BY DEF IInv, Typed
<1>5. PICK n \in Seq(Sessions) : n = Append(q, s)
  <2>1. Append(q, s) \in Seq(Sessions)
    OBVIOUS
  <2> QED BY <2>1, Zenon
<1>6. /\ Len(n) = Len(q) + 1 /\ n[Len(q) + 1] = s /\ n # <<>>
      /\ \A j \in 1 .. Len(q) : n[j] = q[j]
      /\ DOMAIN n = 1 .. Len(q) + 1 /\ DOMAIN q = 1 .. Len(q) /\ Len(q) \in Nat
    BY <1>5
<1>7. s \notin Range(q) /\ IsInjective(q)
    BY <1>1, <1>4 DEF IInv, QueueHoldsWaiters, At
<1>8. Range(n) = Range(q) \cup {s}
  <2>1. \A x \in Range(q) \cup {s} : x \in Range(n)
    BY <1>6 DEF Range
  <2>2. \A x \in Range(n) : x \in Range(q) \cup {s}
    BY <1>6 DEF Range
  <2> QED BY <2>1, <2>2
<1>9. IsInjective(n)
    BY <1>6, <1>7 DEF IsInjective, Range
<1>10. config_req_queue' = n
    BY <1>1, <1>4, <1>5
<1>11. QueueHoldsWaiters'
  <2>1. \A u \in Sessions :
          request'[u].pc \in Waiting <=> request[u].pc \in Waiting \/ u = s
    BY <1>2, <1>3 DEF Waiting
  <2>2. Range(n) = {u \in Sessions : request'[u].pc \in Waiting}
    BY <1>4, <1>8, <2>1 DEF IInv, QueueHoldsWaiters, Waiting
  <2> QED BY <1>9, <1>10, <2>2, Zenon DEF QueueHoldsWaiters, Waiting
<1>12. SignalledIsFirst'
  <2>1. ASSUME NEW u \in Sessions, request'[u].pc = "signalled"
        PROVE  n # <<>> /\ Head(n) = u
    <3>1. CASE u = s
      <4>1. Len(q) = 0
        BY <1>2, <1>3, <1>4, <1>5, <1>6, <2>1, <3>1
      <4> QED BY <1>6, <4>1, <3>1
    <3>2. CASE u # s
      <4>1. q # <<>> /\ Head(q) = u
        BY <1>3, <1>4, <2>1, <3>2 DEF IInv, SignalledIsFirst, At
      <4> QED BY <1>6, <4>1
    <3> QED BY <3>1, <3>2
  <2> QED BY <1>10, <2>1 DEF SignalledIsFirst, At
<1>13. Order' /\ Notified' /\ Available'
  <2>1. ~Releasing(s)
    BY <1>1 DEF Releasing, At
  <2>2. config_mode_available' \in BOOLEAN
    BY <1>1 DEF IInv, Typed
  <2> QED BY <1>1, <1>2, <2>1, <2>2, LockStays, Zenon DEF Waiting
<1>14. Typed'
    BY <1>1, <1>2, <1>10, OneRequest DEF IInv, Typed, lockVars, configVars
<1> QED BY <1>11, <1>12, <1>13, <1>14 DEF IInv

\* The notification of an acquisition is over.
LEMMA NotifyAcquireStep ==
    ASSUME IInv, NEW s \in Sessions, NotifyAcquire(s)
    PROVE  IInv'
<1>1. PICK r \in Request : request' = [request EXCEPT ![s] = r] /\ r.pc = "idle"
    BY AnswerRequest DEF NotifyAcquire, IInv
<1>2. /\ request'[s] = r
      /\ \A u \in Sessions : u # s => request'[u] = request[u]
    BY <1>1, OneRequest, Zenon DEF IInv
<1>3. /\ At(s, "notify") /\ request[s].oper # "RELEASE"
      /\ is_notify_pending' = FALSE /\ is_taken' = is_taken
      /\ config_req_queue' = config_req_queue
      /\ UNCHANGED <<config_mode_available, release_failed>>
    BY DEF NotifyAcquire, NotifyConfigIdSessionIdDone, queueVars
<1>4. \A u \in Sessions : u # s => request[u].pc \notin {"acquired", "notify"}
    BY <1>3 DEF IInv, Notified, At
<1>5. Order' /\ Notified'
    BY <1>1, <1>2, <1>4, SMTT(30) DEF IInv, Order, Notified, Waiting
<1>6. Available'
  <2>1. \A u \in Sessions : Releasing(u) => Releasing(u)'
    BY <1>2, <1>3 DEF Releasing, At
  <2> QED BY <1>3, <2>1 DEF IInv, Available
<1>7. QueueHoldsWaiters' /\ SignalledIsFirst'
    BY <1>1, <1>3, QueueStays, Zenon DEF IInv, Waiting, At
<1>8. Typed'
    BY <1>1, <1>3, OneRequest, Zenon DEF IInv, Typed
<1> QED BY <1>5, <1>6, <1>7, <1>8 DEF IInv

\* A release is dispatched, and the lock table is free at once.
LEMMA DispatchReleaseStep ==
    ASSUME IInv, NEW s \in Sessions, DispatchRelease(s)
    PROVE  IInv'
<1>1. PICK r \in Request :
        request' = [request EXCEPT ![s] = r] /\ r.pc = "notify" /\ r.oper = "RELEASE"
    BY BeginRequest DEF DispatchRelease, IInv, RequestOper, RequestPc
<1>2. /\ request'[s] = r
      /\ \A u \in Sessions : u # s => request'[u] = request[u]
    BY <1>1, OneRequest, Zenon DEF IInv
<1>3. /\ At(s, "idle") /\ ~is_notify_pending
      /\ is_notify_pending' = TRUE /\ is_taken' = FALSE
      /\ session_id' = s
      /\ config_req_queue' = config_req_queue
      /\ config_mode_available' = config_mode_available
    BY DEF DispatchRelease, ReleaseConfigLock, canReleaseConfigLock, queueVars
<1>4. \A u \in Sessions : request[u].pc \notin {"acquired", "notify"}
    BY <1>3 DEF IInv, Notified
<1>5. Order' /\ Notified'
    BY <1>1, <1>2, <1>3, <1>4 DEF IInv, Order, Notified, Waiting
<1>6. Available'
    BY <1>1, <1>2 DEF Available, Releasing, At
<1>7. QueueHoldsWaiters' /\ SignalledIsFirst'
    BY <1>1, <1>3, QueueStays, Zenon DEF IInv, Waiting, At
<1>8. Typed'
    BY <1>1, <1>3, OneRequest, Zenon DEF IInv, Typed
<1> QED BY <1>5, <1>6, <1>7, <1>8 DEF IInv

\* The notification of a release is over.
LEMMA NotifyReleaseStep ==
    ASSUME IInv, NEW s \in Sessions, NotifyRelease(s)
    PROVE  IInv'
<1>1. PICK r \in Request : /\ request' = [request EXCEPT ![s] = r]
                           /\ r.pc = "released" \/ (release_failed' /\ r.pc = "idle")
  <2>1. CASE Goto(s, "released")
    BY <2>1, GotoRequest DEF IInv, RequestPc
  <2>2. CASE Answer(s) /\ release_failed'
    BY <2>2, AnswerRequest DEF IInv
  <2> QED BY <2>1, <2>2 DEF NotifyRelease
<1>2. /\ request'[s] = r
      /\ \A u \in Sessions : u # s => request'[u] = request[u]
    BY <1>1, OneRequest, Zenon DEF IInv
<1>3. /\ At(s, "notify") /\ is_notify_pending' = FALSE /\ is_taken' = is_taken
      /\ config_req_queue' = config_req_queue
      /\ config_mode_available' = config_mode_available
    BY DEF NotifyRelease, NotifyConfigIdSessionIdDone
<1>4. \A u \in Sessions : u # s => request[u].pc \notin {"acquired", "notify"}
    BY <1>3 DEF IInv, Notified, At
<1>5. Order' /\ Notified'
    BY <1>1, <1>2, <1>4 DEF IInv, Order, Notified, Waiting
<1>6. Available'
    BY <1>1, <1>2 DEF Available, Releasing, At
<1>7. QueueHoldsWaiters' /\ SignalledIsFirst'
    BY <1>1, <1>3, QueueStays, Zenon DEF IInv, Waiting, At
<1>8. Typed'
    BY <1>1, <1>3, OneRequest, Zenon DEF IInv, Typed
<1> QED BY <1>5, <1>6, <1>7, <1>8 DEF IInv

\* HandleConfigRelease: the flag is set, and the first request is woken.
LEMMA HandleConfigReleaseStep ==
    ASSUME IInv, NEW s \in Sessions, HandleConfigRelease(s)
    PROVE  IInv'
<1>1. /\ At(s, "released") /\ config_mode_available' = TRUE
      /\ UNCHANGED <<lockVars, config_req_queue>>
    BY DEF HandleConfigRelease
<1>2. /\ UNCHANGED <<is_taken, is_notify_pending, session_id>>
      /\ config_req_queue' = config_req_queue
    BY <1>1 DEF lockVars, configVars
<1>3. request' = [u \in Sessions |->
                    IF u = s THEN NoRequest
                    ELSE IF /\ config_req_queue # <<>>
                            /\ u = Head(config_req_queue)
                            /\ At(u, "sleeping")
                    THEN [request[u] EXCEPT !.pc = "signalled"]
                    ELSE request[u]]
    BY DEF HandleConfigRelease
<1>4. ASSUME NEW u \in Sessions
      PROVE  /\ request'[u] \in Request
             /\ u = s => request'[u].pc = "idle"
             /\ \/ u = s
                \/ request'[u] = request[u]
                \/ /\ config_req_queue # <<>> /\ u = Head(config_req_queue)
                   /\ request[u].pc = "sleeping" /\ request'[u].pc = "signalled"
                   /\ request'[u].oper = request[u].oper
  <2>1. request[u] \in Request /\ "signalled" \in RequestPc
    BY DEF IInv, Typed, RequestPc
  <2>2. PICK r \in Request : r = [request[u] EXCEPT !.pc = "signalled"]
    BY <2>1, Requests, Zenon
  <2>3. r.pc = "signalled" /\ r.oper = request[u].oper
    BY <2>1, <2>2, Requests
  <2>4. request'[u] = IF u = s THEN NoRequest
                      ELSE IF /\ config_req_queue # <<>>
                              /\ u = Head(config_req_queue)
                              /\ At(u, "sleeping")
                      THEN r ELSE request[u]
    BY <1>3, <2>2
  <2>5. NoRequest \in Request /\ NoRequest.pc = "idle"
    BY Requests DEF NoRequest
  <2> QED BY <2>1, <2>3, <2>4, <2>5 DEF At
<1>5. Order'
    BY <1>4, SMTT(30) DEF IInv, Order, Waiting
<1>6. Notified'
    BY <1>2, <1>4 DEF IInv, Notified
<1>7. Available'
    BY <1>1, Zenon DEF Available
<1>8. QueueHoldsWaiters'
  <2>1. \A u \in Sessions : request'[u].pc \in Waiting <=> request[u].pc \in Waiting
    BY <1>1, <1>4 DEF Waiting, At
  <2> QED BY <1>2, <2>1 DEF IInv, QueueHoldsWaiters, Waiting
<1>9. SignalledIsFirst'
    BY <1>2, <1>4 DEF IInv, SignalledIsFirst, At
<1>10. Typed'
  <2>1. request' \in [Sessions -> Request]
    BY <1>3, <1>4
  <2> QED BY <1>1, <1>2, <2>1 DEF IInv, Typed
<1> QED BY <1>5, <1>6, <1>7, <1>8, <1>9, <1>10 DEF IInv

\* No request is made yet, and the configuration mode is free and available.
LEMMA InitIInv == Init => IInv
<1> SUFFICES ASSUME Init PROVE IInv
    OBVIOUS
<1>1. \A s \in Sessions : request[s] = NoRequest /\ request[s].pc = "idle"
    BY DEF Init, NoRequest
<1>2. Typed
  <2>1. request \in [Sessions -> Request]
    BY Requests, Zenon DEF Init
  <2>2. config_req_queue \in Seq(Sessions)
    BY DEF Init
  <2> QED BY <2>1, <2>2, Zenon DEF Init, LockFree, Typed
<1>3. Order /\ Notified /\ Available /\ SignalledIsFirst
    BY <1>1 DEF Init, Order, Notified, Available, SignalledIsFirst, Waiting, At
<1>4. QueueHoldsWaiters
  <2>1. DOMAIN config_req_queue = {}
    BY DEF Init
  <2>2. IsInjective(config_req_queue) /\ Range(config_req_queue) = {}
    BY <2>1, Zenon DEF IsInjective, Range
  <2> QED BY <1>1, <2>2 DEF QueueHoldsWaiters
<1> QED BY <1>2, <1>3, <1>4 DEF IInv

\* Every step of every thread keeps the invariant.
LEMMA NextIInv == IInv /\ [Next]_vars => IInv'
<1> SUFFICES ASSUME IInv, [Next]_vars PROVE IInv'
    OBVIOUS
<1>1. CASE Next
  <2>1. PICK s \in Sessions : Arrival(s) \/ Progress(s) \/ SpuriousWakeUp(s)
    BY <1>1 DEF Next
  <2>2. CASE Arrival(s)
    BY <2>2, QuietStep, DispatchReleaseStep, TimedZeroStep, InsertConfigRequestStep
       DEF Arrival
  <2>3. CASE Progress(s)
    BY <2>3, QuietStep, TcGetExclusionStep, SetUnavailableStep, EndOfWaitStep,
       NotifyAcquireStep, NotifyReleaseStep, HandleConfigReleaseStep DEF Progress
  <2>4. CASE SpuriousWakeUp(s)
    BY <2>4, QuietStep
  <2> QED BY <2>1, <2>2, <2>3, <2>4
<1>2. CASE UNCHANGED vars
  <2>1. UNCHANGED <<is_taken, is_notify_pending, session_id, config_mode_available,
                    config_req_queue, request, release_failed>>
    BY <1>2 DEF vars, lockVars, configVars, queueVars
  <2>2. Typed' /\ Order' /\ Notified'
    BY <2>1 DEF IInv, Typed, Order, Notified
  <2>3. QueueHoldsWaiters' /\ SignalledIsFirst'
    BY <2>1 DEF IInv, QueueHoldsWaiters, SignalledIsFirst, At
  <2>4. Available'
    BY <2>1 DEF IInv, Available, Releasing, At
  <2> QED BY <2>2, <2>3, <2>4 DEF IInv
<1> QED BY <1>1, <1>2

\* The lock table, the flag config_mode_available_, the queue and the threads of
\* tc_config_operations.cc agree at every step: IInv is an invariant.
THEOREM QueueInvariance == Spec => []IInv
BY InitIInv, NextIInv, PTL DEF Spec

\* InsertConfigRequest and RemoveConfigRequest keep exactly the waiting requests in
\* config_req_queue_, each once, whatever expires, fails or wakes up spuriously.
THEOREM QueueHoldsWaitersHolds == Spec => []QueueHoldsWaiters
<1>1. IInv => QueueHoldsWaiters
    BY DEF IInv
<1> QED BY <1>1, QueueInvariance, PTL

\* config_mode_available_ is set whenever the configuration mode is free and no
\* thread is in the middle of a request, unless the notification of a release has
\* failed and no release has succeeded since.
THEOREM FreeModeIsAvailableHolds == Spec => []FreeModeIsAvailable
<1>1. IInv => FreeModeIsAvailable
    BY DEF IInv, Available, Releasing, At, FreeModeIsAvailable, Quiet
<1> QED BY <1>1, QueueInvariance, PTL

\* A timed request with a timeout, which HandleTimedConfigAcquisition queues, is
\* granted only when it is the first in the queue, unless pthread_cond_wait has
\* returned without a signal: whatever expires, fails or passes the queue with
\* timeout zero.
THEOREM EarlierRequestsFirstHolds == Spec => EarlierRequestsFirst
<1> DEFINE Granted ==
      \A s \in Sessions :
         /\ request'[s].oper = "TIMED" /\ request'[s].pc = "notify"
         /\ request[s].pc \notin {"notify", "woken"}
         /\ request'[s].timeout # "zero"
         => config_req_queue # <<>> /\ Head(config_req_queue) = s
<1>1. IInv /\ [Next]_vars => [Granted]_vars
  <2> SUFFICES ASSUME IInv, Next, NEW s \in Sessions,
                      request'[s].oper = "TIMED", request'[s].pc = "notify",
                      request[s].pc \notin {"notify", "woken"},
                      request'[s].timeout # "zero"
               PROVE  config_req_queue # <<>> /\ Head(config_req_queue) = s
    OBVIOUS
  <2>1. PICK t \in Sessions : Arrival(t) \/ Progress(t) \/ SpuriousWakeUp(t)
    BY DEF Next
  <2>2. CASE WaitComplete(t)
    <3>1. At(t, "signalled") \/ At(t, "woken")
        BY <2>2 DEF WaitComplete
    <3>2. At(t, "signalled") => config_req_queue # <<>> /\ Head(config_req_queue) = t
        BY DEF IInv, SignalledIsFirst
    <3>3. \A u \in Sessions : u # t => request'[u] = request[u]
        BY <2>2, GotoRequest, AnswerRequest, OneRequest
           DEF WaitComplete, IInv, RequestPc
    <3> QED BY <3>1, <3>2, <3>3 DEF At
  <2>3. CASE HandleConfigRelease(t)
    <3>1. request[s] \in Request
        BY DEF IInv, Typed
    <3>2. \/ request'[s] = NoRequest \/ request'[s] = request[s]
          \/ request'[s] = [request[s] EXCEPT !.pc = "signalled"]
        BY <2>3 DEF HandleConfigRelease
    <3>3. [request[s] EXCEPT !.pc = "signalled"].pc = "signalled"
        BY <3>1, Requests, Zenon DEF RequestPc
    <3>4. NoRequest.pc = "idle"
        BY DEF NoRequest
    <3> QED BY <3>2, <3>3, <3>4, Zenon
  <2>4. CASE SetUnavailable(t)
    <3>1. request[t].oper # "TIMED"
        BY <2>4 DEF SetUnavailable, IInv, Order, At
    <3>2. PICK r \in Request : /\ request' = [request EXCEPT ![t] = r]
                               /\ r.oper = request[t].oper
        BY <2>4, GotoRequest DEF SetUnavailable, IInv, RequestPc
    <3> QED BY <3>1, <3>2, OneRequest DEF IInv
  <2>5. CASE ~WaitComplete(t) /\ ~HandleConfigRelease(t) /\ ~SetUnavailable(t)
    <3>1. ASSUME NEW r \in Request, request' = [request EXCEPT ![t] = r],
                 r.pc # "notify" \/ r.oper # "TIMED"
          PROVE  FALSE
        BY <3>1, OneRequest DEF IInv
    <3>2. CASE Answer(t)
        BY <3>1, <3>2, AnswerRequest DEF IInv
    <3>3. ASSUME NEW pc \in RequestPc \ {"notify"}, Goto(t, pc) PROVE FALSE
        BY <3>1, <3>3, GotoRequest DEF IInv
    <3>4. ASSUME NEW pc \in RequestPc, NEW oper \in RequestOper \ {"TIMED"},
                 Begin(t, oper, pc)
          PROVE  FALSE
        BY <3>1, <3>4, BeginRequest, SMTT(30) DEF IInv
    <3>5. CASE Arrival(t)
      <4>1. CASE \E timeout \in Timeouts : InsertConfigRequest(t, timeout)
        <5>1. PICK timeout \in Timeouts : InsertConfigRequest(t, timeout)
            BY <4>1
        <5>2. PICK pc \in RequestPc \ {"notify"} :
                request' = [request EXCEPT ![t] =
                              [pc |-> pc, oper |-> "TIMED", timeout |-> timeout]]
            BY <5>1 DEF InsertConfigRequest, RequestPc
        <5>3. PICK r \in Request :
                r = [pc |-> pc, oper |-> "TIMED", timeout |-> timeout]
            BY Requests, TcConfigQueueAssumption, Zenon DEF RequestOper
        <5> QED BY <3>1, <5>2, <5>3
      <4>2. CASE TimedZero(t)
        <5>1. PICK r \in Request :
                r = [pc |-> "notify", oper |-> "TIMED", timeout |-> "zero"]
            BY Requests, Zenon DEF RequestPc, RequestOper
        <5>2. request' = [request EXCEPT ![t] = r] /\ r.timeout = "zero"
            BY <4>2, <5>1 DEF TimedZero, Begin
        <5> QED BY <5>2, OneRequest DEF IInv
      <4> QED BY <2>1, <3>4, <3>5, <4>1, <4>2
          DEF Arrival, DispatchAcquire, DispatchForce, DispatchRelease,
              RequestPc, RequestOper
    <3>6. CASE Progress(t)
        BY <2>5, <3>2, <3>3, <3>6
           DEF Progress, TcGetExclusion, FallAsleep, Expire, GiveUp, NotifyAcquire,
               NotifyRelease, RequestPc
    <3>7. CASE SpuriousWakeUp(t)
        BY <3>3, <3>7 DEF SpuriousWakeUp, RequestPc
    <3> QED BY <2>1, <3>5, <3>6, <3>7
  <2> QED BY <2>2, <2>3, <2>4, <2>5
<1>2. Spec => [][Granted]_vars
    BY <1>1, QueueInvariance, PTL DEF Spec
<1> QED BY <1>2 DEF EarlierRequestsFirst
=============================================================================
