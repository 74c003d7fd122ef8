--------------------------- MODULE TcTransaction ---------------------------
(***************************************************************************)
(* What the transaction coordinator (TC) does for one operation once it    *)
(* holds the exclusion modelled in TcOperations: the two-phase commit of   *)
(* the candidate configuration (tcmsg_commit.cc), the audit of a           *)
(* controller (tcmsg_audit.cc), the abort of the candidate and the saving  *)
(* and clearing of the startup configuration, each as the sequence of      *)
(* synchronous messages it sends to the daemons; the recovery row it keeps *)
(* in its database; and the failover that reads it.                        *)
(*                                                                         *)
(* tc.todo holds the daemons the current message is still to be sent to,   *)
(* tc.acked the ones that accepted it (abort_on_fail_), tc.named the       *)
(* driver types UPLL names in its vote (driverinfo_map_), tc.audited the   *)
(* driver of the audited controller, and tc.ret the TcOperRet with which   *)
(* the operation will end.                                                 *)
(*                                                                         *)
(* handled and ended are history: which handlers ran in the current        *)
(* operation; how the last one ended, whether any has ended without        *)
(* closing the transaction it opened (dirty), and the operation that a     *)
(* crash has cut with its row in place, and that has not been redone since *)
(* nor lost by a superfluous save (cut).                                   *)
(***************************************************************************)
EXTENDS TcLib, SequencesExt

CONSTANTS
  MaxLate,              \* operations that have released the exclusion and not
                        \* sent their response when another starts
  MaxFaults,            \* failing IPC exchanges and database writes
  MaxCrashes,           \* crashes of the node
  MaxRestarts,          \* crashes after which operations begin again
  MaxFailoverInstance   \* max_failover_instance of tc.conf

ASSUME BoundsAssumption ==
  {MaxLate, MaxFaults, MaxCrashes, MaxRestarts, MaxFailoverInstance} \subseteq Nat

VARIABLES tc, unc_state, recovery, responses, handled, ended, faults, crashes

tcVars == <<tc, unc_state, recovery, responses, handled, ended, faults, crashes>>
vars == <<libVars, tcVars>>

NoRow == [oper |-> "NONE", failover_instance |-> 0]

Idle == [oper |-> "NONE", phase |-> "IDLE", todo |-> <<>>, acked |-> <<>>,
         named |-> {}, audited |-> "NONE", recorded |-> FALSE, ret |-> "SUCCESS"]

Audits == {"USER_AUDIT", "DRIVER_AUDIT"}
Kind == IF tc.oper = "COMMIT" THEN "COMMIT" ELSE "AUDIT"

NothingHandled == [voted |-> {}, committed |-> {}, aborted |-> {}]

-----------------------------------------------------------------------------
(* Who is told, in which order; daemons that are not running are skipped.  *)

Running(order) == SelectSeq(order, LAMBDA d : d \in Daemons)

TransStartOrder(kind) ==
  Running(IF kind = "COMMIT"
          THEN <<"ODL", "OPENFLOW", "OVERLAY", "POLC", "UPLL", "UPPL">>
          ELSE <<"ODL", "POLC", "UPLL", "UPPL">>)

TransEndOrderShort ==
  Running(<<"UPPL", "UPLL", "OVERLAY", "OPENFLOW", "ODL">>)

TransEndOrder ==
  Running(<<"UPPL", "UPLL", "POLC", "OVERLAY", "OPENFLOW", "ODL">>)

(* driverinfo_map_ is ordered by controller type: PFC, VNP, POLC, ODC. *)
NamedDrivers ==
  SelectSeq(Running(<<"OPENFLOW", "OVERLAY", "POLC", "ODL">>),
            LAMBDA d : d \in tc.named)

UpllUppl == <<"UPLL", "UPPL">>

(* The daemons that vote in the current transaction. *)
Asked == {"UPLL", "UPPL"} \cup (tc.named \cap Drivers)

-----------------------------------------------------------------------------
(* One synchronous exchange with the daemon at the head of tc.todo.        *)

(* The handlers that ran for the current operation. *)
Note(d, msg, ran, ok) ==
  handled' = [voted     |-> IF ok /\ msg[2] \in {"VOTE", "DRIVER_VOTE"}
                            THEN handled.voted \cup {d} ELSE handled.voted,
              committed |-> IF ok /\ msg[2] \in {"GLOBAL", "DRIVER_GLOBAL"}
                            THEN handled.committed \cup {d} ELSE handled.committed,
              aborted   |-> IF ran /\ msg[2] = "ABORT"
                            THEN handled.aborted \cup {d} ELSE handled.aborted]

Refused(d, msg) == ~Accepts(d, msg, tc.audited)

(* The message reaches the library of d. *)
Deliver(d, msg, ok) ==
  /\ Receive(d, msg, tc.audited, ok)
  /\ Note(d, msg, ~Refused(d, msg), ok /\ ~Refused(d, msg))

Fault == faults < MaxFaults /\ faults' = faults + 1

(* SUCCESS and FAILURE are what the library answers. FATAL stands for an   *)
(* error of the IPC call: tc_session_invoke turns every one of them, and   *)
(* the failure to open a session, into a fatal return, and TC cannot tell  *)
(* whether the message was handled.                                        *)
Exchange(name, ret) ==
  LET d   == Head(tc.todo)
      msg == <<Kind, name>>
  IN  \/ /\ ret \in {"SUCCESS", "FAILURE"}
         /\ \E ok \in HandlerReturns(d, msg) :
              /\ Deliver(d, msg, ok)
              /\ (ret = "SUCCESS") = (ok /\ ~Refused(d, msg))
         /\ UNCHANGED faults
      \/ /\ ret = "FATAL"
         /\ Fault
         /\ \/ UNCHANGED <<libVars, handled>>
            \/ \E ok \in HandlerReturns(d, msg) : Deliver(d, msg, ok)

(* An exchange that does not go through the sequence check of the library. *)
PlainExchange(ret) ==
  /\ \/ ret \in {"SUCCESS", "FAILURE"} /\ UNCHANGED faults
     \/ ret = "FATAL" /\ Fault
  /\ UNCHANGED <<libVars, handled>>

Rets == {"SUCCESS", "FAILURE", "FATAL"}

-----------------------------------------------------------------------------
(* Moving from one message to the next.                                    *)

OneLeft == Len(tc.todo) = 1

(* The head of tc.todo accepted. *)
Sent == [tc EXCEPT !.todo = Tail(@), !.acked = Append(@, Head(tc.todo))]

(* A new message object: its abort_on_fail_ is empty. *)
To(phase, todo) ==
  [tc EXCEPT !.phase = phase, !.todo = todo, !.acked = <<>>]

(* Another recipient list of the same message object. *)
Then(t, phase, todo) == [t EXCEPT !.phase = phase, !.todo = todo]

Keep == UNCHANGED <<unc_state, recovery, responses, ended, crashes>>

Continue(t) == tc' = t /\ Keep

(* Execute has returned ret: Dispatch or RevokeOperation releases the      *)
(* exclusion. A successful commit, abort, save or clear has a response     *)
(* still to send, which clears the recovery row.                           *)
Finish(ret) ==
  /\ tc' = Idle
  /\ ended' = [ended EXCEPT !.oper = tc.oper, !.ret = ret, !.asked = Asked,
                            !.dirty = @ \/ ret = "FATAL"]
  /\ responses' = responses
       + (IF ret = "SUCCESS" /\ tc.oper \notin Audits THEN 1 ELSE 0)
  /\ UNCHANGED <<unc_state, recovery, crashes>>

WriteRow(oper) == recovery' = [oper |-> oper, failover_instance |-> 0]

-----------------------------------------------------------------------------
(* The operations begin.                                                   *)

Begin(t) ==
  /\ unc_state = "ACT" /\ tc = Idle /\ responses <= MaxLate
  /\ crashes <= MaxRestarts
  /\ tc' = t
  /\ handled' = NothingHandled
  /\ ended' = [ended EXCEPT !.oper = "NONE", !.ret = "SUCCESS", !.asked = {}]
  /\ UNCHANGED <<libVars, unc_state, responses, crashes>>

BeginCommit ==
  /\ Begin([Idle EXCEPT !.oper = "COMMIT", !.phase = "TRANS_START",
                        !.todo = TransStartOrder("COMMIT")])
  /\ UNCHANGED <<recovery, faults>>

(* A user names a controller, whose driver UPPL has to tell; an audit a    *)
(* driver asks for carries the driver's own type.                          *)
BeginUserAudit ==
  /\ Begin([Idle EXCEPT !.oper = "USER_AUDIT", !.phase = "GET_DRIVERID",
                        !.todo = <<"UPPL">>])
  /\ UNCHANGED <<recovery, faults>>

AuditStartOrder(driver) == <<driver, "UPPL", "UPLL">>

BeginDriverAudit ==
  /\ \E d \in Drivers :
       Begin([Idle EXCEPT !.oper = "DRIVER_AUDIT", !.phase = "AUDIT_START",
                          !.audited = d, !.todo = AuditStartOrder(d)])
  /\ UNCHANGED <<recovery, faults>>

(* Aborting the candidate goes on when the row cannot be written. *)
BeginAbortCandidate ==
  \E recorded \in BOOLEAN :
    /\ Begin([Idle EXCEPT !.oper = "ABORT", !.phase = "DATABASE",
                          !.todo = UpllUppl, !.recorded = recorded])
    /\ IF recorded THEN WriteRow("ABORT") /\ UNCHANGED faults
                   ELSE Fault /\ UNCHANGED recovery

(* Saving and clearing the startup configuration without auto-save. When   *)
(* the row cannot be written the operation ends having done nothing.       *)
BeginStartupDb ==
  \E oper \in {"SAVE", "CLEAR"} :
    /\ Begin([Idle EXCEPT !.oper = oper, !.phase = "DATABASE",
                          !.todo = UpllUppl, !.recorded = TRUE])
    /\ WriteRow(oper)
    /\ UNCHANGED faults

(* With auto-save, a request to save takes no exclusion, asks for no state *)
(* of TC, sends nothing and answers success; its SendAdditionalResponse    *)
(* clears the recovery row, whatever else is going on.                     *)
(* (A request to clear is answered TC_OPER_FORBIDDEN and changes nothing.) *)
SaveWithAutoSave ==
  /\ recovery # NoRow
  /\ recovery' = NoRow
  /\ ended' = [ended EXCEPT !.cut = "NONE"]
  /\ UNCHANGED <<libVars, tc, unc_state, responses, handled, faults, crashes>>

(* SendResponse, after the exclusion has been released. The row stays when *)
(* the answer cannot be forwarded or the row not be written.               *)
SendResponse ==
  /\ responses > 0
  /\ responses' = responses - 1
  /\ \/ recovery' = NoRow /\ UNCHANGED faults
     \/ Fault /\ UNCHANGED recovery
  /\ UNCHANGED <<libVars, tc, unc_state, handled, ended, crashes>>

-----------------------------------------------------------------------------
(* Audits: the messages around the transaction.                            *)

(* GetDriverType: UNC_CT_UNKNOWN, or an error, ends the audit with         *)
(* TC_OPER_ABORT; a driver that is not running with NO_DRIVER.             *)
SendGetDriverId ==
  /\ tc.phase = "GET_DRIVERID"
  /\ \/ /\ GetDriverId("UPPL")
        /\ UNCHANGED <<handled, faults>>
        /\ \/ \E d \in Drivers :
                Continue([To("AUDIT_START", AuditStartOrder(d)) EXCEPT !.audited = d])
           \/ DriverTypes \ Drivers # {} /\ Finish("NO_DRIVER")
           \/ Finish("ABORT")
     \/ /\ Fault
        /\ GetDriverId("UPPL") \/ UNCHANGED libVars
        /\ UNCHANGED handled
        /\ Finish("ABORT")

AuditEndOrder == <<"UPPL", "UPLL", tc.audited>>

(* A driver may answer that a simplified audit, without a transaction, is  *)
(* enough for the audit it asked for.                                      *)
SendAuditStart ==
  /\ tc.phase = "AUDIT_START"
  /\ \E ret \in Rets :
       /\ Exchange("START", ret)
       /\ CASE ret = "SUCCESS" /\ ~OneLeft -> Continue(Sent)
            [] ret = "SUCCESS" /\ OneLeft ->
                 \/ Continue(To("TRANS_START", TransStartOrder("AUDIT")))
                 \/ /\ tc.oper = "DRIVER_AUDIT"
                    /\ Continue(To("AUDIT_END", AuditEndOrder))
            [] ret = "FAILURE" ->
                 IF tc.acked = <<>> THEN Finish("ABORT")
                 ELSE Continue(To("UNDO_AUDIT_START", Reverse(tc.acked)))
            [] ret = "FATAL" -> Finish("FATAL")

UndoAuditStart ==
  /\ tc.phase = "UNDO_AUDIT_START"
  /\ \E ret \in Rets :
       /\ Exchange("END", ret)
       /\ CASE ret = "SUCCESS" /\ ~OneLeft -> Continue(Sent)
            [] ret = "SUCCESS" /\ OneLeft -> Finish("ABORT")
            [] ret # "SUCCESS" -> Finish("FATAL")

(* The end of a successful audit clears the row while the exclusion is     *)
(* still held; when that fails the audit is answered TC_OPER_FAILURE.      *)
SendAuditEnd ==
  /\ tc.phase = "AUDIT_END"
  /\ \E ret \in Rets :
       /\ Exchange("END", ret)
       /\ CASE ret = "SUCCESS" /\ ~OneLeft -> Continue(Sent)
            [] ret = "SUCCESS" /\ OneLeft /\ tc.ret = "SUCCESS" ->
                 Continue(To("CLEAR_ROW", <<>>))
            [] ret = "SUCCESS" /\ OneLeft /\ tc.ret # "SUCCESS" -> Finish(tc.ret)
            [] ret # "SUCCESS" -> Finish("FATAL")

ClearRowAfterAudit ==
  /\ tc.phase = "CLEAR_ROW"
  /\ tc' = Idle
  /\ \/ /\ recovery' = NoRow
        /\ ended' = [ended EXCEPT !.oper = tc.oper, !.asked = Asked]
        /\ UNCHANGED faults
     \/ /\ Fault
        /\ ended' = [ended EXCEPT !.oper = tc.oper, !.ret = "OPER_FAILURE", !.asked = Asked]
        /\ UNCHANGED recovery
  /\ UNCHANGED <<libVars, unc_state, responses, handled, crashes>>

-----------------------------------------------------------------------------
(* The transaction: CommitTransaction, TwoPhaseCommit and their audit      *)
(* counterparts AuditTransaction and TwoPhaseAudit.                        *)

(* No transaction is left to end: a failed commit is over, a failed audit  *)
(* still sends AUDIT_END.                                                  *)
GiveUp ==
  IF tc.oper = "COMMIT" THEN Finish("ABORT")
  ELSE Continue([To("AUDIT_END", AuditEndOrder) EXCEPT !.ret = "ABORT"])

SendTransStart ==
  /\ tc.phase = "TRANS_START"
  /\ \E ret \in Rets :
       /\ Exchange("TRANS_START", ret)
       /\ CASE ret = "SUCCESS" /\ ~OneLeft -> Continue(Sent)
            [] ret = "SUCCESS" /\ OneLeft -> Continue(To("VOTE", UpllUppl))
            [] ret = "FAILURE" ->
                 IF tc.acked = <<>> THEN GiveUp
                 ELSE Continue(To("UNDO_TRANS_START", Reverse(tc.acked)))
            [] ret = "FATAL" -> Finish("FATAL")

(* SendTransEndRequest: the daemons that started, last first. *)
UndoTransStart ==
  /\ tc.phase = "UNDO_TRANS_START"
  /\ \E ret \in Rets :
       /\ Exchange("TRANS_END", ret)
       /\ CASE ret = "SUCCESS" /\ ~OneLeft -> Continue(Sent)
            [] ret = "SUCCESS" /\ OneLeft -> GiveUp
            [] ret # "SUCCESS" -> Finish("FATAL")

(* TransVoteMsg and AuditVote after a vote that failed with ret: nothing   *)
(* more is sent after a fatal error.                                       *)
VoteFailed(ret) ==
  IF ret = "FATAL" THEN Finish("FATAL")
  ELSE Continue([To("TRANS_END", TransEndOrder) EXCEPT !.ret = ret])

(* SendAbortRequest is called when some daemon has voted. ret is what      *)
(* Execute returns once the abort has been accepted.                       *)
AbortVote(ret) ==
  Continue([Then(tc, "ABORT", tc.acked) EXCEPT !.ret = ret])

(* The vote is in: on to the drivers, then to forwarding their results. *)
ToDrivers(t, driver_phase, result_phase, todo) ==
  IF todo = <<>> THEN Then(t, result_phase, UpllUppl)
  ELSE Then(t, driver_phase, todo)

(* UPLL names the drivers of the controllers the transaction affects, UPPL *)
(* names none; an audit affects the audited controller or nothing. The     *)
(* types without a running driver are skipped alike: it names all or none. *)
MayName ==
  IF tc.oper = "COMMIT"
  THEN {n \cup absent : n \in SUBSET Drivers, absent \in {{}, DriverTypes \ Drivers}}
  ELSE {{}, {tc.audited}}

SendVote ==
  /\ tc.phase = "VOTE"
  /\ \E ret \in Rets :
       /\ Exchange("VOTE", ret)
       /\ CASE ret = "SUCCESS" /\ ~OneLeft ->
                 \E named \in MayName : Continue([Sent EXCEPT !.named = named])
            [] ret = "SUCCESS" /\ OneLeft ->
                 Continue(ToDrivers(Sent, "DRIVER_VOTE", "VOTE_DRIVER_RESULT",
                                    NamedDrivers))
            [] ret = "FAILURE" ->
                 IF tc.acked = <<>> THEN VoteFailed("ABORT") ELSE AbortVote("ABORT")
            [] ret = "FATAL" -> VoteFailed("FATAL")

(* A controller list that cannot be read, or a session towards UPLL or     *)
(* UPPL that cannot be made to forward the drivers' results.               *)
ForwardingFails ==
  /\ \/ tc.acked # <<>> /\ tc.phase \in {"VOTE", "GLOBAL"}
     \/ tc.acked = UpllUppl /\ tc.phase \in {"DRIVER_VOTE", "DRIVER_GLOBAL"}
     \/ /\ tc.acked = UpllUppl /\ tc.todo = UpllUppl
        /\ tc.phase \in {"VOTE_DRIVER_RESULT", "GLOBAL_DRIVER_RESULT"}
  /\ Fault
  /\ IF tc.phase \in {"VOTE", "DRIVER_VOTE", "VOTE_DRIVER_RESULT"}
     THEN VoteFailed("FAILURE") ELSE Finish("FATAL")
  /\ UNCHANGED <<libVars, handled>>

(* A vote whose answer is not looked at. *)
SendDriverVoteUnchecked ==
  /\ tc.phase = "DRIVER_VOTE"
  /\ \E ret \in {"SUCCESS", "FAILURE"} :
       /\ Exchange("DRIVER_VOTE", ret)
       /\ IF OneLeft THEN Continue(Then(Sent, "VOTE_DRIVER_RESULT", UpllUppl))
                     ELSE Continue(Sent)

SendDriverVote ==
  /\ tc.phase = "DRIVER_VOTE"
  /\ \E ret \in Rets :
       /\ Exchange("DRIVER_VOTE", ret)
       /\ CASE ret = "SUCCESS" /\ ~OneLeft -> Continue(Sent)
            [] ret = "SUCCESS" /\ OneLeft ->
                 Continue(Then(Sent, "VOTE_DRIVER_RESULT", UpllUppl))
            [] ret = "FAILURE" -> AbortVote("ABORT")
            [] ret = "FATAL" -> VoteFailed("FATAL")

(* When no driver was named, Execute returns TCOPER_RET_FAILURE whatever   *)
(* went wrong; TRANS_END is then sent even after an IPC error.             *)
SendVoteDriverResult ==
  /\ tc.phase = "VOTE_DRIVER_RESULT"
  /\ \E ret \in Rets :
       /\ Exchange("VOTE_DRIVER_RESULT", ret)
       /\ CASE ret = "SUCCESS" /\ ~OneLeft -> Continue([tc EXCEPT !.todo = Tail(@)])
            [] ret = "SUCCESS" /\ OneLeft -> Continue(To("RECORD", <<>>))
            [] ret = "FAILURE" ->
                 AbortVote(IF tc.named = {} THEN "FAILURE" ELSE "ABORT")
            [] ret = "FATAL" ->
                 VoteFailed(IF tc.named = {} THEN "FAILURE" ELSE "FATAL")

SendAbort ==
  /\ tc.phase = "ABORT"
  /\ \E ret \in Rets :
       /\ Exchange("ABORT", ret)
       /\ CASE ret = "SUCCESS" /\ ~OneLeft -> Continue([tc EXCEPT !.todo = Tail(@)])
            [] ret = "SUCCESS" /\ OneLeft -> VoteFailed(tc.ret)
            [] ret # "SUCCESS" ->
                 VoteFailed(IF tc.ret = "FAILURE" THEN "FAILURE" ELSE "FATAL")

(* TransGlobalCommitMsg and AuditGlobalCommit write the recovery row       *)
(* first, and go on when that fails.                                       *)
RecordGlobal ==
  /\ tc.phase = "RECORD"
  /\ \E recorded \in BOOLEAN :
       /\ tc' = [To("GLOBAL", UpllUppl) EXCEPT !.recorded = recorded]
       /\ IF recorded THEN WriteRow(tc.oper) /\ UNCHANGED faults
                      ELSE Fault /\ UNCHANGED recovery
  /\ UNCHANGED <<libVars, unc_state, responses, handled, ended, crashes>>

(* From here on nothing is undone: any error ends the operation at once    *)
(* with TC_SYSTEM_FAILURE.                                                 *)
SendGlobal ==
  /\ tc.phase = "GLOBAL"
  /\ \E ret \in Rets :
       /\ Exchange("GLOBAL", ret)
       /\ CASE ret = "SUCCESS" /\ ~OneLeft -> Continue(Sent)
            [] ret = "SUCCESS" /\ OneLeft ->
                 Continue(ToDrivers(Sent, "DRIVER_GLOBAL", "GLOBAL_DRIVER_RESULT",
                                    NamedDrivers))
            [] ret # "SUCCESS" -> Finish("FATAL")

SendDriverGlobal ==
  /\ tc.phase = "DRIVER_GLOBAL"
  /\ \E ret \in Rets :
       /\ Exchange("DRIVER_GLOBAL", ret)
       /\ CASE ret = "SUCCESS" /\ ~OneLeft -> Continue(Sent)
            [] ret = "SUCCESS" /\ OneLeft ->
                 Continue(Then(Sent, "GLOBAL_DRIVER_RESULT", UpllUppl))
            [] ret # "SUCCESS" -> Finish("FATAL")

SendGlobalDriverResult ==
  /\ tc.phase = "GLOBAL_DRIVER_RESULT"
  /\ \E ret \in Rets :
       /\ Exchange("GLOBAL_DRIVER_RESULT", ret)
       /\ CASE ret = "SUCCESS" /\ ~OneLeft -> Continue([tc EXCEPT !.todo = Tail(@)])
            [] ret = "SUCCESS" /\ OneLeft -> Continue(To("TRANS_END", TransEndOrder))
            [] ret # "SUCCESS" -> Finish("FATAL")

SendTransEnd ==
  /\ tc.phase = "TRANS_END"
  /\ \E ret \in Rets :
       /\ Exchange("TRANS_END", ret)
       /\ CASE ret = "SUCCESS" /\ ~OneLeft -> Continue(Sent)
            [] ret = "SUCCESS" /\ OneLeft /\ tc.oper = "COMMIT" -> Finish(tc.ret)
            [] ret = "SUCCESS" /\ OneLeft /\ tc.oper # "COMMIT" ->
                 Continue(To("AUDIT_END", AuditEndOrder))
            [] ret # "SUCCESS" -> Finish("FATAL")

(* AbortCandidateDB and ToStartupDB. *)
SendDatabase ==
  /\ tc.phase = "DATABASE"
  /\ \E ret \in Rets :
       /\ PlainExchange(ret)
       /\ CASE ret = "SUCCESS" /\ ~OneLeft -> Continue(Sent)
            [] ret = "SUCCESS" /\ OneLeft -> Finish("SUCCESS")
            [] ret # "SUCCESS" -> Finish(ret)

-----------------------------------------------------------------------------
(* Crash, start and failover.                                              *)

(* What the daemons persist is being changed. *)
Changing == {"GLOBAL", "DRIVER_GLOBAL", "GLOBAL_DRIVER_RESULT", "DATABASE"}

NotEnded == [oper |-> "NONE", ret |-> "SUCCESS", asked |-> {}, dirty |-> FALSE,
             cut |-> "NONE"]

(* Every daemon of the node is gone; the recovery row is in the database.  *)
(* The node, or the other node of the cluster, starts in SBY.              *)
Crash ==
  /\ crashes < MaxCrashes /\ crashes' = crashes + 1
  /\ LibRestart
  /\ tc' = Idle
  /\ unc_state' = "SBY"
  /\ responses' = 0
  /\ handled' = NothingHandled
  /\ ended' = [NotEnded EXCEPT !.cut =
       IF tc.phase \in Changing /\ recovery.oper = tc.oper THEN tc.oper ELSE ended.cut]
  /\ UNCHANGED <<recovery, faults>>

(* FillTcMsgData makes the state ACT before SETUP_COMPLETE is sent. *)
ToSetupComplete(t) ==
  /\ tc' = [t EXCEPT !.phase = "SETUP_COMPLETE", !.todo = UpllUppl, !.acked = <<>>]
  /\ unc_state' = "ACT"

(* A failover that asks nobody to audit the database. *)
HandleActWithoutAuditDB ==
  /\ unc_state = "SBY" /\ tc = Idle
  /\ \E is_switch \in BOOLEAN :
       IF is_switch
       THEN ToSetupComplete([Idle EXCEPT !.oper = "FAILOVER"])
       ELSE /\ tc' = [Idle EXCEPT !.oper = "COLD_START", !.phase = "SETUP",
                                  !.todo = UpllUppl]
            /\ UNCHANGED unc_state
  /\ UNCHANGED <<libVars, recovery, responses, handled, ended, faults, crashes>>

(* HandleArgs and TcCreateMsgList of the startup operation: only a         *)
(* failover reads the row.                                                 *)
HandleAct ==
  /\ unc_state = "SBY" /\ tc = Idle
  /\ \E is_switch \in BOOLEAN :
       IF is_switch /\ recovery.oper = "NONE"
       THEN ToSetupComplete([Idle EXCEPT !.oper = "FAILOVER"])
       ELSE /\ tc' = IF is_switch
                     THEN [Idle EXCEPT !.oper = "FAILOVER", !.phase = "AUDITDB",
                                       !.todo = <<"UPPL", "UPLL">>]
                     ELSE [Idle EXCEPT !.oper = "COLD_START", !.phase = "SETUP",
                                       !.todo = UpllUppl]
            /\ UNCHANGED unc_state
  /\ UNCHANGED <<libVars, recovery, responses, handled, ended, faults, crashes>>

SendSetup ==
  /\ tc.phase = "SETUP"
  /\ \E ret \in Rets :
       /\ PlainExchange(ret)
       /\ CASE ret = "SUCCESS" /\ ~OneLeft -> tc' = Sent /\ UNCHANGED unc_state
            [] ret = "SUCCESS" /\ OneLeft -> ToSetupComplete(tc)
            [] ret # "SUCCESS" -> tc' = Idle /\ UNCHANGED unc_state
  /\ UNCHANGED <<recovery, responses, ended, crashes>>

(* HandleAct after a failed audit of the database: one more failover is    *)
(* counted in the row, and the last one allowed leaves the node ACT_FAIL.  *)
(* The row may be unreadable, and a failing write of it goes unnoticed.    *)
CountFailover ==
  LET count == recovery.failover_instance + 1
  IN  /\ tc' = Idle
      /\ \/ /\ recovery' \in {recovery, [recovery EXCEPT !.failover_instance = count]}
            /\ unc_state' = IF count >= MaxFailoverInstance THEN "ACT_FAIL" ELSE "SBY"
         \/ UNCHANGED <<recovery, unc_state>>

(* UPPL, then UPLL, redo or undo the operation the row names. *)
SendAuditDb ==
  /\ tc.phase = "AUDITDB"
  /\ \E ret \in Rets :
       /\ PlainExchange(ret)
       /\ CASE ret = "SUCCESS" /\ ~OneLeft ->
                 tc' = Sent /\ UNCHANGED <<unc_state, recovery, ended>>
            [] ret = "SUCCESS" /\ OneLeft ->
                 /\ ToSetupComplete(tc)
                 /\ ended' = [ended EXCEPT !.cut =
                                IF @ = recovery.oper THEN "NONE" ELSE @]
                 /\ UNCHANGED recovery
            [] ret # "SUCCESS" -> CountFailover /\ UNCHANGED ended
  /\ UNCHANGED <<responses, crashes>>

(* SendResponse of the startup operation clears the row. When              *)
(* SETUP_COMPLETE fails, HandleAct fails but the state remains ACT. After  *)
(* a cold start the running configuration is what SETUP has left.          *)
SendSetupComplete ==
  /\ tc.phase = "SETUP_COMPLETE"
  /\ \E ret \in Rets :
       /\ PlainExchange(ret)
       /\ CASE ret = "SUCCESS" /\ ~OneLeft -> tc' = Sent /\ UNCHANGED recovery
            [] ret = "SUCCESS" /\ OneLeft -> tc' = Idle /\ recovery' \in {recovery, NoRow}
            [] ret # "SUCCESS" -> tc' = Idle /\ UNCHANGED recovery
  /\ ended' = IF tc.oper = "COLD_START" THEN [ended EXCEPT !.cut = "NONE"] ELSE ended
  /\ UNCHANGED <<unc_state, responses, crashes>>

(* GetConfTable fails when a message of the startup operation is filled.   *)
StartupConfUnreadable ==
  /\ tc.phase \in {"SETUP", "AUDITDB", "SETUP_COMPLETE"} /\ tc.acked = <<>>
  /\ Fault
  /\ tc' = Idle
  /\ ended' = IF tc.phase = "SETUP_COMPLETE" /\ tc.oper = "COLD_START"
              THEN [ended EXCEPT !.cut = "NONE"] ELSE ended
  /\ UNCHANGED <<libVars, unc_state, recovery, responses, handled, crashes>>

-----------------------------------------------------------------------------

Init ==
  /\ LibInit
  /\ tc = Idle
  /\ unc_state = "SBY"
  /\ recovery = NoRow
  /\ responses = 0
  /\ handled = NothingHandled
  /\ ended = NotEnded
  /\ faults = 0
  /\ crashes = 0

BeginOperation ==
  \/ BeginCommit
  \/ BeginUserAudit
  \/ BeginDriverAudit
  \/ BeginAbortCandidate
  \/ BeginStartupDb

(* The steps of an operation that has begun. *)
Step ==
  \/ SendGetDriverId
  \/ SendAuditStart
  \/ UndoAuditStart
  \/ SendTransStart
  \/ UndoTransStart
  \/ SendVote
  \/ SendDriverVote
  \/ SendVoteDriverResult
  \/ ForwardingFails
  \/ SendAbort
  \/ RecordGlobal
  \/ SendGlobal
  \/ SendDriverGlobal
  \/ SendGlobalDriverResult
  \/ SendTransEnd
  \/ SendAuditEnd
  \/ ClearRowAfterAudit
  \/ SendDatabase
  \/ SendSetup
  \/ SendAuditDb
  \/ SendSetupComplete
  \/ StartupConfUnreadable

Next ==
  \/ BeginOperation
  \/ Step
  \/ SendResponse
  \/ SaveWithAutoSave
  \/ HandleAct
  \/ Crash

Spec == Init /\ [][Next]_vars

-----------------------------------------------------------------------------
Phases ==
  {"IDLE", "GET_DRIVERID", "AUDIT_START", "UNDO_AUDIT_START", "TRANS_START",
   "UNDO_TRANS_START", "VOTE", "DRIVER_VOTE", "VOTE_DRIVER_RESULT", "ABORT",
   "RECORD", "GLOBAL", "DRIVER_GLOBAL", "GLOBAL_DRIVER_RESULT", "TRANS_END",
   "AUDIT_END", "CLEAR_ROW", "DATABASE", "SETUP", "AUDITDB", "SETUP_COMPLETE"}

Recorded == {"COMMIT", "USER_AUDIT", "DRIVER_AUDIT", "ABORT", "SAVE", "CLEAR"}
Opers == Recorded \cup {"COLD_START", "FAILOVER"}
Results == {"SUCCESS", "ABORT", "FAILURE", "FATAL", "NO_DRIVER", "OPER_FAILURE"}

(* Every variable has its type. *)
TypeOK ==
  /\ LibTypeOK
  /\ tc.oper \in Opers \cup {"NONE"} /\ tc.phase \in Phases
  /\ {tc.todo, tc.acked} \subseteq Seq(Daemons)
  /\ tc.named \subseteq DriverTypes /\ tc.audited \in Drivers \cup {"NONE"}
  /\ tc.recorded \in BOOLEAN /\ tc.ret \in Results
  /\ unc_state \in {"SBY", "ACT", "ACT_FAIL"}
  /\ recovery \in [oper : Recorded \cup {"NONE"},
                    failover_instance : 0 .. MaxFailoverInstance + MaxCrashes]
  /\ handled \in [voted : SUBSET Daemons, committed : SUBSET Daemons,
                   aborted : SUBSET Daemons]
  /\ ended.oper \in Recorded \cup {"NONE"} /\ ended.ret \in Results
  /\ ended.asked \subseteq Daemons /\ ended.dirty \in BOOLEAN
  /\ ended.cut \in Recorded \cup {"NONE"}
  /\ responses \in 0 .. MaxLate + 1
  /\ faults \in 0 .. MaxFaults /\ crashes \in 0 .. MaxCrashes

(* The transaction of an operation as its client sees it: what each daemon *)
(* has done, the daemons it involves, and the answer.                      *)
DaemonState ==
  [d \in Daemons |-> IF d \in handled.committed THEN "committed"
                    ELSE IF d \in handled.aborted THEN "aborted"
                    ELSE IF d \in handled.voted THEN "prepared"
                    ELSE "working"]

(* An audit without a transaction, and the other operations, answer        *)
(* nothing about one.                                                      *)
TransactionAnswer ==
  IF tc # Idle \/ ended.oper \notin {"COMMIT"} \cup Audits \/ handled.voted = {}
  THEN "none" ELSE IF ended.ret = "SUCCESS" THEN "success" ELSE "failure"

Promise == INSTANCE TransactionCommit
  WITH Participants <- Daemons,
       state <- DaemonState,
       involved <- IF tc = Idle THEN ended.asked ELSE Asked,
       answer <- TransactionAnswer

(* Two-phase commit (tcmsg_commit.cc, tcmsg_audit.cc) implements atomic    *)
(* commitment: no daemon commits unless every daemon the transaction       *)
(* involves has voted for it, a transaction some daemon committed is       *)
(* aborted nowhere, no vote is taken after a commit, nothing is done after *)
(* the answer, and a transaction that TC reports successful has been       *)
(* committed by all of them; with IPC errors, refused messages, crashes    *)
(* and leftovers of earlier transactions.                                  *)
ImplementsCommit == Promise!Spec

(* Unless some operation ended in a fatal error, every daemon is ready for *)
(* a new transaction whenever none is running: the failure paths of        *)
(* Execute close in each daemon's library what they opened there.          *)
CleanEnd ==
  tc = Idle /\ ~ended.dirty => \A d \in Daemons : oper_state[d] = MsgNone

(* The message of each phase. *)
Sends ==
  [TRANS_START |-> "TRANS_START", UNDO_TRANS_START |-> "TRANS_END", VOTE |-> "VOTE",
   DRIVER_VOTE |-> "DRIVER_VOTE", VOTE_DRIVER_RESULT |-> "VOTE_DRIVER_RESULT",
   ABORT |-> "ABORT", GLOBAL |-> "GLOBAL", DRIVER_GLOBAL |-> "DRIVER_GLOBAL",
   GLOBAL_DRIVER_RESULT |-> "GLOBAL_DRIVER_RESULT", TRANS_END |-> "TRANS_END",
   AUDIT_START |-> "START", UNDO_AUDIT_START |-> "END", AUDIT_END |-> "END"]

(* ValidateOperTypeSequence asserts that a message is in sequence          *)
(* (tclib_module.cc:1162): as long as no exchange failed and no operation  *)
(* ended in a fatal error, TC sends no message that its recipient, in the  *)
(* state the earlier messages left it in, refuses.                         *)
InSequence ==
  faults = 0 /\ ~ended.dirty /\ tc.phase \in DOMAIN Sends
    => ~Refused(Head(tc.todo), <<Kind, Sends[tc.phase]>>)

(* While the daemons change what they persist, the recovery row names the  *)
(* operation that does it (unless its write failed). The late response of  *)
(* an earlier operation and a superfluous save (tc_db_operations.cc:230)   *)
(* clear the row without the exclusion, so that it does not hold.          *)
RowNamesOperation ==
  tc.phase \in Changing /\ tc.recorded => recovery.oper = tc.oper

(* No failover makes the node ACT before the operation a crash has cut has *)
(* been audited by UPPL and UPLL, also when the failover itself crashes or *)
(* fails and is repeated (HandleAct of tc_module.cc and the startup        *)
(* operation), provided the recovery row was in place at the crash and no  *)
(* superfluous save has cleared it since: see RowNamesOperation.           *)
FailoverRedoes ==
  [][tc'.oper = "FAILOVER" /\ unc_state' = "ACT" => ended'.cut = "NONE"]_vars
====
