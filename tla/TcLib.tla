------------------------------- MODULE TcLib -------------------------------
(***************************************************************************)
(* The transaction library every daemon of the coordinator links           *)
(* (modules/tclib): the message sequence it accepts from the transaction   *)
(* coordinator (TC), and what it remembers between two messages.           *)
(*                                                                         *)
(* A message is a pair <<kind, name>>, kind being "COMMIT" or "AUDIT".     *)
(* oper_state[d] is TcLibModule::oper_state_ of daemon d, the last message *)
(* it accepted or refused, MsgNone between two transactions.               *)
(* audit_in_progress[d] is audit_in_progress_, meaningful in a driver      *)
(* only: the audit under way is of one of its controllers.                 *)
(***************************************************************************)
EXTENDS Naturals, FiniteSets, Sequences

CONSTANT Drivers     \* the driver daemons that are running

DriverTypes == {"ODL", "OPENFLOW", "OVERLAY", "POLC"}

ASSUME DriversAssumption == Drivers \subseteq DriverTypes

Daemons == Drivers \cup {"UPLL", "UPPL"}

VARIABLES oper_state, audit_in_progress

libVars == <<oper_state, audit_in_progress>>

MsgNone == <<"NONE", "NONE">>

-----------------------------------------------------------------------------
(* The messages each message may follow. *)

ValidateUpllUpplCommitSequence ==
  [TRANS_START          |-> {"NONE"},
   VOTE                 |-> {"TRANS_START"},
   VOTE_DRIVER_RESULT   |-> {"VOTE"},
   GLOBAL               |-> {"VOTE_DRIVER_RESULT", "VOTE"},
   GLOBAL_DRIVER_RESULT |-> {"GLOBAL"},
   TRANS_END            |-> {"GLOBAL_DRIVER_RESULT", "TRANS_START", "VOTE",
                             "GLOBAL", "ABORT"},
   ABORT                |-> {"VOTE", "VOTE_DRIVER_RESULT"}]

ValidateDriverCommitSequence ==
  [TRANS_START   |-> {"NONE"},
   DRIVER_VOTE   |-> {"TRANS_START"},
   DRIVER_GLOBAL |-> {"DRIVER_VOTE"},
   TRANS_END     |-> {"DRIVER_GLOBAL", "DRIVER_VOTE", "TRANS_START", "ABORT"},
   ABORT         |-> {"DRIVER_VOTE"}]

(* A library that forgets that a transaction may end before any vote. *)
ValidateUpllUpplAuditSequenceShort ==
  [START                |-> {"NONE"},
   TRANS_START          |-> {"START"},
   VOTE                 |-> {"TRANS_START"},
   VOTE_DRIVER_RESULT   |-> {"VOTE"},
   GLOBAL               |-> {"VOTE_DRIVER_RESULT"},
   GLOBAL_DRIVER_RESULT |-> {"GLOBAL"},
   TRANS_END            |-> {"GLOBAL_DRIVER_RESULT", "VOTE", "ABORT"},
   END                  |-> {"TRANS_END", "START", "TRANS_START"},
   ABORT                |-> {"VOTE", "VOTE_DRIVER_RESULT"}]

ValidateUpllUpplAuditSequence ==
  [START                |-> {"NONE"},
   TRANS_START          |-> {"START"},
   VOTE                 |-> {"TRANS_START"},
   VOTE_DRIVER_RESULT   |-> {"VOTE"},
   GLOBAL               |-> {"VOTE_DRIVER_RESULT"},
   GLOBAL_DRIVER_RESULT |-> {"GLOBAL"},
   TRANS_END            |-> {"GLOBAL_DRIVER_RESULT", "TRANS_START", "VOTE",
                             "ABORT"},
   END                  |-> {"TRANS_END", "START", "TRANS_START"},
   ABORT                |-> {"VOTE", "VOTE_DRIVER_RESULT"}]

(* mine: the audit is of a controller of this driver. The others see       *)
(* neither AUDIT_START nor AUDIT_END.                                      *)
ValidateDriverAuditSequence(mine) ==
  [START         |-> IF mine THEN {"NONE"} ELSE {},
   TRANS_START   |-> IF mine THEN {"START"} ELSE {"NONE"},
   DRIVER_VOTE   |-> {"TRANS_START"},
   DRIVER_GLOBAL |-> {"DRIVER_VOTE"},
   TRANS_END     |-> {"DRIVER_GLOBAL", "TRANS_START", "DRIVER_VOTE", "ABORT"},
   END           |-> IF mine THEN {"TRANS_END", "START", "TRANS_START"} ELSE {},
   ABORT         |-> {"DRIVER_VOTE"}]

ValidateCommitOperSequence(d) ==
  IF d \in Drivers THEN ValidateDriverCommitSequence
                   ELSE ValidateUpllUpplCommitSequence

ValidateAuditOperSequence(d, mine) ==
  IF d \in Drivers THEN ValidateDriverAuditSequence(mine)
                   ELSE ValidateUpllUpplAuditSequence

ValidateOperTypeSequence(d, msg, mine) ==
  LET after == IF msg[1] = "COMMIT" THEN ValidateCommitOperSequence(d)
                                    ELSE ValidateAuditOperSequence(d, mine)
  IN  /\ oper_state[d][2] \in after[msg[2]]
      /\ oper_state[d][1] \in {msg[1], "NONE"}

-----------------------------------------------------------------------------
(* The messages of the service TCLIB_AUDIT_TRANSACTION; the others have a  *)
(* service of their own.                                                   *)
AuditTransactionMsgs ==
  {"AUDIT"} \X {"START", "TRANS_START", "VOTE", "GLOBAL", "TRANS_END", "END"}

(* A driver compares the driver of the audited controller with its own     *)
(* type before it validates the sequence.                                  *)
AuditInProgress(d, msg, audited) ==
  IF d \in Drivers /\ msg \in AuditTransactionMsgs THEN audited = d
                                                   ELSE audit_in_progress[d]

Accepts(d, msg, audited) ==
  ValidateOperTypeSequence(d, msg, AuditInProgress(d, msg, audited))

(* The cases in which CommitTransStartEnd and AuditTransStartEnd call      *)
(* ReleaseTransactionResources, ok being what the handler returned.        *)
Releases(d, msg, mine, ok) ==
  \/ msg \in {<<"COMMIT", "TRANS_END">>, <<"AUDIT", "END">>}
  \/ msg \in {<<"COMMIT", "TRANS_START">>, <<"AUDIT", "START">>} /\ ~ok
  \/ msg = <<"AUDIT", "TRANS_END">> /\ d \in Drivers /\ ~mine

(* Daemon d is handed msg about a controller of driver `audited'; ok is    *)
(* what its handler returns, if it is called. A message out of sequence is *)
(* refused with TC_FAILURE, yet oper_state_ moves on to it.                *)
Receive(d, msg, audited, ok) ==
  LET mine == AuditInProgress(d, msg, audited)
      seq  == Accepts(d, msg, audited)
  IN  /\ oper_state' = [oper_state EXCEPT
           ![d] = IF seq /\ Releases(d, msg, mine, ok) THEN MsgNone ELSE msg]
      /\ audit_in_progress' = [audit_in_progress EXCEPT
           ![d] = /\ mine
                  /\ ~(seq /\ \/ msg = <<"AUDIT", "END">>
                              \/ msg = <<"AUDIT", "START">> /\ ~ok)]

(* GetDriverId sets oper_state_ to MSG_GET_DRIVERID, calls the handler and *)
(* sets it to MSG_NONE, all under tclib_ipc_control_mutex_ and whatever it *)
(* was.                                                                    *)
GetDriverId(d) ==
  /\ oper_state' = [oper_state EXCEPT ![d] = MsgNone]
  /\ UNCHANGED audit_in_progress

(* What the handler behind each message may return. A driver's transaction *)
(* handlers only fail to vote and to commit, except that its               *)
(* HandleCommitGlobalAbort always returns TC_FAILURE; UPLL and UPPL always *)
(* succeed in aborting.                                                    *)
HandlerReturns(d, msg) ==
  CASE d \in Drivers /\ msg = <<"COMMIT", "ABORT">>            -> {FALSE}
    [] d \in Drivers /\ msg[2] \in {"DRIVER_VOTE", "DRIVER_GLOBAL"} -> BOOLEAN
    [] d \notin Drivers /\ msg[2] # "ABORT"                    -> BOOLEAN
    [] OTHER                                                   -> {TRUE}

LibInit ==
  /\ oper_state = [d \in Daemons |-> MsgNone]
  /\ audit_in_progress = [d \in Daemons |-> FALSE]

LibRestart ==
  /\ oper_state' = [d \in Daemons |-> MsgNone]
  /\ audit_in_progress' = [d \in Daemons |-> FALSE]

Msgs ==
  {MsgNone}
    \cup ({"COMMIT"} \X (DOMAIN ValidateUpllUpplCommitSequence
                           \cup DOMAIN ValidateDriverCommitSequence))
    \cup ({"AUDIT"} \X (DOMAIN ValidateUpllUpplAuditSequence
                          \cup DOMAIN ValidateDriverAuditSequence(TRUE)))

LibTypeOK ==
  /\ oper_state \in [Daemons -> Msgs]
  /\ audit_in_progress \in [Daemons -> BOOLEAN]
=============================================================================
