------------------------ MODULE RadarControl_proofs ------------------------
(***************************************************************************)
(* The radar has one owner, for every set of thresholds, every initial     *)
(* radar and every sequence of requests and faults.  And a gate that is    *)
(* reported as applied is applied: the readback that the lambda compares   *)
(* is never older than what the radar holds, but for a factory reset that  *)
(* is under way.                                                           *)
(***************************************************************************)
EXTENDS RadarControl, TLAPS

-----------------------------------------------------------------------------
(* Transactions                                                            *)

(* A transaction is idle or at a command of its script.                    *)
Consistent(t) ==
  /\ t.op = None <=> t.state = "idle"
  /\ t.op # None => t.step \in 1..Len(Script[t.op])

(* What belongs to the manager.                                            *)
Managed == [ctl : Control, tuning : Tuning, sync : Synchronization,
            tx : {t \in Transaction : Consistent(t)}]

TypeInv == TypeOK /\ Consistent(tx)

(* The scripts have no more than four commands, all of them commands.      *)
LEMMA ScriptType ==
  ASSUME NEW op \in Operation
  PROVE  /\ Len(Script[op]) \in 3..4
         /\ DOMAIN Script[op] = 1..Len(Script[op])
         /\ \A i \in 1..Len(Script[op]) : Script[op][i] \in Command
<1>1. Operation = {"startup", "start", "stop", "gate", "factory"}
  BY DEF Operation, Script
<1>2. Len(Script[op]) \in 3..4
  BY <1>1 DEF Script
<1>3. DOMAIN Script[op] = 1..Len(Script[op])
  <2>1. /\ Script["startup"] = <<"enable", "query", "disable">>
        /\ Script["start"] = <<"enable", "engineer", "query", "disable">>
        /\ Script["stop"] = <<"enable", "normal", "disable">>
        /\ Script["gate"] = <<"enable", "write", "query", "disable">>
        /\ Script["factory"] = <<"enable", "factory", "restart">>
    BY DEF Script
  <2> QED BY <1>1, <2>1
<1>4. ASSUME NEW i \in 1..Len(Script[op])
      PROVE  Script[op][i] \in Command
  <2>1. Script[op][i] \in {Script[op][j] : j \in DOMAIN Script[op]}
    BY <1>3
  <2> QED BY <2>1 DEF Command
<1> QED BY <1>2, <1>3, <1>4

(* The commands that the watchdog sends and that end a transaction.        *)
LEMMA CommonCommands ==
  {"enable", "disable", "restart"} \subseteq Command
<1>1. "stop" \in Operation /\ "factory" \in Operation
  BY DEF Operation, Script
<1>2. /\ Len(Script["stop"]) = 3 /\ Len(Script["factory"]) = 3
      /\ Script["stop"][1] = "enable" /\ Script["stop"][3] = "disable"
      /\ Script["factory"][3] = "restart"
  BY DEF Script
<1> QED BY <1>1, <1>2, ScriptType

(* There are eight commands.                                               *)
LEMMA CommandNames ==
  Command \subseteq {"enable", "disable", "engineer", "normal", "write",
                     "factory", "query", "restart"}
<1> SUFFICES ASSUME NEW op \in Operation, NEW i \in 1..Len(Script[op])
             PROVE  Script[op][i] \in {"enable", "disable", "engineer",
                                       "normal", "write", "factory", "query",
                                       "restart"}
  BY ScriptType DEF Command
<1>1. op \in {"startup", "start", "stop", "gate", "factory"}
  BY DEF Operation, Script
<1>2. /\ Script["startup"] = <<"enable", "query", "disable">>
      /\ Script["start"] = <<"enable", "engineer", "query", "disable">>
      /\ Script["stop"] = <<"enable", "normal", "disable">>
      /\ Script["gate"] = <<"enable", "write", "query", "disable">>
      /\ Script["factory"] = <<"enable", "factory", "restart">>
  BY DEF Script
<1> QED BY <1>1, <1>2

(* What a transaction expects next is a command.                           *)
LEMMA ExpectedType ==
  ASSUME NEW t \in Transaction, Consistent(t), t.op # None
  PROVE  Expected(t) \in Command
<1>1. t.op \in Operation
  BY DEF Transaction
<1> QED BY <1>1, ScriptType, CommonCommands DEF Expected, Consistent

(* Starting, sending and answering keep a transaction consistent.          *)
LEMMA StepType ==
  ASSUME NEW t \in Transaction, Consistent(t), t.op # None
  PROVE  /\ AfterSend(t) \in Transaction /\ Consistent(AfterSend(t))
         /\ AfterFailure(t) \in Transaction /\ Consistent(AfterFailure(t))
         /\ AfterSuccess(t) \in Transaction /\ Consistent(AfterSuccess(t))
<1>1. /\ t.op \in Operation /\ t.step \in 1..4 /\ t.state # "idle"
      /\ t.step \in 1..Len(Script[t.op]) /\ Len(Script[t.op]) \in 3..4
  BY ScriptType DEF Transaction, Consistent
<1>2. AfterSend(t) \in Transaction /\ Consistent(AfterSend(t))
  BY <1>1 DEF AfterSend, Transaction, Consistent
<1>3. AfterFailure(t) \in Transaction /\ Consistent(AfterFailure(t))
  BY <1>1 DEF AfterFailure, Transaction, Consistent
<1>4. AfterSuccess(t) \in Transaction /\ Consistent(AfterSuccess(t))
  <2>1. CASE t.step = Len(Script[t.op])
    BY <1>1, <2>1 DEF AfterSuccess, Transaction, Consistent
  <2>2. CASE t.step # Len(Script[t.op])
    <3>1. \A n \in 3..4 : \A i \in 1..n : i # n => i + 1 \in 1..4 \cap 1..n
      OBVIOUS
    <3>2. t.step + 1 \in 1..4 /\ t.step + 1 \in 1..Len(Script[t.op])
      BY <1>1, <2>2, <3>1
    <3>3. AfterSuccess(t) = [t EXCEPT !.state = "send", !.step = t.step + 1,
                                      !.due = FALSE]
      BY <2>2 DEF AfterSuccess, Transaction
    <3> QED BY <1>1, <3>2, <3>3 DEF Transaction, Consistent
  <2> QED BY <2>1, <2>2
<1> QED BY <1>2, <1>3, <1>4

LEMMA StartedType ==
  /\ NoTransaction \in Transaction /\ Consistent(NoTransaction)
  /\ NoTransaction.op = None
  /\ \A op \in Operation, v \in Setting :
       /\ Started(op, v) \in Transaction /\ Consistent(Started(op, v))
       /\ Started(op, v).op = op
<1>1. Factory \in Setting
  BY DEF Setting
<1>2. /\ NoTransaction \in Transaction /\ Consistent(NoTransaction)
      /\ NoTransaction.op = None
  BY <1>1 DEF NoTransaction, Transaction, Consistent
<1>3. ASSUME NEW op \in Operation, NEW v \in Setting
      PROVE  /\ Started(op, v) \in Transaction /\ Consistent(Started(op, v))
             /\ Started(op, v).op = op
  <2>1. NoTransaction.step = 1
    BY DEF NoTransaction
  <2>2. 1 \in 1..Len(Script[op]) /\ op # None
    BY ScriptType, NoneAssumption
  <2> QED BY <1>2, <2>1, <2>2 DEF Started, Transaction, Consistent
<1> QED BY <1>2, <1>3

-----------------------------------------------------------------------------
(* Requests                                                                *)

(* What requests, sessions, failures and the lambda make of ControlState.  *)
LEMMA ControlType ==
  ASSUME NEW c \in Control
  PROVE  /\ Quarantined(c) \in Control
         /\ KeptAlive(c) \in Control
         /\ Status(c) \in Control
         /\ \A request \in Request : Written(c, request) \in Control
<1>1. Quarantined(c) \in Control
  <2>1. GateFailed(c) \in Control
    BY DEF GateFailed, Control
  <2> QED BY <2>1 DEF Quarantined, Control
<1>2. \A open \in BOOLEAN : Session(c, open) \in Control
  BY DEF Session, Control
<1>3. KeptAlive(c) \in Control
  BY <1>2 DEF KeptAlive
<1>4. Status(c) \in Control
  <2>1. Fresh \in BOOLEAN /\ Blocked \in BOOLEAN
    BY DEF Fresh, Blocked
  <2> QED BY <2>1 DEF Status, Control
<1>5. ASSUME NEW request \in Request
      PROVE  Written(c, request) \in Control
  <2>1. CASE request.kind \in {"open", "close"}
    BY <1>2, <2>1 DEF Written
  <2>2. CASE request.kind = "gate"
    <3>1. request.value \in Setting
      BY <2>2 DEF Request, Setting
    <3> QED BY <2>2, <3>1 DEF Written, Control
  <2>3. CASE request.kind = "factory"
    BY <2>3 DEF Written, Control
  <2> QED BY <2>1, <2>2, <2>3 DEF Request
<1> QED BY <1>1, <1>3, <1>4, <1>5

-----------------------------------------------------------------------------
(* The manager                                                             *)

LEMMA Operations == {"startup", "start", "stop", "gate", "factory"} = Operation
BY DEF Operation, Script

(* The manager's choices keep what belongs to it well typed.               *)
LEMMA ChoiceType ==
  ASSUME NEW m \in Managed
  PROVE  /\ TakeSession(m) \in Managed
         /\ StartNext(m) \in Managed
<1>1. TakeSession(m) \in Managed
  <2>1. KeptAlive(m.ctl) \in Control
    BY ControlType DEF Managed
  <2> QED BY <2>1 DEF TakeSession, Managed, Control, Tuning, Synchronization
<1>2. \A op \in Operation :
        Started(op, Factory) \in {t \in Transaction : Consistent(t)}
  BY StartedType DEF Setting
<1>3. TuneNext(m) \in Managed
  BY <1>2, Operations DEF TuneNext, Managed, Control, Tuning
<1>4. ResetNext(m) \in Managed
  BY <1>2, Operations DEF ResetNext, Managed, Control, Tuning, NoTuning
<1>5. SynchronizeNext(m) \in Managed
  BY <1>2, Operations DEF SynchronizeNext, Managed, Synchronization
<1>6. [m EXCEPT !.sync.stable = "off"] \in Managed
  BY DEF Managed, Synchronization
<1>7. StartNext(m) \in Managed
  BY <1>3, <1>4, <1>5, <1>6 DEF StartNext
<1> QED BY <1>1, <1>7

(* So do the ends of a transaction, which leave none.                      *)
LEMMA EndType ==
  ASSUME NEW m \in Managed
  PROVE  /\ m.tx.op # None => Completed(m) \in Managed
         /\ Failed(m) \in Managed
         /\ Queried(m) \in Managed
         /\ m.tx.op # None => Completed(m).tx.op = None
         /\ Failed(m).tx.op = None
<1>1. ASSUME m.tx.op # None
      PROVE  Completed(m) \in Managed /\ Completed(m).tx.op = None
  <2> DEFINE n == [m EXCEPT !.tx = NoTransaction]
  <2>1. n \in Managed /\ n.tx.op = None
    BY StartedType DEF Managed
  <2>2. m.tx.op \in {"startup", "start", "stop", "gate", "factory"}
    BY <1>1, Operations DEF Managed, Transaction
  <2> HIDE DEF n
  <2>3. CASE m.tx.op = "startup"
    BY <2>1, <2>3 DEF Completed, Managed, Synchronization, n
  <2>4. CASE m.tx.op \in {"start", "stop"}
    BY <2>1, <2>4 DEF Completed, Managed, Control, n
  <2>5. CASE m.tx.op = "gate"
    BY <2>1, <2>5 DEF Completed, n
  <2>6. CASE m.tx.op = "factory"
    BY <2>1, <2>6 DEF Completed, Managed, Control, Tuning, Synchronization, n
  <2> QED BY <2>2, <2>3, <2>4, <2>5, <2>6
<1>2. Failed(m) \in Managed /\ Failed(m).tx.op = None
  BY StartedType, ControlType
     DEF Failed, Managed, Tuning, NoTuning, Synchronization
<1>3. Queried(m) \in Managed
  <2>1. [m EXCEPT !.ctl.gate = "readback", !.ctl.late = FALSE] \in Managed
    BY DEF Managed, Control
  <2> QED BY <2>1 DEF Queried
<1> QED BY <1>1, <1>2, <1>3

-----------------------------------------------------------------------------
(* Types                                                                   *)

(* A command that is appended keeps the line one of commands.              *)
LEMMA SendType ==
  ASSUME TypeOK, NEW command \in Command, NEW value \in Setting,
         Send(command, value)
  PROVE  /\ line' \in Seq([command : Command, value : Setting])
         /\ answer' \in Answer
BY DEF Send, TypeOK, Answer

LEMMA QuarantineType ==
  ASSUME TypeOK, Quarantine
  PROVE  tuning' \in Tuning /\ ctl' \in Control
BY ControlType DEF Quarantine, TypeOK, Tuning, NoTuning

(* The steps of the watchdog.                                              *)
LEMMA WatchdogType ==
  ASSUME TypeInv, UNCHANGED <<radar, shown, web, budget>>,
         Begin \/ Enter \/ GiveUp \/ Resume \/ SettleDown \/ StayBlocked
  PROVE  TypeInv'
<1>1. Factory \in Setting
  BY DEF Setting
<1>2. /\ Recovering \in Recovery /\ Interrupted \in Recovery
      /\ Settling \in Recovery
  BY DEF Recovering, Interrupted, Settling, Recovery
<1>3. health.open \in BOOLEAN /\ dog \in Watchdog /\ rec \in Recovery
      /\ sync \in Synchronization /\ tx \in Transaction
  BY DEF TypeInv, TypeOK
<1>4. CASE Begin
  <2>1. /\ tuning' \in Tuning /\ ctl' \in Control
    BY <1>4, QuarantineType DEF Begin, TypeInv
  <2>2. /\ line' \in Seq([command : Command, value : Setting])
        /\ answer' \in Answer
    BY <1>1, <1>4, SendType, CommonCommands DEF Begin, TypeInv
  <2>3. dog' \in Watchdog
    BY <1>3, <1>4 DEF Begin, Watchdog
  <2> QED BY <1>2, <1>4, <2>1, <2>2, <2>3
          DEF Begin, TypeInv, TypeOK, Consistent
<1>5. CASE Enter
  <2>1. /\ tuning' \in Tuning /\ ctl' \in Control
    BY <1>5, QuarantineType DEF Enter, TypeInv
  <2>2. /\ line' \in Seq([command : Command, value : Setting])
        /\ answer' \in Answer
    BY <1>1, <1>5, SendType, CommonCommands DEF Enter, TypeInv
  <2>3. dog' \in Watchdog
    BY <1>3, <1>5 DEF Enter, Watchdog
  <2> QED BY <1>2, <1>5, <2>1, <2>2, <2>3
          DEF Enter, TypeInv, TypeOK, Consistent
<1>6. CASE GiveUp
  <2>1. /\ tuning' \in Tuning /\ ctl' \in Control
    BY <1>6, QuarantineType DEF GiveUp, TypeInv
  <2>2. dog' \in Watchdog /\ rec' \in Recovery
    BY <1>3, <1>6 DEF GiveUp, Watchdog, Recovery
  <2> QED BY <1>6, <2>1, <2>2 DEF GiveUp, TypeInv, TypeOK, Consistent
<1>7. CASE Resume
  <2>1. /\ tuning' \in Tuning /\ ctl' \in Control
    BY <1>7, QuarantineType DEF Resume, TypeInv
  <2>2. dog' \in Watchdog /\ rec' \in Recovery /\ sync' \in Synchronization
    BY <1>2, <1>3, <1>7 DEF Resume, Watchdog, Synchronization
  <2> QED BY <1>7, <2>1, <2>2 DEF Resume, TypeInv, TypeOK, Consistent
<1>8. CASE SettleDown
  <2>1. rec' \in Recovery /\ sync' \in Synchronization /\ ctl' \in Control
    BY <1>3, <1>8
       DEF SettleDown, Recovery, Synchronization, Control, TypeInv, TypeOK
  <2>2. health' \in [seen : BOOLEAN, age : 0..2, engineering : BOOLEAN,
                     open : BOOLEAN]
    BY <1>8 DEF SettleDown, TypeInv, TypeOK
  <2> QED BY <1>8, <2>1, <2>2 DEF SettleDown, TypeInv, TypeOK, Consistent
<1>9. CASE StayBlocked
  <2>1. /\ tuning' \in Tuning /\ ctl' \in Control
    BY <1>9, QuarantineType DEF StayBlocked, TypeInv
  <2>2. rec' \in Recovery
    BY <1>2, <1>3, <1>9 DEF StayBlocked
  <2> QED BY <1>9, <2>1, <2>2 DEF StayBlocked, TypeInv, TypeOK, Consistent
<1> QED BY <1>4, <1>5, <1>6, <1>7, <1>8, <1>9

(* What becomes of the manager's state has the types it had before.        *)
LEMMA BecomesType ==
  ASSUME NEW m \in Managed, Becomes(m)
  PROVE  /\ ctl' \in Control /\ tuning' \in Tuning
         /\ sync' \in Synchronization
         /\ tx' \in Transaction /\ Consistent(tx)'
BY DEF Becomes, Managed, Consistent

(* One turn of the manager, which hands over to the recovery only what it  *)
(* no longer owns.                                                         *)
LEMMA ManageType ==
  ASSUME TypeInv, Manage, UNCHANGED <<radar, shown, web, budget>>
  PROVE  TypeInv' /\ (Busy' => UNCHANGED <<rec, dog>>)
<1> DEFINE m == StartNext(TakeSession([ctl |-> ctl, tuning |-> tuning,
                                       sync |-> sync, tx |-> tx]))
           t == m.tx
<1>1. m \in Managed
  <2>1. [ctl |-> ctl, tuning |-> tuning, sync |-> sync, tx |-> tx] \in Managed
    BY DEF Managed, TypeInv, TypeOK
  <2> QED BY <2>1, ChoiceType
<1>2. t \in Transaction /\ Consistent(t)
  BY <1>1 DEF Managed
<1>3. ASSUME NEW n \in Managed, Becomes(n),
             line' \in Seq([command : Command, value : Setting]),
             answer' \in Answer, rec' \in Recovery
      PROVE  TypeInv'
  BY <1>3, BecomesType DEF Manage, TypeInv, TypeOK
<1>4. /\ line \in Seq([command : Command, value : Setting])
      /\ answer \in Answer /\ rec \in Recovery
      /\ UNCHANGED <<health, dog>>
  BY DEF TypeInv, TypeOK, Manage
<1>5. \/ /\ Sends(t)
         /\ Becomes([Queried(m) EXCEPT !.tx = AfterSend(t)])
         /\ Send(Expected(t), t.value)
         /\ UNCHANGED rec
      \/ /\ Completes(t)
         /\ Becomes(Completed(m))
         /\ UNCHANGED <<line, answer, rec>>
      \/ /\ Fails(t)
         /\ Becomes(Failed(m))
         /\ rec' = [rec EXCEPT !.requested = TRUE]
         /\ UNCHANGED <<line, answer>>
      \/ /\ t.state \in {"ack", "aborted"}
         /\ \E a \in {answer} : Becomes([m EXCEPT !.tx = AfterAnswer(t, a)])
         /\ answer' = None
         /\ UNCHANGED <<line, rec>>
      \/ /\ t.state \in {"ack", "aborted"}
         /\ Becomes([m EXCEPT !.tx = AfterFailure(t)])
         /\ UNCHANGED <<line, answer, rec>>
      \/ /\ Becomes(m)
         /\ UNCHANGED <<line, answer, rec>>
  BY DEF Manage
<1>6. ASSUME NEW u \in Transaction, Consistent(u), NEW n \in Managed
      PROVE  [n EXCEPT !.tx = u] \in Managed
  BY <1>6 DEF Managed
<1>7. t.state # "idle" => t.op # None
  BY <1>2 DEF Consistent
<1> HIDE DEF m
<1>8. CASE /\ Sends(t)
           /\ Becomes([Queried(m) EXCEPT !.tx = AfterSend(t)])
           /\ Send(Expected(t), t.value)
           /\ UNCHANGED rec
  <2>1. t.op # None /\ t.value \in Setting
    BY <1>2, <1>7, <1>8 DEF Sends, Transaction
  <2>2. [Queried(m) EXCEPT !.tx = AfterSend(t)] \in Managed
    BY <1>1, <1>2, <1>6, <2>1, StepType, EndType
  <2>3. /\ line' \in Seq([command : Command, value : Setting])
        /\ answer' \in Answer
    BY <1>2, <1>8, <2>1, ExpectedType, SendType DEF TypeInv
  <2> QED BY <1>3, <1>4, <1>8, <2>2, <2>3
<1>9. CASE /\ Completes(t)
           /\ Becomes(Completed(m))
           /\ UNCHANGED <<line, answer, rec>>
  <2>1. t.op # None
    BY <1>7, <1>9 DEF Completes
  <2>2. Completed(m) \in Managed
    BY <1>1, <2>1, EndType
  <2> QED BY <1>3, <1>4, <1>9, <2>2
<1>10. CASE /\ Fails(t)
            /\ Becomes(Failed(m))
            /\ rec' = [rec EXCEPT !.requested = TRUE]
            /\ UNCHANGED <<line, answer>>
  <2>1. Failed(m) \in Managed /\ Failed(m).tx.op = None
    BY <1>1, EndType
  <2>2. rec' \in Recovery
    BY <1>4, <1>10 DEF Recovery
  <2>3. ~Busy'
    BY <1>10, <2>1 DEF Becomes, Busy
  <2> QED BY <1>3, <1>4, <1>10, <2>1, <2>2, <2>3
<1>11. CASE /\ t.state \in {"ack", "aborted"}
            /\ \E a \in {answer} : Becomes([m EXCEPT !.tx = AfterAnswer(t, a)])
            /\ answer' = None
            /\ UNCHANGED <<line, rec>>
  <2>1. t.op # None
    BY <1>7, <1>11
  <2>2. AfterAnswer(t, answer) \in Transaction /\ Consistent(AfterAnswer(t, answer))
    BY <1>2, <2>1, StepType DEF AfterAnswer
  <2>3. [m EXCEPT !.tx = AfterAnswer(t, answer)] \in Managed
    BY <1>1, <1>6, <2>2
  <2>4. answer' \in Answer
    BY <1>11 DEF Answer
  <2> QED BY <1>3, <1>4, <1>11, <2>3, <2>4
<1>12. CASE /\ t.state \in {"ack", "aborted"}
            /\ Becomes([m EXCEPT !.tx = AfterFailure(t)])
            /\ UNCHANGED <<line, answer, rec>>
  <2>1. t.op # None
    BY <1>7, <1>12
  <2>2. [m EXCEPT !.tx = AfterFailure(t)] \in Managed
    BY <1>1, <1>2, <1>6, <2>1, StepType
  <2> QED BY <1>3, <1>4, <1>12, <2>2
<1>13. CASE Becomes(m) /\ UNCHANGED <<line, answer, rec>>
  BY <1>1, <1>3, <1>4, <1>13
<1> QED BY <1>5, <1>8, <1>9, <1>10, <1>11, <1>12, <1>13

(* The first state, where the radar is one of Setup's.                     *)
LEMMA InitType ==
  ASSUME Init
  PROVE  TypeInv
<1>1. Factory \in Setting
  BY DEF Setting
<1>2. radar \in Radar
  BY SetupAssumption DEF Init
<1>3. tx \in Transaction /\ Consistent(tx)
  BY StartedType DEF Init
<1>4. ctl \in Control
  BY <1>1 DEF Init, Control
<1>5. /\ line \in Seq([command : Command, value : Setting])
      /\ health \in [seen : BOOLEAN, age : 0..2, engineering : BOOLEAN,
                     open : BOOLEAN]
      /\ answer \in Answer /\ dog \in Watchdog /\ rec \in Recovery
      /\ sync \in Synchronization /\ tuning \in Tuning
      /\ shown \in Setting \cup {None} /\ web \in Request \cup {None}
  BY DEF Init, Answer, Watchdog, Recovery, Synchronization, Tuning, NoTuning
<1> QED BY <1>2, <1>3, <1>4, <1>5 DEF TypeInv, TypeOK

(* The lambda, which starts a gate write only while nobody has the radar.  *)
LEMMA IntervalType ==
  ASSUME TypeInv, Interval
  PROVE  TypeInv' /\ (Busy' => Busy \/ GateReady)
<1>1. /\ ctl \in Control /\ shown \in Setting \cup {None}
      /\ tx \in Transaction /\ Consistent(tx)
  BY DEF TypeInv, TypeOK
<1>2. CASE TakeGate
  <2>1. [ctl EXCEPT !.gate = IF GateReady THEN "dispatching" ELSE "failed"]
          \in Control
    BY <1>1 DEF Control
  <2>2. ctl' \in Control
    BY <1>2, <2>1, ControlType DEF TakeGate
  <2>3. "gate" \in Operation /\ ctl.value \in Setting
    BY <1>1, Operations DEF Control
  <2>4. tx' \in Transaction /\ Consistent(tx)'
    BY <1>1, <1>2, <2>3, StartedType DEF TakeGate, Consistent
  <2>5. shown' = None /\ (Busy' => Busy \/ GateReady)
    BY <1>2 DEF TakeGate, Busy
  <2> QED BY <2>2, <2>4, <2>5 DEF Interval, TypeInv, TypeOK
<1>3. CASE VerifyGate
  <2>1. [ctl EXCEPT !.gate = IF shown = ctl.value THEN "applied" ELSE "failed"]
          \in Control
    BY <1>1 DEF Control
  <2>2. ctl' \in Control
    BY <1>3, <2>1, ControlType DEF VerifyGate
  <2> QED BY <1>3, <2>2
          DEF VerifyGate, Interval, TypeInv, TypeOK, Consistent, Busy
<1>4. CASE ReportStatus
  <2>1. ctl' \in Control
    BY <1>1, <1>4, ControlType DEF ReportStatus
  <2> QED BY <1>4, <2>1
          DEF ReportStatus, Interval, TypeInv, TypeOK, Consistent, Busy
<1> QED BY <1>2, <1>3, <1>4 DEF Interval

(* The web server's task.                                                  *)
LEMMA WebType ==
  ASSUME TypeInv, WriteDown \/ \E request \in Request : Ask(request)
  PROVE  TypeInv' /\ UNCHANGED <<tx, rec, dog>>
<1>1. CASE WriteDown
  <2>1. ctl \in Control /\ web \in Request
    BY <1>1 DEF WriteDown, TypeInv, TypeOK
  <2>2. ctl' \in Control
    BY <1>1, <2>1, ControlType DEF WriteDown
  <2> QED BY <1>1, <2>2 DEF WriteDown, TypeInv, TypeOK, Consistent
<1>2. CASE \E request \in Request : Ask(request)
  BY <1>2 DEF Ask, host, TypeInv, TypeOK, Consistent
<1> QED BY <1>1, <1>2

(* A line that is not empty has a first command and a rest.                *)
LEMMA HeadTail ==
  ASSUME NEW S, NEW s \in Seq(S), s # <<>>
  PROVE  Head(s) \in S /\ Tail(s) \in Seq(S)
OBVIOUS

(* A frame updates the health, whatever the ages are.                      *)
LEMMA FrameHealth ==
  ASSUME NEW Age, NEW age \in Age, NEW e \in BOOLEAN,
         NEW h \in [seen : BOOLEAN, age : Age, engineering : BOOLEAN,
                   open : BOOLEAN]
  PROVE  [h EXCEPT !.seen = TRUE, !.age = age, !.engineering = e]
           \in [seen : BOOLEAN, age : Age, engineering : BOOLEAN,
               open : BOOLEAN]
OBVIOUS

(* The radar: its answers, its boots and its frames.                       *)
LEMMA RadarType ==
  ASSUME TypeInv, Obey \/ Disobey \/ Boot \/ BrownOut \/ Frame
  PROVE  TypeInv' /\ (Busy' => Busy) /\ UNCHANGED dog.state
         /\ UNCHANGED <<rec.requested, rec.active, rec.settling>>
<1> DEFINE Healths == [seen : BOOLEAN, age : 0..2, engineering : BOOLEAN,
                       open : BOOLEAN]
<1>1. /\ radar \in Radar /\ health \in Healths /\ answer \in Answer
      /\ line \in Seq([command : Command, value : Setting])
      /\ tx \in Transaction /\ Consistent(tx) /\ dog \in Watchdog
      /\ rec \in Recovery /\ shown \in Setting \cup {None}
  BY DEF TypeInv, TypeOK
<1>2. ASSUME line # <<>>
      PROVE  /\ Tail(line) \in Seq([command : Command, value : Setting])
             /\ Head(line) \in [command : Command, value : Setting]
  BY <1>1, <1>2, HeadTail
<1>3. ASSUME NEW command, NEW result \in {"ok", "rejected"},
             Acknowledge(command, result)
      PROVE  answer' \in Answer /\ health' \in Healths
  <2>1. answer' \in Answer
    BY <1>1, <1>3 DEF Acknowledge, Answer
  <2>2. (command = "enable") \in BOOLEAN
    OBVIOUS
  <2>3. health' \in Healths
    BY <1>1, <1>3, <2>2 DEF Acknowledge
  <2> QED BY <2>1, <2>3
<1>4. ASSUME NEW c \in [command : Command, value : Setting]
      PROVE  Obeying(c) \in Radar
  <2>1. Factory \in Setting /\ c.value \in Setting
    BY DEF Setting
  <2>2. c.command \in {"enable", "disable", "engineer", "normal", "write",
                       "factory", "query", "restart"}
    BY CommandNames
  <2> QED BY <1>1, <2>1, <2>2 DEF Obeying, Radar
<1>5. CASE Obey
  <2>1. Head(line) \in [command : Command, value : Setting]
        /\ line' \in Seq([command : Command, value : Setting])
    BY <1>2, <1>5 DEF Obey
  <2>2. radar' \in Radar
    BY <1>1, <1>4, <1>5, <2>1 DEF Obey
  <2>3. answer' \in Answer /\ health' \in Healths
    BY <1>1, <1>3, <1>5 DEF Obey, NoAnswer
  <2>4. shown' \in Setting \cup {None}
    BY <1>1, <1>5 DEF Obey, NoAnswer, Radar
  <2>5. UNCHANGED <<tx, dog, rec, sync, tuning, ctl, web>>
    BY <1>5 DEF Obey, host
  <2> QED BY <2>1, <2>2, <2>3, <2>4, <2>5 DEF TypeInv, TypeOK, Consistent, Busy
<1>6. CASE Disobey
  <2>1. Head(line) \in [command : Command, value : Setting]
        /\ line' \in Seq([command : Command, value : Setting])
    BY <1>2, <1>6 DEF Disobey
  <2>2. radar' \in Radar
    BY <1>1, <1>4, <1>6, <2>1 DEF Disobey
  <2>3. /\ answer' \in Answer /\ health' \in Healths
        /\ shown' \in Setting \cup {None}
    BY <1>1, <1>3, <1>6 DEF Disobey, NoAnswer
  <2>4. UNCHANGED <<tx, dog, rec, sync, tuning, ctl, web>>
    BY <1>6 DEF Disobey, host
  <2> QED BY <2>1, <2>2, <2>3, <2>4 DEF TypeInv, TypeOK, Consistent, Busy
<1>7. CASE Boot
  BY <1>1, <1>7 DEF Boot, Radar, host, TypeInv, TypeOK, Consistent, Busy
<1>8. CASE BrownOut
  BY <1>1, <1>8 DEF BrownOut, Radar, host, TypeInv, TypeOK, Consistent, Busy
<1>9. CASE Frame
  <2>1. health' \in Healths
    <3>1. radar.engineering \in BOOLEAN
      BY <1>1 DEF Radar
    <3>2. ASSUME NEW e \in BOOLEAN
          PROVE  [health EXCEPT !.seen = TRUE, !.age = 0, !.engineering = e]
                   \in Healths
      <4>1. 0 \in 0..2
        OBVIOUS
      <4> QED BY <1>1, <4>1, FrameHealth
    <3> QED BY <1>9, <3>1, <3>2 DEF Frame
  <2>2. tx' \in Transaction /\ Consistent(tx)' /\ (Busy' => Busy)
    BY <1>1, <1>9 DEF Frame, Transaction, Consistent, Busy
  <2>3. dog' \in Watchdog /\ UNCHANGED dog.state
    BY <1>1, <1>9 DEF Frame, Watchdog
  <2>4. /\ rec' \in Recovery
        /\ UNCHANGED <<rec.requested, rec.active, rec.settling>>
    BY <1>1, <1>9 DEF Frame, Recovery
  <2> QED BY <1>9, <2>1, <2>2, <2>3, <2>4 DEF Frame, TypeInv, TypeOK
<1> QED BY <1>5, <1>6, <1>7, <1>8, <1>9

(* Time.                                                                   *)
LEMMA TimeType ==
  ASSUME TypeInv,
         \/ Quiet \/ TransactionDue \/ WatchdogDue \/ SynchronizeDue
         \/ SessionDue \/ ReadbackDue
  PROVE  TypeInv' /\ (Busy' => Busy) /\ UNCHANGED <<rec, dog.state>>
<1>1. CASE Quiet
  BY <1>1 DEF Quiet, host, TypeInv, TypeOK, Consistent, Busy
<1>2. CASE TransactionDue
  <2>1. tx' \in Transaction /\ Consistent(tx)' /\ (Busy' => Busy)
    BY <1>2 DEF TransactionDue, TypeInv, TypeOK, Transaction, Consistent, Busy
  <2> QED BY <1>2, <2>1 DEF TransactionDue, TypeInv, TypeOK
<1>3. CASE WatchdogDue
  <2>1. dog' \in Watchdog /\ UNCHANGED dog.state
    BY <1>3 DEF WatchdogDue, TypeInv, TypeOK, Watchdog
  <2> QED BY <1>3, <2>1 DEF WatchdogDue, TypeInv, TypeOK, Consistent, Busy
<1>4. CASE SynchronizeDue
  <2>1. sync' \in Synchronization
    BY <1>4 DEF SynchronizeDue, TypeInv, TypeOK, Synchronization
  <2> QED BY <1>4, <2>1 DEF SynchronizeDue, TypeInv, TypeOK, Consistent, Busy
<1>5. CASE SessionDue
  <2>1. ctl' \in Control
    BY <1>5 DEF SessionDue, TypeInv, TypeOK, Control
  <2> QED BY <1>5, <2>1 DEF SessionDue, TypeInv, TypeOK, Consistent, Busy
<1>6. CASE ReadbackDue
  <2>1. ctl' \in Control
    BY <1>6 DEF ReadbackDue, TypeInv, TypeOK, Control
  <2> QED BY <1>6, <2>1 DEF ReadbackDue, TypeInv, TypeOK, Consistent, Busy
<1> QED BY <1>1, <1>2, <1>3, <1>4, <1>5, <1>6

-----------------------------------------------------------------------------
(* One owner: the theorems                                                 *)

(* A recovery is marked as active as long as the watchdog has not given the *)
(* radar back.  Without it an arbitrary state with OneOwner might let the  *)
(* lambda begin while the watchdog recovers.                               *)
Marked == dog.state # "monitoring" => rec.active

IInv == TypeInv /\ OneOwner /\ Marked

LEMMA StepInv == IInv /\ [Next]_vars => IInv'
<1> SUFFICES ASSUME IInv, [Next]_vars PROVE IInv'
  OBVIOUS
<1>1. ASSUME TypeInv', Busy' => Busy, UNCHANGED dog.state,
             UNCHANGED <<rec.requested, rec.active, rec.settling>>
      PROVE  IInv'
  BY <1>1 DEF IInv, OneOwner, Marked, Blocked
<1>2. CASE Loop
  <2>1. CASE Begin \/ Enter \/ GiveUp \/ Resume \/ SettleDown \/ StayBlocked
    <3>1. TypeInv'
      BY <1>2, <2>1, WatchdogType DEF IInv, Loop
    <3>2. ~Busy /\ ~Busy'
      BY <2>1 DEF IInv, OneOwner, Begin, Begins, Enter, Enters, GiveUp, GivesUp,
                  Resume, Resumes, SettleDown, StayBlocked, Blocked, Busy
    <3>3. Marked'
      <4>1. rec \in Recovery /\ dog \in Watchdog
        BY DEF IInv, TypeInv, TypeOK
      <4>2. CASE Begin \/ Enter
        BY <4>2 DEF Begin, Enter, Recovering, Marked
      <4>3. CASE GiveUp
        BY <4>1, <4>3 DEF GiveUp, Recovery, Marked
      <4>4. CASE Resume
        BY <4>1, <4>4 DEF Resume, Watchdog, Marked
      <4>5. CASE SettleDown
        BY <4>1, <4>5 DEF SettleDown, Recovery, IInv, Marked
      <4>6. CASE StayBlocked
        BY <4>6 DEF StayBlocked, Interrupted, Recovering, IInv, Marked
      <4> QED BY <2>1, <4>2, <4>3, <4>4, <4>5, <4>6
    <3> QED BY <3>1, <3>2, <3>3 DEF IInv, OneOwner
  <2>2. CASE Manage
    <3>1. TypeInv' /\ (Busy' => UNCHANGED <<rec, dog>>)
      BY <1>2, <2>2, ManageType DEF IInv, Loop
    <3>2. dog.state = "monitoring" /\ ~Blocked /\ UNCHANGED dog
      BY <2>2 DEF IInv, Marked, Manage, Blocked
    <3> QED BY <3>1, <3>2 DEF IInv, OneOwner, Marked, Blocked
  <2> QED BY <1>2, <2>1, <2>2 DEF Loop
<1>3. CASE Interval
  <2>1. TypeInv' /\ (Busy' => Busy \/ GateReady) /\ UNCHANGED <<rec, dog>>
    BY <1>3, IntervalType DEF IInv, Interval
  <2> QED BY <2>1 DEF IInv, OneOwner, Marked, GateReady, Blocked
<1>4. CASE WriteDown \/ \E request \in Request : Ask(request)
  <2>1. TypeInv' /\ UNCHANGED <<tx, rec, dog>>
    BY <1>4, WebType DEF IInv
  <2> QED BY <1>1, <2>1 DEF Busy
<1>5. CASE Obey \/ Disobey \/ Boot \/ BrownOut \/ Frame
  BY <1>1, <1>5, RadarType DEF IInv
<1>6. CASE \/ Quiet \/ TransactionDue \/ WatchdogDue \/ SynchronizeDue
           \/ SessionDue \/ ReadbackDue
  <2>1. TypeInv' /\ (Busy' => Busy) /\ UNCHANGED <<rec, dog.state>>
    BY <1>6, TimeType DEF IInv
  <2> QED BY <1>1, <2>1
<1>7. CASE UNCHANGED vars
  BY <1>7 DEF vars, host, IInv, TypeInv, TypeOK, Consistent, OneOwner, Marked,
              Blocked, Busy
<1> QED BY <1>2, <1>3, <1>4, <1>5, <1>6, <1>7 DEF Next

LEMMA Invariant == Spec => []IInv
<1>1. Init => IInv
  <2> SUFFICES ASSUME Init PROVE IInv
    OBVIOUS
  <2>1. TypeInv
    BY InitType
  <2>2. ~Busy /\ dog.state = "monitoring"
    BY StartedType DEF Init, Busy
  <2> QED BY <2>1, <2>2 DEF IInv, OneOwner, Marked
<1> QED BY <1>1, StepInv, PTL DEF Spec

(* The node, the web server's task and the watchdog keep every type.       *)
THEOREM RadarTyped == Spec => []TypeOK
<1>1. IInv => TypeOK
  BY DEF IInv, TypeInv
<1> QED BY <1>1, Invariant, PTL

(* A transaction and a recovery never command the radar at the same time,  *)
(* whichever requests come, commands fail or time-outs race with answers.  *)
THEOREM RadarHasOneOwner == Spec => []OneOwner
<1>1. IInv => OneOwner
  BY DEF IInv
<1> QED BY <1>1, Invariant, PTL

-----------------------------------------------------------------------------
(* The readback: the inductive invariant                                   *)

Abandoned(t) == t.state \in {"abort", "aborted", "report"}

Underway == ctl.gate \in {"dispatching", "readback"}

(* What a transaction may wait for and a later one must not find in line.  *)
Decisive == {"write", "factory", "disable"}

(* A recovery settles only once everything sent before has been read, and  *)
(* does not settle while the watchdog still works on the radar.            *)
LineEmpties == rec.steady => rec.settling /\ line = <<>>
NotYetSettling == dog.state # "monitoring" => rec.active /\ ~rec.settling

(* Unless its transaction was abandoned, a decisive command on its way is  *)
(* the last one, and the transaction waits for its answer.                 *)
LastInLine ==
  ~Blocked /\ ~Abandoned(tx) =>
    \A i \in 1..Len(line) :
      line[i].command \in Decisive =>
        /\ tx.state = "ack" /\ answer = None
        /\ i = Len(line) /\ line[i].command = Expected(tx)

(* Writes and resets on their way are those of the transaction.            *)
OwnInLine ==
  ~Blocked =>
    \A i \in 1..Len(line) :
      /\ line[i].command = "write" => tx.op = "gate" /\ line[i].value = tx.value
      /\ line[i].command = "factory" => tx.op = "factory"

(* A gate under way ends with a recovery; until then a transaction for a   *)
(* gate is for this one, and runs until the query is sent.                 *)
NoneWhileBlocked == Blocked => ~Underway
ForThisGate == Underway /\ tx.op = "gate" => tx.value = ctl.value
Dispatched ==
  ctl.gate = "dispatching" =>
    /\ tx.op = "gate"
    /\ \/ Abandoned(tx)
       \/ tx.state = "send" /\ tx.step \in 1..3
       \/ tx.state = "ack" /\ tx.step \in 1..2

(* The readback shows what was asked for and the radar holds something     *)
(* else: a reset was obeyed since, whose transaction is not over and will  *)
(* not be before the lambda has looked, because the radar does not report. *)
Outdated == Underway /\ shown = ctl.value /\ radar.threshold # ctl.value
Completing ==
  tx.frame /\ (tx.state = "frame" \/ (tx.state = "ack" /\ tx.step = 3))
OnlyByReset ==
  Outdated => tx.op = "factory" /\ ~Completing /\ (Streams => Abandoned(tx))

LineInv == LineEmpties /\ NotYetSettling /\ LastInLine /\ OwnInLine
GateInv == NoneWhileBlocked /\ ForThisGate /\ Dispatched /\ OnlyByReset

ReadbackInv == IInv /\ LineInv /\ GateInv

-----------------------------------------------------------------------------
(* Lines and scripts                                                       *)

LEMMA TailElements ==
  ASSUME NEW S, NEW s \in Seq(S), s # <<>>, NEW i \in 1..Len(Tail(s))
  PROVE  /\ Tail(s)[i] = s[i + 1] /\ i + 1 \in 2..Len(s)
         /\ i + 1 = Len(s) => i = Len(Tail(s))
OBVIOUS

LEMMA AppendElements ==
  ASSUME NEW S, NEW s \in Seq(S), NEW e \in S, NEW i \in 1..Len(Append(s, e))
  PROVE  \/ i \in 1..Len(s) /\ Append(s, e)[i] = s[i]
         \/ i = Len(Append(s, e)) /\ Append(s, e)[i] = e
OBVIOUS

(* Where the commands stand in their scripts.                              *)
LEMMA Places ==
  ASSUME NEW op \in Operation, NEW i \in 1..Len(Script[op])
  PROVE  /\ Script[op][i] = "write" => op = "gate"
         /\ Script[op][i] = "factory" => op = "factory" /\ i = 2
         /\ Script[op][i] = "restart" => op = "factory" /\ i = 3
         /\ op = "factory" => /\ i \in 1..3 /\ Script[op][i] # "disable"
                              /\ Len(Script[op]) = 3
         /\ op = "gate" => /\ i \in 1..4 /\ Len(Script[op]) = 4
                           /\ i = 3 <=> Script[op][i] = "query"
<1>1. op \in {"startup", "start", "stop", "gate", "factory"}
  BY Operations
<1>2. /\ Script["startup"] = <<"enable", "query", "disable">>
      /\ Script["start"] = <<"enable", "engineer", "query", "disable">>
      /\ Script["stop"] = <<"enable", "normal", "disable">>
      /\ Script["gate"] = <<"enable", "write", "query", "disable">>
      /\ Script["factory"] = <<"enable", "factory", "restart">>
  BY DEF Script
<1>3. CASE op \in {"startup", "stop"}
  BY <1>2, <1>3
<1>4. CASE op = "start"
  BY <1>2, <1>4
<1>5. CASE op = "gate"
  <2>1. Script[op] = <<"enable", "write", "query", "disable">>
    BY <1>2, <1>5
  <2>2. Len(Script[op]) = 4 /\ i \in 1..4
    BY <2>1
  <2>3. i = 1 \/ i = 2 \/ i = 3 \/ i = 4
    BY <2>2
  <2> QED BY <1>5, <2>1, <2>2, <2>3
<1>6. CASE op = "factory"
  <2>1. Script[op] = <<"enable", "factory", "restart">>
    BY <1>2, <1>6
  <2>2. Len(Script[op]) = 3 /\ i \in 1..3
    BY <2>1
  <2>3. i = 1 \/ i = 2 \/ i = 3
    BY <2>2
  <2> QED BY <1>6, <2>1, <2>2, <2>3
<1> QED BY <1>1, <1>3, <1>4, <1>5, <1>6

(* What a transaction that is not abandoned expects.                       *)
LEMMA ExpectedPlaces ==
  ASSUME NEW t \in Transaction, Consistent(t), t.op # None, ~Abandoned(t)
  PROVE  /\ t.op \in Operation /\ t.step \in 1..Len(Script[t.op])
         /\ Expected(t) = Script[t.op][t.step]
BY DEF Expected, Abandoned, Transaction, Consistent

-----------------------------------------------------------------------------
(* A turn of the manager                                                   *)

(* A transaction that the manager begins is not one for a gate.            *)
New(t) ==
  /\ t.op \in Operation \ {"gate"} /\ t.state = "send" /\ t.step = 1
  /\ ~t.frame

(* The manager's choice leaves the gate alone.                             *)
LEMMA ChoiceOfNext ==
  ASSUME NEW m \in Managed
  PROVE  LET n == StartNext(TakeSession(m))
         IN  /\ n.ctl.gate = m.ctl.gate /\ n.ctl.value = m.ctl.value
             /\ n.tx = m.tx \/ (m.tx.op = None /\ New(n.tx))
<1> DEFINE k == TakeSession(m)
           Leaves(n) == /\ n.ctl.gate = m.ctl.gate /\ n.ctl.value = m.ctl.value
                        /\ n.tx = m.tx \/ (m.tx.op = None /\ New(n.tx))
<1>1. k \in Managed
  BY ChoiceType
<1>2. k.ctl.gate = m.ctl.gate /\ k.ctl.value = m.ctl.value /\ k.tx = m.tx
  <2> DEFINE c == KeptAlive(m.ctl)
  <2>1. m.ctl \in Control /\ c \in Control
    BY ControlType DEF Managed
  <2>2. c.gate = m.ctl.gate /\ c.value = m.ctl.value
    <3>1. ASSUME NEW d \in Control
          PROVE  /\ Session(d, FALSE).gate = d.gate
                 /\ Session(d, FALSE).value = d.value
      BY DEF Session, Control
    <3> QED BY <2>1, <3>1 DEF KeptAlive
  <2> HIDE DEF c
  <2>3. TakeSession(m) =
          IF ~c.session THEN [m EXCEPT !.ctl = c]
          ELSE [m EXCEPT !.ctl = [c EXCEPT !.session = FALSE],
                         !.tuning = [pending |-> TRUE, wanted |-> c.requested],
                         !.sync.stable = "off"]
    BY DEF TakeSession, c
  <2> QED BY <2>1, <2>2, <2>3 DEF Managed, Control, Synchronization
<1>3. /\ New(Started("startup", Factory)) /\ New(Started("start", Factory))
      /\ New(Started("stop", Factory)) /\ New(Started("factory", Factory))
  BY Operations DEF New, Started, NoTransaction
<1> HIDE DEF k
<1>4. Leaves(k) /\ Leaves([k EXCEPT !.sync.stable = "off"])
  BY <1>1, <1>2 DEF Managed, Synchronization
<1>5. k.tx.op = None => Leaves(TuneNext(k))
  BY <1>1, <1>2, <1>3 DEF TuneNext, Managed, Control, Tuning
<1>6. k.tx.op = None => Leaves(ResetNext(k))
  BY <1>1, <1>2, <1>3 DEF ResetNext, Managed, Control, Tuning
<1>7. k.tx.op = None => Leaves(SynchronizeNext(k))
  BY <1>1, <1>2, <1>3 DEF SynchronizeNext, Managed, Synchronization
<1> HIDE DEF Leaves
<1>8. Leaves(StartNext(k))
  BY <1>4, <1>5, <1>6, <1>7 DEF StartNext
<1> QED BY <1>8 DEF k, Leaves

(* What a turn of the manager with transaction t does to the transaction,  *)
(* the line and the gate.                                                  *)
Sending(t) ==
  /\ Sends(t) /\ tx' = AfterSend(t) /\ Send(Expected(t), t.value)
  /\ rec' = rec
  /\ ctl'.gate =
       IF t.op = "gate" /\ Expected(t) = "query" /\ ctl.gate = "dispatching"
         THEN "readback" ELSE ctl.gate
  /\ UNCHANGED ctl.value
Completion(t) ==
  /\ Completes(t) /\ tx' = NoTransaction
  /\ UNCHANGED <<line, answer, rec, ctl.gate, ctl.value>>
Failure ==
  /\ rec' = [rec EXCEPT !.requested = TRUE]
  /\ ~Underway' /\ (ctl'.gate = "applied" => ctl.gate = "applied")
  /\ UNCHANGED line
Answering(t) ==
  /\ t.state \in {"ack", "aborted"} /\ ~Completes(t) /\ answer # None
  /\ tx' = AfterAnswer(t, answer) /\ answer' = None
  /\ UNCHANGED <<line, rec, ctl.gate, ctl.value>>
Missing(t) ==
  /\ t.state \in {"ack", "aborted"} /\ tx' = AfterFailure(t)
  /\ UNCHANGED <<line, answer, rec, ctl.gate, ctl.value>>
Waiting(t) ==
  /\ ~Sends(t) /\ tx' = t
  /\ UNCHANGED <<line, answer, rec, ctl.gate, ctl.value>>

Turn(t) ==
  \/ Sending(t) \/ Completion(t) \/ Failure
  \/ Answering(t) \/ Missing(t) \/ Waiting(t)

LEMMA Quarantining ==
  ASSUME NEW c \in Control
  PROVE  /\ Quarantined(c).gate = GateFailed(c).gate
         /\ ~(GateFailed(c).gate \in {"dispatching", "readback"})
         /\ GateFailed(c).gate = "applied" => c.gate = "applied"
<1>1. /\ GateFailed(c) \in Control
      /\ ~(GateFailed(c).gate \in {"dispatching", "readback"})
      /\ GateFailed(c).gate = "applied" => c.gate = "applied"
  BY DEF GateFailed, GateBusy, Control
<1>2. Quarantined(c).gate = GateFailed(c).gate
  BY <1>1 DEF Quarantined, Control
<1> QED BY <1>1, <1>2

LEMMA ManagerTurns ==
  ASSUME TypeInv, Manage
  PROVE  \E t \in Transaction :
           /\ Consistent(t)
           /\ t = tx \/ (~Busy /\ New(t))
           /\ Turn(t)
<1> DEFINE h == [ctl |-> ctl, tuning |-> tuning, sync |-> sync, tx |-> tx]
           m == StartNext(TakeSession(h))
           t == m.tx
<1>1. h \in Managed
  BY DEF Managed, TypeInv, TypeOK
<1>2. m \in Managed /\ t \in Transaction /\ Consistent(t)
  BY <1>1, ChoiceType DEF Managed
<1>3. /\ m.ctl.gate = ctl.gate /\ m.ctl.value = ctl.value
      /\ t = tx \/ (~Busy /\ New(t))
  <2>1. h.ctl = ctl /\ h.tx = tx
    OBVIOUS
  <2> QED BY <1>1, <2>1, ChoiceOfNext DEF Busy
<1> HIDE DEF h
<1>4. CASE /\ Sends(t)
           /\ Becomes([Queried(m) EXCEPT !.tx = AfterSend(t)])
           /\ Send(Expected(t), t.value)
           /\ UNCHANGED rec
  <2>1. /\ Queried(m) \in Managed /\ Queried(m).ctl.value = ctl.value
        /\ Queried(m).ctl.gate =
             IF /\ t.op = "gate" /\ Expected(t) = "query"
                /\ ctl.gate = "dispatching"
               THEN "readback" ELSE ctl.gate
    <3> DEFINE q == [m EXCEPT !.ctl.gate = "readback", !.ctl.late = FALSE]
    <3>1. q.ctl.gate = "readback" /\ q.ctl.value = m.ctl.value
      BY <1>2 DEF Managed, Control
    <3>2. m.ctl.gate = ctl.gate /\ m.ctl.value = ctl.value
      BY <1>3
    <3> HIDE DEF m
    <3> QED BY <1>2, <3>1, <3>2, EndType DEF Queried
  <2>2. tx' = AfterSend(t) /\ ctl' = Queried(m).ctl
    BY <1>4, <2>1 DEF Becomes, Managed
  <2>3. Sending(t)
    BY <1>4, <2>1, <2>2 DEF Sending
  <2> QED BY <1>2, <1>3, <2>3 DEF Turn
<1>5. CASE /\ Completes(t)
           /\ Becomes(Completed(m))
           /\ UNCHANGED <<line, answer, rec>>
  <2>1. t.op # None
    BY <1>2, <1>5 DEF Completes, Consistent
  <2>2. t.op \in {"startup", "start", "stop", "gate", "factory"}
    BY <1>2, <2>1, Operations DEF Transaction
  <2>3. /\ Completed(m).tx = NoTransaction
        /\ Completed(m).ctl.gate = ctl.gate
        /\ Completed(m).ctl.value = ctl.value
    <3> DEFINE n == [m EXCEPT !.tx = NoTransaction]
    <3>1. n \in Managed /\ n.tx = NoTransaction /\ n.ctl = m.ctl
      BY <1>2, StartedType DEF Managed
    <3> HIDE DEF n
    <3>2. CASE t.op = "startup"
      BY <1>3, <3>1, <3>2 DEF Completed, Managed, n
    <3>3. CASE t.op \in {"start", "stop"}
      BY <1>3, <3>1, <3>3 DEF Completed, Managed, Control, n
    <3>4. CASE t.op = "gate"
      BY <1>3, <3>1, <3>4 DEF Completed, n
    <3>5. CASE t.op = "factory"
      BY <1>3, <3>1, <3>5 DEF Completed, Managed, Control, Tuning, n
    <3> QED BY <2>2, <3>2, <3>3, <3>4, <3>5
  <2>4. Completion(t)
    BY <1>5, <2>3 DEF Completion, Becomes
  <2> QED BY <1>2, <1>3, <2>4 DEF Turn
<1>6. CASE /\ Fails(t)
           /\ Becomes(Failed(m))
           /\ rec' = [rec EXCEPT !.requested = TRUE]
           /\ UNCHANGED <<line, answer>>
  <2>1. ctl' = Quarantined(m.ctl) /\ m.ctl \in Control
    BY <1>2, <1>6 DEF Becomes, Failed, Managed
  <2>2. Failure
    BY <1>3, <1>6, <2>1, Quarantining DEF Failure, Underway
  <2> QED BY <1>2, <1>3, <2>2 DEF Turn
<1>7. ASSUME NEW x, Becomes([m EXCEPT !.tx = x])
      PROVE  tx' = x /\ UNCHANGED <<ctl.gate, ctl.value>>
  BY <1>2, <1>3, <1>7 DEF Becomes, Managed
<1>8. CASE /\ t.state \in {"ack", "aborted"} /\ ~Completes(t)
           /\ answer # None
           /\ Becomes([m EXCEPT !.tx = AfterAnswer(t, answer)])
           /\ answer' = None
           /\ UNCHANGED <<line, rec>>
  <2>1. Answering(t)
    BY <1>7, <1>8 DEF Answering
  <2> QED BY <1>2, <1>3, <2>1 DEF Turn
<1>9. CASE /\ t.state \in {"ack", "aborted"} /\ ~Completes(t)
           /\ answer = None /\ t.due
           /\ Becomes([m EXCEPT !.tx = AfterFailure(t)])
           /\ UNCHANGED <<line, answer, rec>>
  <2>1. Missing(t)
    BY <1>7, <1>9 DEF Missing
  <2> QED BY <1>2, <1>3, <2>1 DEF Turn
<1>10. CASE /\ ~Sends(t) /\ ~Completes(t) /\ ~Fails(t)
            /\ t.state \in {"ack", "aborted"} => answer = None /\ ~t.due
            /\ Becomes(m)
            /\ UNCHANGED <<line, answer, rec>>
  <2>1. Waiting(t)
    BY <1>3, <1>10 DEF Waiting, Becomes
  <2> QED BY <1>2, <1>3, <2>1 DEF Turn
<1> QED BY <1>4, <1>5, <1>6, <1>8, <1>9, <1>10 DEF Manage, h

-----------------------------------------------------------------------------
(* The watchdog                                                            *)

(* While a recovery runs and no gate is under way nothing is asked of the  *)
(* line or of the readback.                                                *)
LEMMA WhileBlocked ==
  ASSUME Blocked', ~Underway'
  PROVE  (LastInLine /\ OwnInLine /\ GateInv)'
BY DEF LastInLine, OwnInLine, GateInv, NoneWhileBlocked, ForThisGate,
       Dispatched, OnlyByReset, Outdated, Underway

LEMMA QuarantineEnds ==
  ASSUME TypeInv, Quarantine
  PROVE  ~Underway' /\ (ctl'.gate = "applied" => ctl.gate = "applied")
<1>1. ctl \in Control /\ ctl' = Quarantined(ctl)
  BY DEF TypeInv, TypeOK, Quarantine
<1> QED BY <1>1, Quarantining DEF Underway

LEMMA WatchdogReadback ==
  ASSUME ReadbackInv, UNCHANGED <<radar, shown, web, budget>>,
         Begin \/ Enter \/ GiveUp \/ Resume \/ SettleDown \/ StayBlocked
  PROVE  (LineInv /\ GateInv)'
<1>1. /\ rec \in Recovery /\ dog \in Watchdog /\ ctl \in Control
      /\ TypeInv /\ LineEmpties /\ NotYetSettling
  BY DEF ReadbackInv, IInv, TypeInv, TypeOK, LineInv
<1>2. ASSUME LineEmpties', NotYetSettling', Blocked', Quarantine
      PROVE  (LineInv /\ GateInv)'
  BY <1>1, <1>2, QuarantineEnds, WhileBlocked DEF LineInv
<1>3. CASE Begin \/ Enter
  BY <1>2, <1>3
     DEF Begin, Enter, Recovering, LineEmpties, NotYetSettling, Blocked
<1>4. CASE GiveUp
  <2>1. ~rec.steady
    BY <1>1, <1>4 DEF GiveUp, GivesUp, LineEmpties, NotYetSettling
  <2>2. rec'.active /\ ~rec'.settling /\ ~rec'.steady
    BY <1>1, <1>4, <2>1 DEF GiveUp, Recovery
  <2> QED BY <1>2, <1>4, <2>2 DEF GiveUp, LineEmpties, NotYetSettling, Blocked
<1>5. CASE Resume
  <2>1. dog'.state = "monitoring"
    BY <1>1, <1>5 DEF Resume, Watchdog
  <2>2. ~rec'.steady /\ Blocked'
    BY <1>5 DEF Resume, Settling, Interrupted, Recovering, Blocked
  <2> QED BY <1>2, <1>5, <2>1, <2>2 DEF Resume, LineEmpties, NotYetSettling
<1>6. CASE SettleDown
  <2>1. line = <<>> /\ line' = <<>> /\ dog.state = "monitoring" /\ dog' = dog
    BY <1>1, <1>6 DEF SettleDown, LineEmpties, NotYetSettling
  <2>2. ~rec'.steady
    BY <1>1, <1>6 DEF SettleDown, Recovery
  <2>3. ~Underway /\ ctl'.gate = ctl.gate
    BY <1>1, <1>6
       DEF SettleDown, ReadbackInv, GateInv, NoneWhileBlocked, Blocked, Control
  <2>4. LineInv'
    BY <2>1, <2>2
       DEF LineInv, LineEmpties, NotYetSettling, LastInLine, OwnInLine
  <2>5. GateInv'
    BY <2>3 DEF Underway, GateInv, NoneWhileBlocked, ForThisGate, Dispatched,
                OnlyByReset, Outdated
  <2> QED BY <2>4, <2>5
<1>7. CASE StayBlocked
  <2>1. Blocked' /\ (rec' = rec \/ rec' = Interrupted)
    BY <1>7 DEF StayBlocked, Interrupted, Recovering, Blocked
  <2>2. LineEmpties' /\ NotYetSettling'
    BY <1>1, <1>7, <2>1
       DEF StayBlocked, Interrupted, Recovering, LineEmpties, NotYetSettling
  <2> QED BY <1>2, <1>7, <2>1, <2>2 DEF StayBlocked
<1> QED BY <1>3, <1>4, <1>5, <1>6, <1>7

-----------------------------------------------------------------------------
(* The manager's turns                                                     *)

(* With the transaction that a turn begins with, the line is as it was.    *)
LineOf(t) ==
  \A i \in 1..Len(line) :
    /\ line[i].command \in Decisive /\ ~Abandoned(t) =>
         /\ t.state = "ack" /\ answer = None
         /\ i = Len(line) /\ line[i].command = Expected(t)
    /\ line[i].command = "write" => t.op = "gate" /\ line[i].value = t.value
    /\ line[i].command = "factory" => t.op = "factory"

LEMMA NewLine ==
  ASSUME ReadbackInv, ~Blocked,
         NEW t, t = tx \/ ~Busy
  PROVE  LineOf(t)
<1>1. LineOf(tx)
  BY DEF LineOf, ReadbackInv, LineInv, LastInLine, OwnInLine
<1>2. CASE ~Busy
  <2>1. tx.state = "idle" /\ ~Abandoned(tx)
    BY <1>2 DEF ReadbackInv, IInv, TypeInv, Consistent, Busy, Abandoned
  <2>2. \A i \in 1..Len(line) : line[i].command \notin Decisive
    BY <1>1, <2>1 DEF LineOf
  <2> QED BY <2>2 DEF LineOf, Decisive
<1> QED BY <1>1, <1>2

LEMMA TurnLine ==
  ASSUME ReadbackInv, ~Blocked, dog.state = "monitoring", UNCHANGED dog,
         NEW t \in Transaction, Consistent(t), t = tx \/ (~Busy /\ New(t)),
         Turn(t)
  PROVE  LineInv'
<1>1. /\ line \in Seq([command : Command, value : Setting])
      /\ rec \in Recovery /\ LineEmpties
  BY DEF ReadbackInv, IInv, TypeInv, TypeOK, LineInv
<1>2. LineOf(t)
  BY NewLine
<1>3. ~rec.steady
  BY <1>1 DEF LineEmpties, Blocked
<1>4. (rec' = rec \/ rec' = [rec EXCEPT !.requested = TRUE])
        => LineEmpties' /\ NotYetSettling'
  BY <1>1, <1>3 DEF LineEmpties, NotYetSettling, Recovery
<1>5. CASE Sending(t)
  <2> DEFINE c == [command |-> Expected(t), value |-> t.value]
  <2>1. t.op # None /\ tx' = AfterSend(t) /\ line' = Append(line, c)
        /\ answer' = None /\ rec' = rec
    BY <1>5 DEF Sending, Sends, Send, Consistent
  <2>2. c \in [command : Command, value : Setting] /\ c.value = t.value
        /\ c.command = Expected(t)
    BY <2>1, ExpectedType DEF Transaction
  <2> HIDE DEF c
  <2>3. tx'.op = t.op /\ tx'.value = t.value
    BY <2>1 DEF AfterSend, Transaction
  <2>4. \A i \in 1..Len(line') :
          \/ i \in 1..Len(line) /\ line'[i] = line[i]
          \/ i = Len(line') /\ line'[i] = c
    BY <1>1, <2>1, <2>2, AppendElements
  <2>5. CASE t.state = "abort"
    <3>1. tx'.state = "aborted" /\ Expected(t) = "disable"
      BY <2>1, <2>5 DEF AfterSend, Transaction, Expected
    <3> QED BY <1>2, <1>4, <2>1, <2>2, <2>3, <2>4, <3>1
            DEF LineOf, LineInv, LastInLine, OwnInLine, Abandoned
  <2>6. CASE t.state = "send"
    <3>1. tx'.state = "ack" /\ tx'.step = t.step
      BY <2>1, <2>6 DEF AfterSend, Transaction
    <3>2. Expected(tx)' = Expected(t) /\ ~Abandoned(t)
      BY <2>3, <2>6, <3>1 DEF Expected, Abandoned
    <3>3. /\ Expected(t) = "write" => t.op = "gate"
          /\ Expected(t) = "factory" => t.op = "factory"
      BY <2>1, <3>2, ExpectedPlaces, Places
    <3>4. \A i \in 1..Len(line) : line[i].command \notin Decisive
      BY <1>2, <2>6, <3>2 DEF LineOf
    <3>5. LastInLine'
      BY <2>1, <2>2, <2>4, <3>1, <3>2, <3>4 DEF LastInLine
    <3>6. OwnInLine'
      BY <2>2, <2>3, <2>4, <3>3, <3>4 DEF OwnInLine, Decisive
    <3> QED BY <1>4, <2>1, <3>5, <3>6 DEF LineInv
  <2> QED BY <1>5, <2>5, <2>6 DEF Sending, Sends
<1>6. CASE Completion(t)
  <2>1. t.op # None /\ t.state # "abort" /\ ~Abandoned(t)
    BY <1>6 DEF Completion, Completes, Consistent, Abandoned
  <2>2. t.state = "ack" => Expected(t) = "restart"
    BY <1>6 DEF Completion, Completes
  <2>3. \A i \in 1..Len(line) : line[i].command \notin Decisive
    BY <1>2, <2>1, <2>2 DEF LineOf, Decisive
  <2> QED BY <1>4, <1>6, <2>3
          DEF Completion, LineInv, LastInLine, OwnInLine, Decisive
<1>7. CASE Failure
  <2>1. Blocked'
    BY <1>1, <1>7 DEF Failure, Recovery, Blocked
  <2> QED BY <1>4, <1>7, <2>1 DEF Failure, LineInv, LastInLine, OwnInLine
<1>8. ASSUME tx'.op = t.op, tx'.value = t.value, rec' = rec, line' = line,
             \/ Abandoned(tx)'
             \/ \A i \in 1..Len(line) : line[i].command \notin Decisive
      PROVE  LineInv'
  BY <1>2, <1>4, <1>8 DEF LineOf, LineInv, LastInLine, OwnInLine
<1>9. CASE Answering(t)
  <2>1. t.state = "aborted" => AfterAnswer(t, answer) = AfterFailure(t)
    BY DEF AfterAnswer
  <2>2. /\ AfterFailure(t).op = t.op /\ AfterFailure(t).value = t.value
        /\ Abandoned(AfterFailure(t))
    BY DEF AfterFailure, Transaction, Abandoned
  <2>3. AfterSuccess(t).op = t.op /\ AfterSuccess(t).value = t.value
    BY DEF AfterSuccess, Transaction
  <2>4. tx'.op = t.op /\ tx'.value = t.value
    BY <1>9, <2>2, <2>3 DEF Answering, AfterAnswer
  <2>5. t.state = "ack" =>
          \A i \in 1..Len(line) : line[i].command \notin Decisive
    BY <1>2, <1>9 DEF LineOf, Answering, Abandoned
  <2> QED BY <1>8, <1>9, <2>1, <2>2, <2>4, <2>5 DEF Answering
<1>10. CASE Missing(t)
  <2>1. /\ AfterFailure(t).op = t.op /\ AfterFailure(t).value = t.value
        /\ Abandoned(AfterFailure(t))
    BY DEF AfterFailure, Transaction, Abandoned
  <2> QED BY <1>8, <1>10, <2>1 DEF Missing
<1>11. CASE Waiting(t)
  <2>1. tx' = t /\ rec' = rec /\ line' = line /\ answer' = answer
    BY <1>11 DEF Waiting
  <2>2. Expected(tx)' = Expected(t)
    BY <2>1 DEF Expected
  <2> QED BY <1>2, <1>4, <2>1, <2>2 DEF LineOf, LineInv, LastInLine, OwnInLine
<1> QED BY <1>5, <1>6, <1>7, <1>9, <1>10, <1>11 DEF Turn

(* What a step of a transaction makes of it.                               *)
LEMMA Stepping ==
  ASSUME NEW t \in Transaction, Consistent(t), t.op # None
  PROVE  /\ AfterSend(t).op = t.op /\ AfterSend(t).value = t.value
         /\ AfterSend(t).step = t.step
         /\ AfterSend(t).state = IF t.state = "abort" THEN "aborted" ELSE "ack"
         /\ AfterFailure(t).op = t.op /\ AfterFailure(t).value = t.value
         /\ Abandoned(AfterFailure(t))
         /\ AfterSuccess(t).op = t.op /\ AfterSuccess(t).value = t.value
         /\ AfterSuccess(t).frame = t.frame
         /\ \/ /\ t.step = Len(Script[t.op]) /\ AfterSuccess(t).state = "frame"
               /\ AfterSuccess(t).step = t.step
            \/ /\ t.step # Len(Script[t.op]) /\ AfterSuccess(t).state = "send"
               /\ AfterSuccess(t).step = t.step + 1
<1>1. /\ AfterFailure(t).op = t.op /\ AfterFailure(t).value = t.value
      /\ Abandoned(AfterFailure(t))
  BY DEF AfterFailure, Transaction, Abandoned
<1>2. /\ AfterSend(t).op = t.op /\ AfterSend(t).value = t.value
      /\ AfterSend(t).step = t.step
      /\ AfterSend(t).state = IF t.state = "abort" THEN "aborted" ELSE "ack"
  BY DEF AfterSend, Transaction
<1>3. CASE t.step = Len(Script[t.op])
  BY <1>1, <1>2, <1>3 DEF AfterSuccess, Transaction
<1>4. CASE t.step # Len(Script[t.op])
  BY <1>1, <1>2, <1>4 DEF AfterSuccess, Transaction
<1> QED BY <1>3, <1>4

LEMMA TurnGate ==
  ASSUME ReadbackInv, ~Blocked, UNCHANGED <<radar, shown>>,
         NEW t \in Transaction, Consistent(t), t = tx \/ (~Busy /\ New(t)),
         Turn(t)
  PROVE  GateInv'
<1>1. /\ ForThisGate /\ Dispatched /\ OnlyByReset /\ rec \in Recovery
      /\ "gate" # None /\ "factory" # None
  BY NoneAssumption, Operations
     DEF ReadbackInv, IInv, TypeInv, TypeOK, GateInv
<1>2. CASE Failure
  <2>1. Blocked'
    BY <1>1, <1>2 DEF Failure, Recovery, Blocked
  <2> QED BY <1>2, <2>1, WhileBlocked DEF Failure
<1>3. CASE ~Failure
  <2>1. /\ rec' = rec /\ ctl'.value = ctl.value
        /\ ctl'.gate # ctl.gate =>
             ctl.gate = "dispatching" /\ ctl'.gate = "readback" /\ Sending(t)
    BY <1>3 DEF Turn, Sending, Completion, Answering, Missing, Waiting
  <2>2. (Underway' => Underway) /\ (Outdated' => Outdated) /\ NoneWhileBlocked'
    BY <2>1 DEF Underway, Outdated, NoneWhileBlocked, Blocked
  <2>3. t.op \in {"gate", "factory"} /\ Underway => t = tx \/ t.op = "factory"
    BY DEF New
  <2>4. t.op # None => t.op \in Operation /\ t.step \in 1..Len(Script[t.op])
    BY DEF Transaction, Consistent
  <2>5. t.state \notin {"idle"} => t.op # None
    BY DEF Consistent
  <2>6. \/ tx' = NoTransaction /\ Completion(t)
        \/ tx'.op = t.op /\ tx'.value = t.value /\ ~Completion(t)
    BY <1>3, <2>5, Stepping
       DEF Turn, Sending, Sends, Completion, Answering, AfterAnswer, Missing,
           Waiting
  <2>7. ForThisGate'
    <3>1. NoTransaction.op # "gate"
      BY <1>1 DEF NoTransaction
    <3>2. tx'.op = "gate" => t = tx /\ tx'.value = tx.value
      BY <2>6, <3>1 DEF New
    <3> QED BY <1>1, <2>1, <2>2, <2>6, <3>1, <3>2 DEF ForThisGate
  <2>8. Dispatched'
    <3> SUFFICES ASSUME ctl'.gate = "dispatching" PROVE Dispatched'
      BY DEF Dispatched
    <3>1. /\ ctl.gate = "dispatching" /\ t = tx /\ t.op = "gate"
          /\ \/ Abandoned(t)
             \/ t.state = "send" /\ t.step \in 1..3
             \/ t.state = "ack" /\ t.step \in 1..2
      BY <1>1, <2>1 DEF Dispatched, Busy
    <3>2. Len(Script[t.op]) = 4
      BY <2>4, <3>1, Places, <1>1
    <3>3. CASE Sending(t)
      <4>1. ~Abandoned(t) => Expected(t) # "query" /\ t.state = "send"
        BY <3>1, <3>3 DEF Sending, Sends, Abandoned
      <4>2. ~Abandoned(t) => t.step # 3
        BY <1>1, <2>4, <3>1, <4>1, ExpectedPlaces, Places
      <4> QED BY <1>1, <3>1, <3>3, <4>1, <4>2, Stepping
              DEF Sending, Sends, Dispatched, Abandoned
    <3>4. CASE Completion(t)
      <4>1. t.state = "ack" /\ Expected(t) = "restart" /\ ~Abandoned(t)
        BY <3>1, <3>4 DEF Completion, Completes, Abandoned
      <4> QED BY <1>1, <2>4, <3>1, <4>1, ExpectedPlaces, Places
    <3>5. CASE Answering(t) \/ Missing(t)
      <4>1. (tx' = AfterSuccess(t) /\ t.state = "ack") \/ tx' = AfterFailure(t)
        BY <3>5 DEF Answering, AfterAnswer, Missing
      <4>2. t.state = "ack" => t.step \in 1..2 /\ t.step + 1 \in 1..3
        BY <3>1 DEF Abandoned
      <4>3. CASE tx' = AfterSuccess(t) /\ t.state = "ack"
        <5>1. t.step # 4
          BY <4>2, <4>3
        <5>2. tx'.op = "gate" /\ tx'.state = "send" /\ tx'.step = t.step + 1
          BY <1>1, <3>1, <3>2, <4>3, <5>1, Stepping
        <5> QED BY <4>2, <4>3, <5>2 DEF Dispatched
      <4>4. CASE tx' = AfterFailure(t)
        <5>1. tx'.op = "gate" /\ tx'.state \in {"abort", "aborted", "report"}
          BY <1>1, <3>1, <4>4, Stepping DEF Abandoned
        <5> QED BY <5>1 DEF Dispatched, Abandoned
      <4> QED BY <4>1, <4>3, <4>4
    <3>6. CASE Waiting(t)
      BY <3>1, <3>6 DEF Waiting, Dispatched
    <3> QED BY <1>3, <3>3, <3>4, <3>5, <3>6 DEF Turn
  <2>9. OnlyByReset'
    <3> SUFFICES ASSUME Outdated' PROVE OnlyByReset'
      BY DEF OnlyByReset
    <3>1. t = tx /\ t.op = "factory" /\ (Streams => Abandoned(t))
      BY <1>1, <2>2 DEF OnlyByReset, Busy
    <3>2. ~(t.frame /\ (t.state = "frame" \/ (t.state = "ack" /\ t.step = 3)))
      BY <1>1, <2>2, <3>1 DEF OnlyByReset, Completing
    <3>3. /\ Len(Script[t.op]) = 3 /\ t.step \in 1..3
          /\ Expected(t) = "restart" /\ ~Abandoned(t) => t.step = 3
      BY <1>1, <2>4, <3>1, ExpectedPlaces, Places
    <3>4. ~Completion(t)
      BY <3>2, <3>3 DEF Completion, Completes, Abandoned
    <3>5. tx'.op = "factory" /\ Streams' = Streams
      BY <2>6, <3>1, <3>4 DEF Streams
    <3>6. CASE Sending(t)
      <4>1. /\ tx' = AfterSend(t) /\ t.op # None
            /\ t.state = "abort" \/ t.state = "send"
        BY <1>1, <3>1, <3>6 DEF Sending, Sends
      <4>2. CASE t.state = "abort"
        <5>1. tx'.state = "aborted"
          BY <4>1, <4>2, Stepping
        <5> QED BY <3>5, <5>1 DEF OnlyByReset, Completing, Abandoned
      <4>3. CASE t.state = "send"
        <5>1. /\ tx'.state = "ack" /\ tx'.step = t.step
              /\ t.step = 3 => ~tx'.frame
          <6>1. AfterSend(t).state = "ack" /\ AfterSend(t).step = t.step
            BY <4>1, <4>3, Stepping
          <6>2. t.step = 3 => ~AfterSend(t).frame
            BY <3>3, <4>3 DEF AfterSend, Transaction
          <6> QED BY <4>1, <6>1, <6>2
        <5>2. ~Streams
          BY <3>1, <4>3 DEF Abandoned
        <5> QED BY <3>5, <5>1, <5>2 DEF OnlyByReset, Completing
      <4> QED BY <4>1, <4>2, <4>3
    <3>7. CASE Answering(t) \/ Missing(t)
      <4>1. (tx' = AfterSuccess(t) /\ t.state = "ack") \/ tx' = AfterFailure(t)
        BY <3>7 DEF Answering, AfterAnswer, Missing
      <4>2. CASE tx' = AfterSuccess(t) /\ t.state = "ack"
        <5>1. ~Streams /\ tx'.frame = t.frame
          BY <1>1, <3>1, <4>2, Stepping DEF Abandoned
        <5>2. \/ tx'.state = "frame" /\ t.step = 3
              \/ tx'.state = "send"
          BY <1>1, <3>1, <3>3, <4>2, Stepping
        <5> QED BY <3>2, <3>5, <4>2, <5>1, <5>2 DEF OnlyByReset, Completing
      <4>3. CASE tx' = AfterFailure(t)
        <5>1. tx'.state \in {"abort", "aborted", "report"}
          BY <1>1, <3>1, <4>3, Stepping DEF Abandoned
        <5> QED BY <3>5, <5>1 DEF OnlyByReset, Completing, Abandoned
      <4> QED BY <4>1, <4>2, <4>3
    <3>8. CASE Waiting(t)
      BY <3>1, <3>2, <3>5, <3>8 DEF Waiting, OnlyByReset, Completing
    <3> QED BY <1>3, <3>4, <3>6, <3>7, <3>8 DEF Turn
  <2> QED BY <2>2, <2>7, <2>8, <2>9 DEF GateInv
<1> QED BY <1>2, <1>3

LEMMA ManageReadback ==
  ASSUME ReadbackInv, Manage, UNCHANGED <<radar, shown, web, budget>>
  PROVE  (LineInv /\ GateInv)'
<1>1. TypeInv /\ ~Blocked /\ UNCHANGED dog /\ dog.state = "monitoring"
  BY DEF ReadbackInv, IInv, Marked, Manage, Blocked
<1>2. PICK t \in Transaction :
        Consistent(t) /\ (t = tx \/ (~Busy /\ New(t))) /\ Turn(t)
  BY <1>1, ManagerTurns
<1> QED BY <1>1, <1>2, TurnLine, TurnGate

-----------------------------------------------------------------------------
(* The lambda and the web server's task                                    *)

(* Steps that leave the line, the transaction and the recovery alone.      *)
LEMMA LineStands ==
  ASSUME LineInv, UNCHANGED <<line, answer, tx.op, tx.state, tx.step, tx.value,
                              rec, dog.state>>
  PROVE  LineInv'
BY DEF LineInv, LineEmpties, NotYetSettling, LastInLine, OwnInLine, Blocked,
       Abandoned, Expected

(* Steps that at most end what a gate waits for.                           *)
LEMMA GateStands ==
  ASSUME GateInv, UNCHANGED <<radar, shown, tx, rec>>,
         (ctl'.gate = ctl.gate /\ ctl'.value = ctl.value) \/ ~Underway'
  PROVE  GateInv'
<1>1. CASE ctl'.gate = ctl.gate /\ ctl'.value = ctl.value
  BY <1>1 DEF GateInv, NoneWhileBlocked, ForThisGate, Dispatched, OnlyByReset,
              Outdated, Underway, Blocked, Abandoned, Completing, Streams
<1>2. CASE ~Underway'
  BY <1>2 DEF GateInv, NoneWhileBlocked, ForThisGate, Dispatched, OnlyByReset,
              Outdated, Underway
<1> QED BY <1>1, <1>2

LEMMA StatusLeaves ==
  ASSUME NEW c \in Control
  PROVE  Status(c).gate = c.gate /\ Status(c).value = c.value
<1>1. Fresh \in BOOLEAN /\ Blocked \in BOOLEAN
  BY DEF Fresh, Blocked
<1> QED BY <1>1 DEF Status, Control

LEMMA IntervalReadback ==
  ASSUME ReadbackInv, Interval
  PROVE  (LineInv /\ GateInv)'
<1>1. /\ ctl \in Control /\ tx \in Transaction /\ Consistent(tx)
      /\ LineInv /\ GateInv
  BY DEF ReadbackInv, IInv, TypeInv, TypeOK
<1>2. CASE TakeGate /\ GateReady
  <2> DEFINE c == [ctl EXCEPT !.gate = "dispatching"]
  <2>1. c \in Control /\ c.gate = "dispatching" /\ c.value = ctl.value
    BY <1>1 DEF Control
  <2>2. ctl' = Status(c)
    BY <1>2 DEF TakeGate
  <2> HIDE DEF c
  <2>3. ctl'.gate = "dispatching" /\ ctl'.value = ctl.value
    BY <2>1, <2>2, StatusLeaves
  <2>4. /\ tx'.op = "gate" /\ tx'.state = "send" /\ tx'.step = 1
        /\ tx'.value = ctl.value
    BY <1>2 DEF TakeGate, Started, NoTransaction
  <2>5. ~Busy /\ ~Blocked /\ UNCHANGED <<line, answer, rec, dog, radar>>
    BY <1>2 DEF GateReady, Interval
  <2>6. \A i \in 1..Len(line) : line[i].command \notin Decisive
    <3>1. LineOf(tx) /\ tx.state = "idle"
      BY <1>1, <2>5, NewLine DEF Consistent, Busy
    <3> QED BY <3>1 DEF LineOf, Abandoned
  <2>7. LineInv'
    BY <1>1, <2>5, <2>6
       DEF LineInv, LineEmpties, NotYetSettling, LastInLine, OwnInLine, Decisive
  <2>8. shown' # ctl'.value
    BY <1>1, <1>2, <2>3, NoneAssumption DEF TakeGate, Control
  <2>9. GateInv'
    BY <2>3, <2>4, <2>5, <2>8
       DEF GateInv, NoneWhileBlocked, ForThisGate, Dispatched, OnlyByReset,
           Outdated, Blocked
  <2> QED BY <2>7, <2>9
<1>3. CASE TakeGate /\ ~GateReady
  <2> DEFINE c == [ctl EXCEPT !.gate = "failed"]
  <2>1. c \in Control /\ c.gate = "failed"
    BY <1>1 DEF Control
  <2>2. ctl' = Status(c) /\ tx' = tx
    BY <1>3 DEF TakeGate
  <2> HIDE DEF c
  <2>3. ~Underway'
    BY <2>1, <2>2, StatusLeaves DEF Underway
  <2>4. LineInv'
    BY <1>1, <1>3, <2>2, LineStands DEF Interval
  <2> QED BY <2>3, <2>4
          DEF GateInv, NoneWhileBlocked, ForThisGate, Dispatched, OnlyByReset,
              Outdated, Underway
<1>4. CASE VerifyGate
  <2> DEFINE c == [ctl EXCEPT !.gate = IF shown = ctl.value THEN "applied"
                                                            ELSE "failed"]
  <2>1. c \in Control /\ c.gate \in {"applied", "failed"}
    BY <1>1 DEF Control
  <2>2. ctl' = Status(c) /\ UNCHANGED <<tx, shown, radar, rec>>
    BY <1>4 DEF VerifyGate, Interval
  <2> HIDE DEF c
  <2>3. ~Underway'
    BY <2>1, <2>2, StatusLeaves DEF Underway
  <2> QED BY <1>1, <1>4, <2>2, <2>3, LineStands, GateStands DEF Interval
<1>5. CASE ReportStatus
  BY <1>1, <1>5, StatusLeaves, LineStands, GateStands DEF ReportStatus, Interval
<1> QED BY <1>2, <1>3, <1>4, <1>5 DEF Interval

LEMMA WebReadback ==
  ASSUME ReadbackInv, WriteDown \/ \E request \in Request : Ask(request)
  PROVE  (LineInv /\ GateInv)'
<1>1. LineInv /\ GateInv /\ ctl \in Control /\ web \in Request \cup {None}
  BY DEF ReadbackInv, IInv, TypeInv, TypeOK
<1>2. CASE WriteDown
  <2>1. web \in Request
    BY <1>1, <1>2 DEF WriteDown
  <2>2. \/ /\ Written(ctl, web).gate = ctl.gate
           /\ Written(ctl, web).value = ctl.value
        \/ Written(ctl, web).gate \in {"pending", "idle"}
    <3>1. CASE web.kind \in {"open", "close"}
      BY <1>1, <3>1 DEF Written, Session, Control
    <3>2. CASE web.kind \in {"gate", "factory"}
      BY <1>1, <3>2 DEF Written, Control
    <3> QED BY <2>1, <3>1, <3>2 DEF Request
  <2> QED BY <1>1, <1>2, <2>2, LineStands, GateStands DEF WriteDown, Underway
<1>3. CASE \E request \in Request : Ask(request)
  BY <1>1, <1>3, LineStands, GateStands DEF Ask, host
<1> QED BY <1>2, <1>3

-----------------------------------------------------------------------------
(* Time                                                                    *)

LEMMA TimeReadback ==
  ASSUME ReadbackInv,
         \/ Quiet \/ TransactionDue \/ WatchdogDue \/ SynchronizeDue
         \/ SessionDue \/ ReadbackDue
  PROVE  (LineInv /\ GateInv)'
<1>1. /\ LineInv /\ GateInv /\ ctl \in Control /\ tx \in Transaction
      /\ dog \in Watchdog
  BY DEF ReadbackInv, IInv, TypeInv, TypeOK
<1>2. CASE Quiet
  BY <1>1, <1>2, LineStands, GateStands DEF Quiet, host
<1>3. CASE TransactionDue
  <2>1. UNCHANGED <<tx.op, tx.state, tx.step, tx.value, tx.frame>>
    BY <1>1, <1>3 DEF TransactionDue, Transaction
  <2>2. LineInv'
    BY <1>1, <1>3, <2>1, LineStands DEF TransactionDue
  <2>3. GateInv'
    BY <1>1, <1>3, <2>1
       DEF TransactionDue, GateInv, NoneWhileBlocked, ForThisGate, Dispatched,
           OnlyByReset, Outdated, Underway, Blocked, Abandoned, Completing,
           Streams
  <2> QED BY <2>2, <2>3
<1>4. CASE WatchdogDue
  <2>1. UNCHANGED dog.state
    BY <1>1, <1>4 DEF WatchdogDue, Watchdog
  <2> QED BY <1>1, <1>4, <2>1, LineStands, GateStands DEF WatchdogDue
<1>5. CASE SynchronizeDue
  BY <1>1, <1>5, LineStands, GateStands DEF SynchronizeDue
<1>6. CASE SessionDue
  <2>1. UNCHANGED <<ctl.gate, ctl.value>>
    BY <1>1, <1>6 DEF SessionDue, Control
  <2> QED BY <1>1, <1>6, <2>1, LineStands, GateStands DEF SessionDue
<1>7. CASE ReadbackDue
  <2>1. UNCHANGED <<ctl.gate, ctl.value>>
    BY <1>1, <1>7 DEF ReadbackDue, Control
  <2> QED BY <1>1, <1>7, <2>1, LineStands, GateStands DEF ReadbackDue
<1> QED BY <1>2, <1>3, <1>4, <1>5, <1>6, <1>7

-----------------------------------------------------------------------------
(* The radar                                                               *)

(* The radar reads the first command of the line; the answer is for the    *)
(* transaction only if it waits for one to this command.                   *)
Reads ==
  /\ line # <<>> /\ line' = Tail(line) /\ UNCHANGED host
  /\ \/ answer' = answer
     \/ /\ tx.state \in {"ack", "aborted"}
        /\ Expected(tx) = Head(line).command
     \/ dog.state = "enabling"

LEMMA ReadLine ==
  ASSUME ReadbackInv, Reads
  PROVE  LineInv'
<1>1. /\ LineInv /\ line \in Seq([command : Command, value : Setting])
      /\ Consistent(tx)
  BY DEF ReadbackInv, IInv, TypeInv, TypeOK
<1>2. /\ UNCHANGED <<tx, dog, rec>> /\ line # <<>> /\ line' = Tail(line)
      /\ Head(line) = line[1] /\ 1 \in 1..Len(line)
  BY <1>1 DEF Reads, host
<1>3. \A i \in 1..Len(line') :
        /\ line'[i] = line[i + 1] /\ i + 1 \in 1..Len(line) /\ i + 1 # 1
        /\ i + 1 = Len(line) => i = Len(line')
  BY <1>1, <1>2, TailElements
<1>4. LineEmpties' /\ NotYetSettling' /\ OwnInLine'
  BY <1>1, <1>2, <1>3
     DEF LineInv, LineEmpties, NotYetSettling, OwnInLine, Blocked
<1>5. LastInLine'
  <2> SUFFICES ASSUME ~Blocked, ~Abandoned(tx), NEW i \in 1..Len(line'),
                      line'[i].command \in Decisive
               PROVE  /\ tx.state = "ack" /\ answer' = None
                      /\ i = Len(line') /\ line'[i].command = Expected(tx)
    BY <1>2 DEF LastInLine, Blocked, Abandoned, Expected
  <2>1. /\ tx.state = "ack" /\ answer = None
        /\ i + 1 = Len(line) /\ line[i + 1].command = Expected(tx)
    BY <1>1, <1>3 DEF LineInv, LastInLine
  <2>2. Head(line).command \notin Decisive
    BY <1>1, <1>2, <1>3, <2>1 DEF LineInv, LastInLine
  <2>3. dog.state = "monitoring"
    BY <1>1 DEF LineInv, NotYetSettling, Blocked
  <2>4. answer' = None
    BY <1>3, <2>1, <2>2, <2>3 DEF Reads
  <2> QED BY <1>3, <2>1, <2>4
<1> QED BY <1>4, <1>5 DEF LineInv

(* What the radar may do while it knows a threshold and the lambda does    *)
(* not: reset it, on the way to a restart.                                 *)
LEMMA ReadGate ==
  ASSUME ReadbackInv, Reads,
         \/ UNCHANGED <<radar, shown>>
         \/ /\ Understands(Head(line).command) /\ radar' = Obeying(Head(line))
            /\ shown' = shown \/ shown' = radar.threshold
  PROVE  GateInv'
<1>1. /\ GateInv /\ LineInv /\ radar \in Radar /\ tx \in Transaction
      /\ Consistent(tx) /\ UNCHANGED <<tx, ctl, rec>>
      /\ line \in Seq([command : Command, value : Setting])
  BY DEF ReadbackInv, IInv, TypeInv, TypeOK, Reads, host
<1>2. CASE UNCHANGED <<radar, shown>>
  BY <1>1, <1>2, GateStands
<1>3. CASE /\ Understands(Head(line).command) /\ radar' = Obeying(Head(line))
           /\ shown' = shown \/ shown' = radar.threshold
  <2> DEFINE c == Head(line)
  <2>1. /\ c = line[1] /\ 1 \in 1..Len(line)
        /\ c \in [command : Command, value : Setting]
    <3>1. line # <<>>
      BY DEF Reads
    <3>2. c = line[1] /\ 1 \in 1..Len(line)
      BY <1>1, <3>1
    <3>3. c \in [command : Command, value : Setting]
      BY <1>1, <3>1, HeadTail
    <3> QED BY <3>2, <3>3
  <2>2. NoneWhileBlocked' /\ ForThisGate' /\ Dispatched'
    BY <1>1 DEF GateInv, NoneWhileBlocked, ForThisGate, Dispatched, Underway,
                Blocked, Abandoned
  <2>3. c.command \in {"enable", "disable", "engineer", "normal", "write",
                       "factory", "query", "restart"}
    BY <2>1, CommandNames
  <2> HIDE DEF c
  <2>4. ASSUME Outdated'
        PROVE  tx.op = "factory" /\ ~Completing /\ (Streams' => Abandoned(tx))
    <3>1. Underway /\ ~Blocked /\ shown' = ctl.value
          /\ radar'.threshold # ctl.value
      BY <1>1, <2>4 DEF Outdated, Underway, GateInv, NoneWhileBlocked
    <3>2. radar' = Obeying(c) /\ Understands(c.command)
      BY <1>3 DEF c
    <3>3. CASE c.command = "factory"
      <4>1. tx.op = "factory"
        BY <1>1, <2>1, <3>1, <3>3 DEF LineInv, OwnInLine
      <4>2. radar.config /\ radar'.config
        BY <1>1, <3>2, <3>3 DEF Understands, Obeying, Radar
      <4>3. ~Abandoned(tx) => tx.state = "ack" /\ Expected(tx) = "factory"
        BY <1>1, <2>1, <3>1, <3>3 DEF LineInv, LastInLine, Decisive
      <4>4. ~Completing
        <5>1. tx.op # None
          BY <4>1, NoneAssumption, Operations
        <5>2. ~Abandoned(tx) => tx.step = 2
          BY <1>1, <4>3, <5>1, ExpectedPlaces, Places
        <5> QED BY <4>3, <5>2 DEF Completing, Abandoned
      <4> QED BY <4>1, <4>2, <4>4 DEF Streams
    <3>4. CASE c.command = "write"
      <4>1. tx.op = "gate" /\ c.value = tx.value
        BY <1>1, <2>1, <3>1, <3>4 DEF LineInv, OwnInLine
      <4>2. radar'.threshold = ctl.value
        BY <1>1, <3>1, <3>2, <3>4, <4>1
           DEF Obeying, Radar, GateInv, ForThisGate
      <4> QED BY <3>1, <4>2
    <3>5. CASE c.command \notin {"factory", "write"}
      <4>1. radar'.threshold = radar.threshold
        BY <1>1, <2>3, <3>2, <3>5 DEF Obeying, Radar
      <4>2. Outdated
        BY <1>3, <3>1, <4>1 DEF Outdated
      <4>3. tx.op = "factory" /\ ~Completing /\ (Streams => Abandoned(tx))
        BY <1>1, <4>2 DEF GateInv, OnlyByReset
      <4>4. CASE c.command = "disable"
        <5>1. ~Abandoned(tx) => Expected(tx) = "disable"
          BY <1>1, <2>1, <3>1, <4>4 DEF LineInv, LastInLine, Decisive
        <5>2. tx.op # None
          BY <4>3, NoneAssumption, Operations
        <5>3. Abandoned(tx)
          BY <1>1, <4>3, <5>1, <5>2, ExpectedPlaces, Places
        <5> QED BY <4>3, <5>3
      <4>5. CASE c.command # "disable"
        <5>1. Streams' => Streams
          BY <1>1, <2>3, <3>2, <3>5, <4>5
             DEF Obeying, Radar, Streams, Understands
        <5> QED BY <4>3, <5>1
      <4> QED BY <4>4, <4>5
    <3> QED BY <3>3, <3>4, <3>5
  <2>5. OnlyByReset'
    BY <1>1, <2>4 DEF OnlyByReset, Completing, Abandoned
  <2> QED BY <2>2, <2>5 DEF GateInv
<1> QED BY <1>2, <1>3

LEMMA RadarReadback ==
  ASSUME ReadbackInv, Obey \/ Disobey \/ Boot \/ BrownOut \/ Frame
  PROVE  (LineInv /\ GateInv)'
<1>1. /\ LineInv /\ GateInv /\ radar \in Radar /\ tx \in Transaction
      /\ dog \in Watchdog /\ rec \in Recovery
  BY DEF ReadbackInv, IInv, TypeInv, TypeOK
<1>2. ASSUME NEW command, NEW result, Acknowledge(command, result)
      PROVE  \/ answer' = answer
             \/ tx.state \in {"ack", "aborted"} /\ Expected(tx) = command
             \/ dog.state = "enabling"
  BY <1>2 DEF Acknowledge, Awaited
<1>3. CASE Obey
  <2>1. Reads
    BY <1>2, <1>3 DEF Obey, Reads, NoAnswer
  <2>2. \/ UNCHANGED <<radar, shown>>
        \/ /\ Understands(Head(line).command) /\ radar' = Obeying(Head(line))
           /\ shown' = shown \/ shown' = radar.threshold
    BY <1>3 DEF Obey, NoAnswer
  <2> QED BY <2>1, <2>2, ReadLine, ReadGate
<1>4. CASE Disobey
  <2>1. Reads
    BY <1>2, <1>4 DEF Disobey, Reads, NoAnswer
  <2>2. \/ UNCHANGED <<radar, shown>>
        \/ /\ Understands(Head(line).command) /\ radar' = Obeying(Head(line))
           /\ shown' = shown \/ shown' = radar.threshold
    BY <1>4 DEF Disobey, NoAnswer
  <2> QED BY <2>1, <2>2, ReadLine, ReadGate
<1>5. CASE Boot \/ BrownOut
  <2>1. UNCHANGED <<line, answer, tx, dog, rec, ctl, shown>>
    BY <1>5 DEF Boot, BrownOut, host
  <2>2. LineInv'
    BY <1>1, <2>1, LineStands
  <2>3. NoneWhileBlocked' /\ ForThisGate' /\ Dispatched'
    BY <1>1, <2>1
       DEF GateInv, NoneWhileBlocked, ForThisGate, Dispatched, Underway,
           Blocked, Abandoned
  <2>4. radar'.threshold = radar.threshold
    BY <1>1, <1>5 DEF Boot, BrownOut, Radar
  <2>5. Outdated' => Outdated
    BY <2>1, <2>4 DEF Outdated, Underway
  <2>6. Outdated => ~Streams'
    <3>1. CASE Boot
      <4> SUFFICES ASSUME Outdated PROVE FALSE
        OBVIOUS
      <4>1. ctl.gate = "readback"
        BY <1>1, NoneAssumption, Operations
           DEF Outdated, Underway, GateInv, OnlyByReset, Dispatched
      <4>2. shown # None
        BY NoneAssumption
           DEF Outdated, ReadbackInv, IInv, TypeInv, TypeOK, Control
      <4> QED BY <3>1, <4>1, <4>2 DEF Boot, Verifiable
    <3>2. CASE BrownOut
      BY <1>1, <3>2 DEF BrownOut, Radar, Streams
    <3> QED BY <1>5, <3>1, <3>2
  <2>7. OnlyByReset'
    BY <1>1, <2>1, <2>5, <2>6
       DEF GateInv, OnlyByReset, Completing, Abandoned
  <2> QED BY <2>2, <2>3, <2>7 DEF GateInv
<1>6. CASE Frame
  <2>1. UNCHANGED <<radar, line, answer, ctl, shown>>
    BY <1>6 DEF Frame
  <2>2. /\ UNCHANGED <<tx.op, tx.state, tx.step, tx.value, dog.state>>
        /\ UNCHANGED <<rec.requested, rec.active, rec.settling>>
        /\ rec'.steady = (rec.settling /\ line = <<>>)
    BY <1>1, <1>6 DEF Frame, Transaction, Watchdog, Recovery
  <2>3. LineInv'
    BY <1>1, <2>1, <2>2
       DEF LineInv, LineEmpties, NotYetSettling, LastInLine, OwnInLine, Blocked,
           Abandoned, Expected
  <2>4. NoneWhileBlocked' /\ ForThisGate' /\ Dispatched'
    BY <1>1, <2>1, <2>2
       DEF GateInv, NoneWhileBlocked, ForThisGate, Dispatched, Underway,
           Blocked, Abandoned
  <2>5. OnlyByReset'
    BY <1>1, <1>6, <2>1, <2>2
       DEF Frame, GateInv, OnlyByReset, Outdated, Underway, Streams, Completing,
           Abandoned
  <2> QED BY <2>3, <2>4, <2>5 DEF GateInv
<1> QED BY <1>3, <1>4, <1>5, <1>6

-----------------------------------------------------------------------------
(* The readback: the theorem                                               *)

LEMMA ReadbackStep == ReadbackInv /\ [Next]_vars => ReadbackInv'
<1> SUFFICES ASSUME ReadbackInv, [Next]_vars PROVE (LineInv /\ GateInv)'
  BY StepInv DEF ReadbackInv
<1>1. CASE Loop
  BY <1>1, WatchdogReadback, ManageReadback DEF Loop
<1>2. CASE Interval
  BY <1>2, IntervalReadback
<1>3. CASE WriteDown \/ \E request \in Request : Ask(request)
  BY <1>3, WebReadback
<1>4. CASE Obey \/ Disobey \/ Boot \/ BrownOut \/ Frame
  BY <1>4, RadarReadback
<1>5. CASE \/ Quiet \/ TransactionDue \/ WatchdogDue \/ SynchronizeDue
           \/ SessionDue \/ ReadbackDue
  BY <1>5, TimeReadback
<1>6. CASE UNCHANGED vars
  BY <1>6, LineStands, GateStands DEF ReadbackInv, vars, host
<1> QED BY <1>1, <1>2, <1>3, <1>4, <1>5, <1>6 DEF Next

(* Only the lambda's comparison reports a gate as applied.                 *)
LEMMA OnlyVerified ==
  ASSUME IInv, Next, ctl.gate # "applied", ctl'.gate = "applied"
  PROVE  VerifyGate
<1>1. ctl \in Control /\ web \in Request \cup {None} /\ TypeInv
  BY DEF IInv, TypeInv, TypeOK
<1>2. ctl' # ctl
  OBVIOUS
<1>3. ~(Obey \/ Disobey \/ Boot \/ BrownOut \/ Frame)
  BY <1>2 DEF Obey, Disobey, Boot, BrownOut, Frame, host
<1>4. ~(Quiet \/ TransactionDue \/ WatchdogDue \/ SynchronizeDue
        \/ SessionDue \/ ReadbackDue)
  BY <1>1, <1>2 DEF Quiet, TransactionDue, WatchdogDue, SynchronizeDue,
                    SessionDue, ReadbackDue, Control, host
<1>5. ~(WriteDown \/ \E request \in Request : Ask(request))
  <2>1. ~WriteDown
    <3> SUFFICES ASSUME WriteDown PROVE FALSE
      OBVIOUS
    <3>1. web \in Request /\ ctl' = Written(ctl, web)
      BY <1>1 DEF WriteDown
    <3>2. CASE web.kind \in {"open", "close"}
      BY <1>1, <3>1, <3>2 DEF Written, Session, Control
    <3>3. CASE web.kind \in {"gate", "factory"}
      BY <1>1, <3>1, <3>3 DEF Written, Control
    <3> QED BY <3>1, <3>2, <3>3 DEF Request
  <2> QED BY <1>2, <2>1 DEF Ask, host
<1>6. ~Loop
  <2>1. ~Quarantine
    BY <1>1, QuarantineEnds
  <2>2. ~SettleDown
    BY <1>1 DEF SettleDown, Control
  <2>3. ~Manage
    <3> SUFFICES ASSUME Manage PROVE FALSE
      OBVIOUS
    <3>1. PICK t \in Transaction : Turn(t)
      BY <1>1, ManagerTurns
    <3> QED BY <3>1 DEF Turn, Sending, Completion, Failure, Answering, Missing,
                        Waiting
  <2> QED BY <2>1, <2>2, <2>3
          DEF Loop, Begin, Enter, GiveUp, Resume, StayBlocked
<1>7. CASE Interval
  <2>1. CASE TakeGate
    <3> DEFINE c == [ctl EXCEPT !.gate = IF GateReady THEN "dispatching"
                                                      ELSE "failed"]
    <3>1. c \in Control /\ c.gate # "applied" /\ ctl' = Status(c)
      BY <1>1, <2>1 DEF TakeGate, Control
    <3> HIDE DEF c
    <3> QED BY <3>1, StatusLeaves
  <2>2. CASE ReportStatus
    BY <1>1, <2>2, StatusLeaves DEF ReportStatus
  <2> QED BY <1>7, <2>1, <2>2 DEF Interval
<1> QED BY <1>3, <1>4, <1>5, <1>6, <1>7 DEF Next

(* A gate that is reported as applied is applied, or being reset since: for *)
(* every radar, every threshold and any number of lost, late or refused     *)
(* commands, sessions and resets.                                           *)
THEOREM RadarAppliesTruly == Spec => AppliedTrue
<1>1. Init => ReadbackInv
  <2> SUFFICES ASSUME Init PROVE ReadbackInv
    OBVIOUS
  <2>1. IInv
    <3>1. TypeInv
      BY InitType
    <3>2. ~Busy /\ dog.state = "monitoring"
      BY StartedType DEF Init, Busy
    <3> QED BY <3>1, <3>2 DEF IInv, OneOwner, Marked
  <2>2. LineInv
    BY DEF Init, LineInv, LineEmpties, NotYetSettling, LastInLine, OwnInLine
  <2>3. ~Underway
    BY DEF Init, Underway
  <2>4. ~Blocked
    BY DEF Init, Blocked
  <2> QED BY <2>1, <2>2, <2>3, <2>4
          DEF ReadbackInv, GateInv, NoneWhileBlocked, ForThisGate, Dispatched,
              OnlyByReset, Outdated, Underway
<1>2. ReadbackInv /\ [Next]_vars =>
        [ctl.gate # "applied" /\ ctl'.gate = "applied" =>
           radar.threshold = ctl'.value \/ tx.op = "factory"]_vars
  <2> SUFFICES ASSUME ReadbackInv, Next,
                      ctl.gate # "applied", ctl'.gate = "applied"
               PROVE  radar.threshold = ctl'.value \/ tx.op = "factory"
    OBVIOUS
  <2>1. VerifyGate /\ ctl \in Control
    BY OnlyVerified DEF ReadbackInv, IInv, TypeInv, TypeOK
  <2> DEFINE c == [ctl EXCEPT !.gate = IF shown = ctl.value THEN "applied"
                                                            ELSE "failed"]
  <2>2. /\ c \in Control /\ c.value = ctl.value
        /\ c.gate = "applied" => shown = ctl.value
    BY <2>1 DEF Control
  <2>3. ctl' = Status(c) /\ ctl.gate = "readback"
    BY <2>1 DEF VerifyGate, Verifiable
  <2> HIDE DEF c
  <2>4. shown = ctl.value /\ ctl'.value = ctl.value
    BY <2>2, <2>3, StatusLeaves
  <2> QED BY <2>3, <2>4
          DEF ReadbackInv, GateInv, OnlyByReset, Outdated, Underway
<1> QED BY <1>1, <1>2, ReadbackStep, PTL DEF Spec, AppliedTrue
=============================================================================
