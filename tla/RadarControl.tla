----------------------------- MODULE RadarControl -----------------------------
(* How a node commands its LD2410C radar: the requests of the web server     *)
(* (control_handler.cpp, control_state.h), the transactions of commands and  *)
(* the watchdog (ld2410_stream_health.cpp), the manager between them         *)
(* (radar_api_server.cpp) and the lambda that writes gates and reads them    *)
(* back (interval-500ms.yaml).  The radar and the component that speaks to   *)
(* it are external.                                                          *)
(*                                                                           *)
(* One gate stands for the nine.  Time is abstract: a time-out is an action  *)
(* of its own, which may come when what it waits for will not come, or, as   *)
(* one of the faults of Setup, too early.                                    *)
EXTENDS Integers, Sequences

CONSTANTS
  Threshold,   \* the thresholds that a client asks for
  Factory,     \* the threshold the radar was made with
  None,
  Setup        \* initial radars, what the client asks and what goes wrong

VARIABLES
  radar,   \* the module: its mode and the threshold of its gate
  line,    \* the commands on their way to it
  health,  \* Ld2410StreamHealth
  answer,  \* the answer to the last command, as far as it is not yet read
  tx,      \* Ld2410CommandTransaction
  dog,     \* Ld2410Watchdog
  rec,     \* ld2410_recovery_*
  sync,    \* ld2410_startup_*
  tuning,  \* ld2410_tuning_*
  ctl,     \* ControlState
  shown,   \* the threshold that the number entities show
  web,     \* the request that has passed its checks
  budget   \* what may still happen

host == <<tx, dog, rec, sync, tuning, ctl>>
vars == <<radar, line, health, answer, host, shown, web, budget>>

Setting == Threshold \cup {Factory}
Radar == [config : BOOLEAN, engineering : BOOLEAN, booting : BOOLEAN,
          threshold : Setting]

ASSUME SetupAssumption == \A s \in Setup : s.radar \in Radar

-----------------------------------------------------------------------------
(* Commands and transactions *)

(* sequence_length_ and command_for_step_; "query" also stands for the four *)
(* queries before it in the startup synchronisation.                       *)
Script ==
  [startup |-> <<"enable", "query", "disable">>,
   start   |-> <<"enable", "engineer", "query", "disable">>,
   stop    |-> <<"enable", "normal", "disable">>,
   gate    |-> <<"enable", "write", "query", "disable">>,
   factory |-> <<"enable", "factory", "restart">>]

Operation == DOMAIN Script
Command == UNION {{Script[op][i] : i \in DOMAIN Script[op]} : op \in Operation}

ASSUME NoneAssumption == None \notin Operation \cup Setting

NoTransaction ==
  [op |-> None, state |-> "idle", step |-> 1, value |-> Factory,
   frame |-> FALSE, due |-> FALSE]

Busy == tx.op # None

(* start *)
Started(op, value) ==
  [NoTransaction EXCEPT !.op = op, !.state = "send", !.value = value]

(* An abandoned transaction leaves the configuration mode: SEND_ABORT_EXIT *)
(* is "abort", the wait for its answer "aborted".                          *)
Expected(t) ==
  IF t.state \in {"abort", "aborted"} THEN "disable" ELSE Script[t.op][t.step]

ExpectedEngineering(t) == t.op \in {"start", "gate"}

Sends(t) == t.state \in {"send", "abort"}

(* The frames of the mode that the operation leaves behind are those since *)
(* its last command.                                                       *)
AfterSend(t) ==
  [t EXCEPT !.state = IF t.state = "abort" THEN "aborted" ELSE "ack",
            !.due = FALSE,
            !.frame = @ /\ ~(t.state = "send" /\ t.step = Len(Script[t.op]))]

(* begin_failure_, and the end of an abandoned transaction *)
AfterFailure(t) ==
  [t EXCEPT !.state = IF Expected(t) \in {"disable", "restart"}
                        THEN "report" ELSE "abort"]

AfterSuccess(t) ==
  [t EXCEPT !.state = IF t.step = Len(Script[t.op]) THEN "frame" ELSE "send",
            !.step = IF t.step = Len(Script[t.op]) THEN @ ELSE @ + 1,
            !.due = FALSE]

AfterAnswer(t, a) ==
  IF a = "ok" /\ t.state = "ack" THEN AfterSuccess(t) ELSE AfterFailure(t)

(* Frames after a restart say more than its missing acknowledgement. *)
Completes(t) ==
  /\ t.frame /\ health.engineering = ExpectedEngineering(t)
  /\ \/ t.state = "frame"
     \/ t.state = "ack" /\ Expected(t) = "restart"

Fails(t) ==
  \/ t.state = "report"
  \/ t.state = "frame" /\ t.due /\ ~Completes(t)

-----------------------------------------------------------------------------
(* Requests *)

GateBusy(c) == c.gate \in {"pending", "dispatching", "readback"}

(* fail_static_radar_gate_operation *)
GateFailed(c) == [c EXCEPT !.gate = IF GateBusy(c) THEN "failed" ELSE @]

(* quarantine_ld2410_requests_ *)
NoTuning == [pending |-> FALSE, wanted |-> FALSE]
Quarantined(c) ==
  [GateFailed(c) EXCEPT !.session = FALSE, !.recovering = TRUE,
                        !.requested = FALSE, !.expired = FALSE,
                        !.active = FALSE, !.factory = FALSE]

(* ControlHandler: the checks of a request *)
Accepts(request) ==
  CASE request.kind = "open"    -> ctl.available /\ ~ctl.recovering
    [] request.kind = "close"   -> ~ctl.recovering
    [] request.kind = "gate"    -> ctl.active /\ ~ctl.recovering /\ ~GateBusy(ctl)
    [] request.kind = "factory" -> ctl.available /\ ~ctl.factory

(* ... and what it does.  A session that is open is kept alive. *)
Session(c, open) ==
  [c EXCEPT !.requested = open, !.expired = FALSE,
            !.session = @ \/ c.requested # open]

Written(c, request) ==
  CASE request.kind = "open"  -> Session(c, TRUE)
    [] request.kind = "close" -> Session(c, FALSE)
    [] request.kind = "gate"  ->
         [c EXCEPT !.gate = "pending", !.value = request.value, !.late = FALSE]
    [] request.kind = "factory" ->
         [c EXCEPT !.requested = FALSE, !.expired = FALSE, !.session = FALSE,
                   !.gate = "idle", !.active = FALSE, !.factory = TRUE]

-----------------------------------------------------------------------------
(* The watchdog *)

Fresh == health.seen /\ health.age = 0
Stale == health.age >= IF health.seen THEN 2 ELSE 1
Blocked == rec.requested \/ rec.active \/ rec.settling

Resumes ==
  /\ dog.frame
  /\ dog.state = "restarting" \/ (dog.state = "cooldown" /\ dog.sent)

(* Mutants of Begins: the watchdog does not wait for a transaction, or does *)
(* not try again.                                                          *)
BeginsBusy ==
  /\ ~Resumes
  /\ \/ dog.state = "monitoring" /\ (rec.requested \/ Stale)
     \/ dog.state = "cooldown" /\ dog.due

BeginsOnce ==
  /\ ~Busy /\ ~Resumes
  /\ dog.state = "monitoring" /\ (rec.requested \/ Stale)

Begins ==
  /\ ~Busy /\ ~Resumes
  /\ \/ dog.state = "monitoring" /\ (rec.requested \/ Stale)
     \/ dog.state = "cooldown" /\ dog.due

Enters == dog.state = "enabling" /\ answer # None

GivesUp ==
  \/ dog.state = "enabling" /\ dog.due /\ answer = None
  \/ dog.state = "restarting" /\ dog.due /\ ~dog.frame

Watches == ~(Resumes \/ Begins \/ Enters \/ GivesUp)

Quarantine ==
  tuning' = NoTuning /\ ctl' = Quarantined(ctl)

Send(command, value) ==
  /\ line' = Append(line, [command |-> command, value |-> value])
  /\ answer' = None

Recovering == [requested |-> FALSE, active |-> TRUE, settling |-> FALSE,
               steady |-> FALSE]
Interrupted == [Recovering EXCEPT !.requested = TRUE]
Settling == [requested |-> FALSE, active |-> FALSE, settling |-> TRUE,
             steady |-> FALSE]

(* begin_recovery_: a radar whose configuration mode is believed open is   *)
(* restarted at once.                                                      *)
Begin ==
  /\ Begins
  /\ LET opening == IF health.open THEN "restart" ELSE "enable"
     IN  /\ dog' = [state |-> IF health.open THEN "restarting" ELSE "enabling",
                    frame |-> FALSE, due |-> FALSE, sent |-> health.open]
         /\ Send(opening, Factory)
  /\ rec' = Recovering
  /\ Quarantine
  /\ UNCHANGED <<health, sync, tx>>

Enter ==
  /\ Enters
  /\ dog' = [dog EXCEPT !.state = "restarting", !.due = FALSE, !.sent = TRUE]
  /\ Send("restart", Factory)
  /\ rec' = Recovering
  /\ Quarantine
  /\ UNCHANGED <<health, sync, tx>>

GiveUp ==
  /\ GivesUp
  /\ dog' = [dog EXCEPT !.state = "cooldown", !.due = FALSE]
  /\ rec' = [rec EXCEPT !.active = TRUE, !.settling = FALSE]
  /\ Quarantine
  /\ UNCHANGED <<line, health, answer, sync, tx>>

Resume ==
  /\ Resumes
  /\ dog' = [dog EXCEPT !.state = "monitoring", !.sent = FALSE]
  /\ rec' = IF Fresh THEN Settling ELSE Interrupted
  /\ sync' = [sync EXCEPT !.complete = FALSE, !.stable = "off"]
  /\ Quarantine
  /\ UNCHANGED <<line, health, answer, tx>>

(* Ten frames and 1.5 s later commands are free again. *)
SettleDown ==
  /\ Watches /\ rec.settling /\ Fresh /\ rec.steady
  /\ rec' = [rec EXCEPT !.settling = FALSE, !.steady = FALSE]
  /\ health' = [health EXCEPT !.open = FALSE]
  /\ ctl' = [ctl EXCEPT !.recovering = FALSE]
  /\ sync' = [sync EXCEPT !.retry = FALSE]
  /\ UNCHANGED <<line, answer, tx, dog, tuning>>

StayBlocked ==
  /\ Watches /\ Blocked /\ ~(rec.settling /\ Fresh /\ rec.steady)
  /\ rec' = IF rec.settling /\ ~Fresh THEN Interrupted ELSE rec
  /\ Quarantine
  /\ UNCHANGED <<line, health, answer, sync, tx, dog>>

-----------------------------------------------------------------------------
(* The manager: process_ld2410_command_transaction_ *)

(* Mutant of KeptAlive: a session does not expire. *)
KeptAlways(c) == c

(* take_static_radar_tuning_session_request: without a keepalive for 15 s   *)
(* the session is closed as if the client had.                             *)
KeptAlive(c) == IF c.requested /\ c.expired THEN Session(c, FALSE) ELSE c

TakeSession(m) ==
  LET c == KeptAlive(m.ctl)
  IN  IF ~c.session THEN [m EXCEPT !.ctl = c]
      ELSE [m EXCEPT !.ctl = [c EXCEPT !.session = FALSE],
                     !.tuning = [pending |-> TRUE, wanted |-> c.requested],
                     !.sync.stable = "off"]

TuneNext(m) ==
  IF health.engineering = m.tuning.wanted
    THEN [m EXCEPT !.tuning.pending = FALSE, !.ctl.active = m.tuning.wanted]
    ELSE [m EXCEPT !.tuning.pending = FALSE,
                   !.tx = Started(IF m.tuning.wanted THEN "start" ELSE "stop",
                                  Factory)]

ResetNext(m) ==
  [m EXCEPT !.ctl.factory = FALSE, !.tuning = NoTuning,
            !.tx = Started("factory", Factory)]

MaySynchronize(m) ==
  /\ ~m.sync.complete /\ ~health.engineering /\ ~m.ctl.requested
  /\ m.sync.retry

SynchronizeNext(m) ==
  CASE m.sync.stable = "off" -> [m EXCEPT !.sync.stable = "running"]
    [] m.sync.stable = "due" -> [m EXCEPT !.tx = Started("startup", Factory)]
    [] OTHER -> m

(* What to do next: a session goes before a reset, a reset before the      *)
(* startup synchronisation, and everything waits for a fresh stream.       *)
StartNext(m) ==
  IF m.tx.op # None THEN m
  ELSE IF ~Fresh THEN [m EXCEPT !.sync.stable = "off"]
  ELSE IF m.tuning.pending THEN TuneNext(m)
  ELSE IF m.ctl.factory THEN ResetNext(m)
  ELSE IF MaySynchronize(m) THEN SynchronizeNext(m)
  ELSE m

(* finish_ld2410_command_transaction_, COMPLETED *)
Completed(m) ==
  LET op == m.tx.op
      n == [m EXCEPT !.tx = NoTransaction]
  IN  CASE op = "startup" ->
             [n EXCEPT !.sync = [complete |-> TRUE, stable |-> "off",
                                 retry |-> TRUE]]
        [] op \in {"start", "stop"} -> [n EXCEPT !.ctl.active = op = "start"]
        [] op = "gate" -> n
        [] op = "factory" ->
             [n EXCEPT !.ctl.active = FALSE, !.tuning.pending = FALSE,
                       !.sync = [complete |-> FALSE, stable |-> "off",
                                 retry |-> FALSE]]

(* ... and FAILED, which hands everything over to the recovery *)
Failed(m) ==
  [m EXCEPT !.tx = NoTransaction, !.tuning = NoTuning,
            !.ctl = Quarantined(m.ctl),
            !.sync = IF m.tx.op \in {"startup", "factory"}
                       THEN [complete |-> FALSE, stable |-> "off",
                             retry |-> FALSE]
                       ELSE @]

(* mark_static_radar_gate_readback_pending *)
Queried(m) ==
  IF m.tx.op = "gate" /\ Expected(m.tx) = "query" /\ m.ctl.gate = "dispatching"
    THEN [m EXCEPT !.ctl.gate = "readback", !.ctl.late = FALSE]
    ELSE m

Becomes(m) == /\ ctl' = m.ctl /\ tuning' = m.tuning
              /\ sync' = m.sync /\ tx' = m.tx

Manage ==
  /\ Watches /\ ~Blocked
  /\ LET m == StartNext(TakeSession([ctl |-> ctl, tuning |-> tuning,
                                     sync |-> sync, tx |-> tx]))
         t == m.tx
     IN  \/ /\ Sends(t)
            /\ Becomes([Queried(m) EXCEPT !.tx = AfterSend(t)])
            /\ Send(Expected(t), t.value)
            /\ UNCHANGED rec
         \/ /\ Completes(t)
            /\ Becomes(Completed(m))
            /\ UNCHANGED <<line, answer, rec>>
         \/ /\ Fails(t)
            /\ Becomes(Failed(m))
            /\ rec' = [rec EXCEPT !.requested = TRUE]
            /\ UNCHANGED <<line, answer>>
         \/ /\ t.state \in {"ack", "aborted"} /\ ~Completes(t)
            /\ answer # None
            /\ Becomes([m EXCEPT !.tx = AfterAnswer(t, answer)])
            /\ answer' = None
            /\ UNCHANGED <<line, rec>>
         \/ /\ t.state \in {"ack", "aborted"} /\ ~Completes(t)
            /\ answer = None /\ t.due
            /\ Becomes([m EXCEPT !.tx = AfterFailure(t)])
            /\ UNCHANGED <<line, answer, rec>>
         \/ /\ ~Sends(t) /\ ~Completes(t) /\ ~Fails(t)
            /\ t.state \in {"ack", "aborted"} => answer = None /\ ~t.due
            /\ Becomes(m)
            /\ UNCHANGED <<line, answer, rec>>
  /\ UNCHANGED <<health, dog>>

(* loop *)
Loop ==
  /\ Begin \/ Enter \/ GiveUp \/ Resume \/ SettleDown \/ StayBlocked \/ Manage
  /\ UNCHANGED <<radar, shown, web, budget>>

-----------------------------------------------------------------------------
(* The lambda: a gate is written, its readback verified, the status taken *)

(* update_static_radar_tuning_status *)
Status(c) ==
  [c EXCEPT !.available = Fresh, !.recovering = Blocked,
            !.active = ~Blocked /\ Fresh /\ health.engineering]

(* request_static_radar_gate_write *)
GateReady == ~Blocked /\ Fresh /\ health.engineering /\ ~Busy

TakeGate ==
  /\ ctl.gate = "pending"
  /\ ctl' = Status([ctl EXCEPT !.gate = IF GateReady THEN "dispatching"
                                                     ELSE "failed"])
  /\ tx' = IF GateReady THEN Started("gate", ctl.value) ELSE tx
  /\ shown' = None

(* verify_static_radar_gate_readback *)
Verifiable == ctl.gate = "readback" /\ (shown # None \/ ctl.late)

(* Mutant of VerifyGate: any answer to the query will do. *)
VerifyAnswer ==
  /\ Verifiable
  /\ ctl' = Status([ctl EXCEPT !.gate = IF shown # None THEN "applied"
                                                        ELSE "failed"])
  /\ UNCHANGED <<shown, tx>>

VerifyGate ==
  /\ Verifiable
  /\ ctl' = Status([ctl EXCEPT !.gate = IF shown = ctl.value THEN "applied"
                                                             ELSE "failed"])
  /\ UNCHANGED <<shown, tx>>

ReportStatus ==
  /\ ctl.gate # "pending" /\ ~Verifiable
  /\ ctl' = Status(ctl)
  /\ UNCHANGED <<shown, tx>>

Interval ==
  /\ TakeGate \/ VerifyGate \/ ReportStatus
  /\ UNCHANGED <<radar, line, health, answer, dog, rec, sync, tuning, web,
                 budget>>

-----------------------------------------------------------------------------
(* The web server's task checks a request and then writes it down *)

Request == [kind : {"open", "close", "factory"}, value : {None}]
             \cup [kind : {"gate"}, value : Threshold]

Spend(what) == /\ budget[what] > 0
               /\ budget' = [budget EXCEPT ![what] = @ - 1]

Ask(request) ==
  /\ web = None /\ Accepts(request)
  /\ Spend(request.kind)
  /\ web' = request
  /\ UNCHANGED <<radar, line, health, answer, host, shown>>

WriteDown ==
  /\ web # None
  /\ ctl' = Written(ctl, web)
  /\ web' = None
  /\ UNCHANGED <<radar, line, health, answer, tx, dog, rec, sync, tuning,
                 shown, budget>>

-----------------------------------------------------------------------------
(* The radar and the component that speaks to it *)

Fault == Spend("faults")

(* Outside its configuration mode the radar knows one command only.  It     *)
(* reports targets, one frame every 100 ms, unless it is configured.       *)
Streams == ~radar.config /\ ~radar.booting
Understands(command) ==
  ~radar.booting /\ (radar.config \/ command = "enable")

Obeying(c) ==
  CASE c.command = "enable"   -> [radar EXCEPT !.config = TRUE]
    [] c.command = "disable"  -> [radar EXCEPT !.config = FALSE]
    [] c.command = "engineer" -> [radar EXCEPT !.engineering = TRUE]
    [] c.command = "normal"   -> [radar EXCEPT !.engineering = FALSE]
    [] c.command = "write"    -> [radar EXCEPT !.threshold = c.value]
    [] c.command = "factory"  -> [radar EXCEPT !.threshold = Factory]
    [] c.command = "query"    -> radar
    [] c.command = "restart"  ->
         [radar EXCEPT !.config = FALSE, !.engineering = FALSE,
                       !.booting = TRUE]

(* Who sent the last command waits for the answer to it and ignores others; *)
(* the watchdog (received_successful_ack_) skips rejections, too.          *)
Awaited(command, result) ==
  \/ tx.state \in {"ack", "aborted"} /\ Expected(tx) = command
  \/ dog.state = "enabling" /\ command = "enable" /\ result = "ok"

(* observe_ack *)
Acknowledge(command, result) ==
  /\ answer' = IF Awaited(command, result) /\ answer = None
                 THEN result ELSE answer
  /\ health' =
       IF result = "ok" /\ command \in {"enable", "disable", "restart"}
         THEN [health EXCEPT !.open = command = "enable"] ELSE health

NoAnswer == UNCHANGED <<health, answer, shown>>

(* The answer to a query publishes the thresholds. *)
Obey ==
  /\ line # <<>>
  /\ LET c == Head(line)
     IN  IF Understands(c.command)
           THEN /\ radar' = Obeying(c)
                /\ Acknowledge(c.command, "ok")
                /\ shown' = IF c.command = "query" THEN radar.threshold
                                                   ELSE shown
           ELSE NoAnswer /\ UNCHANGED radar
  /\ line' = Tail(line)
  /\ UNCHANGED <<host, web, budget>>

(* A command is lost, or its answer, or the radar rejects it, or it does not *)
(* write what it acknowledges.                                             *)
Disobey ==
  /\ line # <<>> /\ Fault
  /\ LET c == Head(line)
     IN  \/ NoAnswer /\ UNCHANGED radar
         \/ Understands(c.command) /\ radar' = Obeying(c) /\ NoAnswer
         \/ /\ Understands(c.command)
            /\ Acknowledge(c.command, "rejected")
            /\ UNCHANGED <<radar, shown>>
         \/ /\ c.command = "write" /\ Understands(c.command)
            /\ Acknowledge(c.command, "ok")
            /\ UNCHANGED <<radar, shown>>
  /\ line' = Tail(line)
  /\ UNCHANGED <<host, web>>

(* A boot takes longer than the 500 ms until the lambda runs. *)
Boot ==
  /\ radar.booting /\ ~Verifiable
  /\ radar' = [radar EXCEPT !.booting = FALSE]
  /\ UNCHANGED <<line, health, answer, host, shown, web, budget>>

(* The supply of the radar drops. *)
BrownOut ==
  /\ ~radar.booting /\ Fault
  /\ radar' = [radar EXCEPT !.config = FALSE, !.engineering = FALSE,
                            !.booting = TRUE]
  /\ UNCHANGED <<line, health, answer, host, shown, web>>

(* complete_frame_.  Ten frames do not fit between a command and the moment *)
(* the radar obeys it.                                                     *)
Frame ==
  /\ Streams
  /\ health' = [health EXCEPT !.seen = TRUE, !.age = 0,
                              !.engineering = radar.engineering]
  /\ tx' = [tx EXCEPT !.frame = Busy]
  /\ dog' = [dog EXCEPT !.frame = dog.state # "monitoring"]
  /\ rec' = [rec EXCEPT !.steady = rec.settling /\ line = <<>>]
  /\ UNCHANGED <<radar, line, answer, sync, tuning, ctl, shown, web, budget>>

-----------------------------------------------------------------------------
(* Time passes *)

NoAnswerComes == line = <<>> /\ answer = None

(* No frame for 5 s, and for 10 s: the radar was left in its configuration *)
(* mode.                                                                   *)
Quiet ==
  /\ health.age < 2
  /\ \/ radar.config /\ NoAnswerComes /\ ~Sends(tx) /\ UNCHANGED budget
     \/ Fault
  /\ health' = [health EXCEPT !.age = @ + 1]
  /\ UNCHANGED <<radar, line, answer, host, shown, web>>

(* No answer within 1.5 s, or no frame of the mode within 5 s or 10 s *)
NoFrameComes == radar.config \/ radar.engineering # ExpectedEngineering(tx)

TransactionDue ==
  /\ tx.state \in {"ack", "aborted", "frame"} /\ ~tx.due
  /\ \/ tx.state # "frame" /\ NoAnswerComes /\ UNCHANGED budget
     \/ tx.state = "frame" /\ NoFrameComes /\ UNCHANGED budget
     \/ Fault
  /\ tx' = [tx EXCEPT !.due = TRUE]
  /\ UNCHANGED <<radar, line, health, answer, dog, rec, sync, tuning, ctl,
                 shown, web>>

(* ... and the same of the watchdog; its cooldown of 60 s ends. *)
WatchdogDue ==
  /\ dog.state # "monitoring" /\ ~dog.due
  /\ \/ dog.state = "enabling" /\ NoAnswerComes /\ UNCHANGED budget
     \/ /\ dog.state = "restarting" /\ radar.config /\ line = <<>>
        /\ UNCHANGED budget
     \/ dog.state = "cooldown" /\ UNCHANGED budget
     \/ Fault
  /\ dog' = [dog EXCEPT !.due = TRUE]
  /\ UNCHANGED <<radar, line, health, answer, tx, rec, sync, tuning, ctl,
                 shown, web>>

(* The stream has been stable for a second; the time to try again comes. *)
SynchronizeDue ==
  /\ \/ sync.stable = "running" /\ sync' = [sync EXCEPT !.stable = "due"]
     \/ ~sync.retry /\ sync' = [sync EXCEPT !.retry = TRUE]
  /\ UNCHANGED <<radar, line, health, answer, tx, dog, rec, tuning, ctl,
                 shown, web, budget>>

(* 15 s without a keepalive; 2 s without a readback *)
SessionDue ==
  /\ ctl.requested /\ ~ctl.expired
  /\ ctl' = [ctl EXCEPT !.expired = TRUE]
  /\ UNCHANGED <<radar, line, health, answer, tx, dog, rec, sync, tuning,
                 shown, web, budget>>

ReadbackDue ==
  /\ ctl.gate = "readback" /\ ~ctl.late
  /\ (NoAnswerComes /\ UNCHANGED budget) \/ Fault
  /\ ctl' = [ctl EXCEPT !.late = TRUE]
  /\ UNCHANGED <<radar, line, health, answer, tx, dog, rec, sync, tuning,
                 shown, web>>

-----------------------------------------------------------------------------
(* The specification *)

Init ==
  /\ \E s \in Setup : radar = s.radar /\ budget = s.budget
  /\ line = <<>> /\ answer = None /\ shown = None /\ web = None
  /\ health = [seen |-> FALSE, age |-> 0, engineering |-> FALSE,
               open |-> FALSE]
  /\ tx = NoTransaction
  /\ dog = [state |-> "monitoring", frame |-> FALSE, due |-> FALSE,
            sent |-> FALSE]
  /\ rec = [requested |-> FALSE, active |-> FALSE, settling |-> FALSE,
            steady |-> FALSE]
  /\ sync = [complete |-> FALSE, stable |-> "off", retry |-> TRUE]
  /\ tuning = NoTuning
  /\ ctl = [available |-> FALSE, recovering |-> FALSE, active |-> FALSE,
            requested |-> FALSE, expired |-> FALSE, session |-> FALSE,
            gate |-> "idle", value |-> Factory, late |-> FALSE,
            factory |-> FALSE]

Next ==
  \/ Loop \/ Interval
  \/ WriteDown \/ \E request \in Request : Ask(request)
  \/ Obey \/ Disobey \/ Boot \/ BrownOut \/ Frame
  \/ Quiet \/ TransactionDue \/ WatchdogDue \/ SynchronizeDue
  \/ SessionDue \/ ReadbackDue

Spec == Init /\ [][Next]_vars

(* The node goes on with its loop and its lambda, the web server finishes  *)
(* what it began, the radar reads what is sent to it, boots and reports,   *)
(* and time passes.                                                        *)
Fairness ==
  /\ WF_vars(Loop) /\ WF_vars(Interval) /\ WF_vars(WriteDown)
  /\ WF_vars(Obey) /\ WF_vars(Boot) /\ WF_vars(Frame)
  /\ WF_vars(Quiet) /\ WF_vars(TransactionDue) /\ WF_vars(WatchdogDue)
  /\ WF_vars(SynchronizeDue) /\ WF_vars(SessionDue) /\ WF_vars(ReadbackDue)

LiveSpec == Spec /\ Fairness

-----------------------------------------------------------------------------
(* Properties *)

Answer == {None, "ok", "rejected"}
Transaction ==
  [op : Operation \cup {None}, step : 1..4, value : Setting,
   state : {"idle", "send", "ack", "abort", "aborted", "frame", "report"},
   frame : BOOLEAN, due : BOOLEAN]
Watchdog ==
  [state : {"monitoring", "enabling", "restarting", "cooldown"},
   frame : BOOLEAN, due : BOOLEAN, sent : BOOLEAN]
Recovery ==
  [requested : BOOLEAN, active : BOOLEAN, settling : BOOLEAN,
   steady : BOOLEAN]
Synchronization ==
  [complete : BOOLEAN, stable : {"off", "running", "due"}, retry : BOOLEAN]
Tuning == [pending : BOOLEAN, wanted : BOOLEAN]
Control ==
  [available : BOOLEAN, recovering : BOOLEAN, active : BOOLEAN,
   requested : BOOLEAN, expired : BOOLEAN, session : BOOLEAN,
   factory : BOOLEAN, value : Setting, late : BOOLEAN,
   gate : {"idle", "pending", "dispatching", "readback", "applied",
           "failed"}]

(* Every variable holds a value of its kind. *)
TypeOK ==
  /\ radar \in Radar
  /\ line \in Seq([command : Command, value : Setting])
  /\ health \in [seen : BOOLEAN, age : 0..2, engineering : BOOLEAN,
                 open : BOOLEAN]
  /\ answer \in Answer /\ tx \in Transaction /\ dog \in Watchdog
  /\ rec \in Recovery /\ sync \in Synchronization /\ tuning \in Tuning
  /\ ctl \in Control
  /\ shown \in Setting \cup {None}
  /\ web \in Request \cup {None}

(* The radar has one owner: a transaction runs only while the watchdog       *)
(* watches, and none begins before a recovery has settled (loop,             *)
(* process_ld2410_recovery_, request_static_radar_gate_write).               *)
OneOwner == Busy => dog.state = "monitoring" /\ ~Blocked

(* A gate write is reported as applied only when the radar holds the         *)
(* threshold that was asked for, or is being reset since; whatever was lost, *)
(* came late or was acknowledged without effect, and whatever sessions and   *)
(* resets were asked for meanwhile (verify_static_radar_gate_readback).      *)
AppliedTrue ==
  [][ctl.gate # "applied" /\ ctl'.gate = "applied" =>
       radar.threshold = ctl'.value \/ tx.op = "factory"]_vars

(* However a transaction or a recovery fails, in the end the radar reports   *)
(* targets again, commands are free and no gate operation is left open: the  *)
(* radar never stays in the configuration mode that a lost command left it   *)
(* in, and the watchdog, its cooldown and the settling never wait for good.  *)
StreamReturns == []<>(Streams /\ Fresh /\ ~Blocked /\ ~GateBusy(ctl))

(* A restart that finds the radar out of the configuration mode that the     *)
(* node believes it is in has no effect.                                     *)
Ignored ==
  line # <<>> /\ Head(line).command = "restart" /\ ~radar.config

(* A session that nobody keeps alive ends: whether it was closed, expired,   *)
(* overtaken by a reset or broken by a failure, the radar leaves its         *)
(* engineering mode, and the startup synchronisation, which waits for that,  *)
(* succeeds.  Only a recovery whose restart has no effect may leave the      *)
(* radar as it is.                                                           *)
SessionEnds == <>Ignored \/ <>[](~radar.engineering /\ sync.complete)
=============================================================================
