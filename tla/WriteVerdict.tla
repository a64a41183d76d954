----------------------------- MODULE WriteVerdict -----------------------------
(***************************************************************************)
(* A write to a monitored volume, from the minifilter driver that holds it *)
(* back (agent/driver) through DriverComm's single listener thread and the *)
(* pipeline's OnFileNotification to the verdict: allow, block, ask the     *)
(* server (two-tier detection) or ask the user.  Beside it run the service *)
(* stop, which takes the callback away, closes the port and joins the      *)
(* listener, and the detached threads that queue the incidents.            *)
(*                                                                         *)
(* Time: one Tick is a fraction of a minute; whatever the listener can do  *)
(* without waiting for a user, a server or a timer takes no time, and a    *)
(* timer that is due fires before the next Tick.                           *)
(*                                                                         *)
(* Abstracted: detection and policies to a choice among the responses;     *)
(* create notifications to clean writes, which they are to the agent (they *)
(* carry no preview); the incident queue to the set of incidents it took.  *)
(* External: the filter manager's port (messages in order; closing a port  *)
(* releases every waiting sender) and Windows dialogs.                     *)
(***************************************************************************)
EXTENDS Integers, Sequences, FiniteSets

CONSTANTS
  Writes,         \* write requests
  NoWrite,        \* the listener holds no request
  DialogTime,     \* timeout_seconds_ of UserCancelAction (120 s)
  Grace,          \* what ShowDialog waits beyond it (5 s)
  TtdTime,        \* deadline of DetectContent (30 s)
  DriverTimeout,  \* timeout of FltSendMessage (150 s)
  MaxInFlight,    \* bound: writes held by the driver at a time
  MaxStarts       \* bound: starts of the agent

ASSUME VerdictAssumption ==
  /\ NoWrite \notin Writes
  /\ DialogTime \in Nat \ {0} /\ Grace \in Nat \ {0}
  /\ TtdTime \in 0 .. DialogTime
  /\ DriverTimeout \in Nat /\ MaxInFlight \in Nat /\ MaxStarts \in Nat

VARIABLES
  \* the driver
  state,      \* per write: new, waiting, allowed, denied
  cause,      \* per write: what released it
  age,        \* per write: ticks since FltSendMessage
  connected,  \* ClientConnected
  inbox,      \* messages on the port, not yet received
  \* the agent process
  listener,   \* the listener thread's position
  current,    \* the request it works on
  verdict,    \* the verdict it is about to reply
  clock,      \* ticks spent in the server call or the dialog
  dialog,     \* the dialog shown: none, open, prompt (its message box), closed
  running,    \* DriverComm::running_
  callback,   \* verdict_callback_ is set and the pipeline is running
  posted,     \* detached post-verdict threads
  queueOpen,  \* the incident queue accepts incidents
  service,    \* the service thread's position
  starts,
  \* history
  decision,   \* per write: the action recorded with its incident, or none
  incidents,  \* writes whose incident was queued
  lost,       \* writes whose incident was not, the queue or process being gone
  dangling    \* ShowDialog returned while its dialog thread was running

driver == <<state, cause, age, connected, inbox>>
worker == <<listener, current, verdict, clock, dialog>>
control == <<running, callback, queueOpen, service, starts>>
history == <<posted, decision, incidents, lost, dangling>>
vars == <<driver, worker, control, history>>

Verdicts == {"allow", "block"}
InCallback == {"evaluate", "ttd", "dialog"}  \* callback_mutex_ is held

TypeOK ==
  /\ state \in [Writes -> {"new", "waiting", "allowed", "denied"}]
  /\ cause \in [Writes -> {"none", "bypass", "answer", "timeout", "closed"}]
  /\ age \in [Writes -> 0 .. DriverTimeout]
  /\ connected \in BOOLEAN
  /\ inbox \in Seq(Writes) /\ Len(inbox) <= MaxInFlight
  /\ listener \in {"off", "get", "reply"} \cup InCallback
  /\ current \in Writes \cup {NoWrite}
  /\ verdict \in Verdicts
  /\ clock \in Nat
  /\ dialog \in {"none", "open", "prompt", "closed"}
  /\ running \in BOOLEAN /\ callback \in BOOLEAN /\ queueOpen \in BOOLEAN
  /\ service \in {"down", "starting", "up", "clearing", "closing", "joining",
                  "queue", "stopped"}
  /\ starts \in 0 .. MaxStarts
  /\ decision \in [Writes -> Verdicts \cup {"none"}]
  /\ posted \subseteq Writes /\ incidents \subseteq Writes /\ lost \subseteq Writes
  /\ dangling \in BOOLEAN

Init ==
  /\ state = [w \in Writes |-> "new"]
  /\ cause = [w \in Writes |-> "none"]
  /\ age = [w \in Writes |-> 0]
  /\ connected = FALSE /\ inbox = <<>>
  /\ listener = "off" /\ current = NoWrite
  /\ verdict = "allow" /\ clock = 0 /\ dialog = "none"
  /\ running = FALSE /\ callback = FALSE /\ queueOpen = FALSE
  /\ service = "down" /\ starts = 0
  /\ decision = [w \in Writes |-> "none"]
  /\ posted = {} /\ incidents = {} /\ lost = {} /\ dangling = FALSE

-----------------------------------------------------------------------------
(* The driver. *)

Waiting == {w \in Writes : state[w] = "waiting"}

\* AkesoPreWrite: no client, no check; otherwise the request waits.
Write(w) ==
  /\ state[w] = "new"
  /\ IF connected
       THEN /\ Cardinality(Waiting) < MaxInFlight
            /\ state' = [state EXCEPT ![w] = "waiting"]
            /\ inbox' = Append(inbox, w)
            /\ UNCHANGED cause
       ELSE /\ state' = [state EXCEPT ![w] = "allowed"]
            /\ cause' = [cause EXCEPT ![w] = "bypass"]
            /\ UNCHANGED inbox
  /\ UNCHANGED <<age, connected, worker, control, history>>

Withdrawn(i) == SubSeq(inbox, 1, i - 1) \o SubSeq(inbox, i + 1, Len(inbox))

\* FltSendMessage gives up; a message not yet received is withdrawn.
Timeout(w) ==
  /\ state[w] = "waiting" /\ age[w] = DriverTimeout
  /\ state' = [state EXCEPT ![w] = "allowed"]
  /\ cause' = [cause EXCEPT ![w] = "timeout"]
  /\ IF \E i \in DOMAIN inbox : inbox[i] = w
       THEN \E i \in DOMAIN inbox : inbox[i] = w /\ inbox' = Withdrawn(i)
       ELSE UNCHANGED inbox
  /\ UNCHANGED <<age, connected, worker, control, history>>

\* AkesoPortDisconnect: the port goes away and every sender fails, which
\* AkesoPreWrite turns into an allowed write.
ClosePort ==
  /\ connected' = FALSE
  /\ inbox' = <<>>
  /\ state' = [w \in Writes |-> IF w \in Waiting THEN "allowed" ELSE state[w]]
  /\ cause' = [w \in Writes |-> IF w \in Waiting THEN "closed" ELSE cause[w]]
  /\ UNCHANGED age

-----------------------------------------------------------------------------
(* The listener thread. *)

\* Receive a request and, with a callback, enter it: OnFileNotification.
Receive ==
  /\ listener = "get" /\ inbox # <<>>
  /\ current' = Head(inbox)
  /\ inbox' = Tail(inbox)
  /\ verdict' = "allow"
  /\ listener' = IF callback THEN "evaluate" ELSE "reply"
  /\ UNCHANGED <<state, cause, age, connected, clock, dialog, control, history>>

\* Mutant of Conclude: the incident and response work only follows a verdict
\* that the endpoint reached by itself.
ConcludeWithoutTtd(v) ==
  /\ listener' = "reply" /\ verdict' = v
  /\ decision' = [decision EXCEPT ![current] = v]
  /\ posted' = IF listener = "ttd" THEN posted ELSE posted \cup {current}

\* A violation ends in verdict v: post the incident work to a thread of its
\* own and leave the callback.
Conclude(v) ==
  /\ listener' = "reply" /\ verdict' = v
  /\ decision' = [decision EXCEPT ![current] = v]
  /\ posted' = posted \cup {current}

\* No violation, no policies, an empty preview or an analyser error: allow.
EvaluateClean ==
  /\ listener = "evaluate"
  /\ listener' = "reply"
  /\ UNCHANGED <<driver, current, verdict, clock, dialog, control, history>>

\* The worst violation's response is allow, notify or block.
EvaluateLocally ==
  /\ listener = "evaluate"
  /\ \E v \in Verdicts : Conclude(v)
  /\ UNCHANGED <<driver, current, clock, dialog, control, incidents, lost,
                 dangling>>

\* The response is TTD: RequestTTD calls the server.
EvaluateByServer ==
  /\ listener = "evaluate"
  /\ listener' = "ttd" /\ clock' = 0
  /\ UNCHANGED <<driver, current, verdict, dialog, control, history>>

\* The server's verdict, or the fallback for a failed or late call.
ServerVerdict ==
  /\ listener = "ttd"
  /\ \E v \in Verdicts : Conclude(v)
  /\ UNCHANGED <<driver, current, clock, dialog, control, incidents, lost,
                 dangling>>

\* The response is UserCancel: ShowDialog starts the dialog's thread.
EvaluateByUser ==
  /\ listener = "evaluate"
  /\ listener' = "dialog" /\ clock' = 0 /\ dialog' = "open"
  /\ UNCHANGED <<driver, current, verdict, control, history>>

Asking == listener = "dialog"

\* Submit with a justification, Block, or the window's close button.
UserDecides ==
  /\ Asking /\ dialog = "open" /\ clock < DialogTime
  /\ dialog' = "closed"
  /\ verdict' \in Verdicts
  /\ UNCHANGED <<driver, listener, current, clock, control, history>>

\* Submit without a justification raises a message box inside the dialog.
UserSubmitsNothing ==
  /\ Asking /\ dialog = "open" /\ clock < DialogTime
  /\ dialog' = "prompt"
  /\ UNCHANGED <<driver, listener, current, verdict, clock, control, history>>

\* The box is acknowledged: back to the dialog, or past its end if the timer
\* ran out meanwhile.
UserDismissesPrompt ==
  /\ Asking /\ dialog = "prompt"
  /\ IF clock < DialogTime
       THEN dialog' = "open" /\ UNCHANGED verdict
       ELSE dialog' = "closed" /\ verdict' = "block"
  /\ UNCHANGED <<driver, listener, current, clock, control, history>>

\* The timer ends the dialog, which returns only when no box is open.
DialogTimesOut ==
  /\ Asking /\ dialog = "open" /\ clock = DialogTime
  /\ dialog' = "closed" /\ verdict' = "block"
  /\ UNCHANGED <<driver, listener, current, clock, control, history>>

\* Mutants of WaitLimit: no grace period; wait instead of wait_for.
NoGrace == DialogTime
NoLimit == DialogTime + DriverTimeout

\* cv.wait_for(timeout_seconds_ + 5).
WaitLimit == DialogTime + Grace

\* ShowDialog returns when the dialog has, or after the grace period: then
\* the dialog's thread goes on with references into a frame that is gone.
ShowDialogReturns ==
  /\ Asking
  /\ dialog = "closed" \/ clock = WaitLimit
  /\ Conclude(IF dialog = "closed" THEN verdict ELSE "block")
  /\ dangling' = (dangling \/ dialog # "closed")
  /\ dialog' = "none"
  /\ UNCHANGED <<driver, current, clock, control, incidents, lost>>

\* Mutant of Reply: answers whichever message has waited longest.
ReplyToOldest ==
  /\ listener = "reply"
  /\ \/ \E w \in Waiting :
          /\ \A v \in Waiting : age[w] >= age[v]
          /\ state' = [state EXCEPT ![w] =
                          IF verdict = "block" THEN "denied" ELSE "allowed"]
          /\ cause' = [cause EXCEPT ![w] = "answer"]
     \/ Waiting = {} /\ UNCHANGED <<state, cause>>
  /\ current' = NoWrite
  /\ listener' = IF running THEN "get" ELSE "off"
  /\ UNCHANGED <<age, connected, inbox, verdict, clock, dialog, control, history>>

\* FilterReplyMessage: fails, and is only logged, when the sender gave up or
\* the port is closed.
Reply ==
  /\ listener = "reply"
  /\ IF state[current] = "waiting"
       THEN /\ state' = [state EXCEPT ![current] =
                           IF verdict = "block" THEN "denied" ELSE "allowed"]
            /\ cause' = [cause EXCEPT ![current] = "answer"]
       ELSE UNCHANGED <<state, cause>>
  /\ current' = NoWrite
  /\ listener' = IF running THEN "get" ELSE "off"
  /\ UNCHANGED <<age, connected, inbox, verdict, clock, dialog, control, history>>

\* FilterGetMessage fails on the closed port.
ListenerExits ==
  /\ listener = "get" /\ ~connected
  /\ listener' = "off"
  /\ UNCHANGED <<driver, current, verdict, clock, dialog, control, history>>

\* A post-verdict thread queues its incident, if the queue is still open.
PostVerdictWork(w) ==
  /\ w \in posted
  /\ posted' = posted \ {w}
  /\ IF queueOpen THEN incidents' = incidents \cup {w} /\ UNCHANGED lost
                  ELSE lost' = lost \cup {w} /\ UNCHANGED incidents
  /\ UNCHANGED <<driver, worker, control, decision, dangling>>

-----------------------------------------------------------------------------
(* The service: StartComponents, then StopComponents in reverse order. *)

Go(from, to) == service = from /\ service' = to

\* IncidentQueue and DriverComm start: the port is connected and the listener
\* answers "allow" until the pipeline has registered its callback.
StartDriverComm ==
  /\ Go("down", "starting")
  /\ starts < MaxStarts /\ starts' = starts + 1
  /\ queueOpen' = TRUE
  /\ connected' = TRUE /\ running' = TRUE /\ listener' = "get"
  /\ UNCHANGED <<state, cause, age, inbox, current, verdict, clock, dialog,
                 callback, history>>

StartPipeline ==
  /\ Go("starting", "up")
  /\ callback' = TRUE
  /\ UNCHANGED <<driver, worker, running, queueOpen, starts, history>>

\* The pipeline stops: requests received from now on are allowed.
StopPipeline ==
  /\ Go("up", "clearing")
  /\ callback' = FALSE
  /\ UNCHANGED <<driver, worker, running, queueOpen, starts, history>>

\* Mutant of ClearCallback: the callback runs outside callback_mutex_.
ClearCallbackUnlocked ==
  /\ Go("clearing", "closing")
  /\ UNCHANGED <<driver, worker, running, callback, queueOpen, starts, history>>

\* SetVerdictCallback(nullptr) waits for a callback under way.
ClearCallback ==
  /\ Go("clearing", "closing")
  /\ listener \notin InCallback
  /\ UNCHANGED <<driver, worker, running, callback, queueOpen, starts, history>>

\* Mutant of StopDriverComm: the listener is joined before the port is closed.
StopDriverCommJoinFirst ==
  /\ Go("closing", "joining")
  /\ running' = FALSE
  /\ UNCHANGED <<driver, worker, callback, queueOpen, starts, history>>

\* DriverComm::Stop: running_ = false, close the port.
StopDriverComm ==
  /\ Go("closing", "joining")
  /\ running' = FALSE
  /\ ClosePort
  /\ UNCHANGED <<worker, callback, queueOpen, starts, history>>

JoinListener ==
  /\ Go("joining", "queue")
  /\ listener = "off"
  /\ UNCHANGED <<driver, worker, running, callback, queueOpen, starts, history>>

StopQueue ==
  /\ Go("queue", "stopped")
  /\ queueOpen' = FALSE
  /\ UNCHANGED <<driver, worker, running, callback, starts, history>>

\* The process ends: its threads and their work are gone, its port is closed.
ProcessEnds ==
  /\ service' = "down"
  /\ ClosePort
  /\ listener' = "off" /\ current' = NoWrite /\ dialog' = "none"
  /\ running' = FALSE /\ callback' = FALSE /\ queueOpen' = FALSE
  /\ lost' = lost \cup posted /\ posted' = {}
  /\ UNCHANGED <<verdict, clock, starts, decision, incidents, dangling>>

Exit == service = "stopped" /\ ProcessEnds
Crash == service \notin {"down", "stopped"} /\ ProcessEnds

-----------------------------------------------------------------------------
(* Time. *)

\* Mutant of Idle: FltSendMessage is called without a timeout.
IdleWithoutTimeout ==
  /\ listener \notin {"evaluate", "reply"}
  /\ ~(listener = "get" /\ (inbox # <<>> \/ ~connected))
  /\ listener = "ttd" => clock < TtdTime
  /\ Asking => /\ dialog # "closed"
               /\ clock < WaitLimit
               /\ ~(dialog = "open" /\ clock = DialogTime)

\* Nothing that takes no time is left to do, and no timer is due.
Idle ==
  /\ listener \notin {"evaluate", "reply"}
  /\ ~(listener = "get" /\ (inbox # <<>> \/ ~connected))
  /\ \A w \in Waiting : age[w] < DriverTimeout
  /\ listener = "ttd" => clock < TtdTime
  /\ Asking => /\ dialog # "closed"
               /\ clock < WaitLimit
               /\ ~(dialog = "open" /\ clock = DialogTime)

Tick ==
  /\ Idle
  /\ \/ Waiting # {}
     \/ listener \in {"ttd", "dialog"}
  /\ age' = [w \in Writes |-> IF w \in Waiting THEN age[w] + 1 ELSE age[w]]
  /\ clock' = IF listener \in {"ttd", "dialog"} THEN clock + 1 ELSE clock
  /\ UNCHANGED <<state, cause, connected, inbox, listener, current, verdict,
                 dialog, control, history>>

Listen ==
  \/ Receive \/ Reply \/ ListenerExits
  \/ EvaluateClean \/ EvaluateLocally \/ EvaluateByServer \/ EvaluateByUser
  \/ ServerVerdict \/ ShowDialogReturns

User == UserDecides \/ UserSubmitsNothing \/ UserDismissesPrompt

Stopping ==
  \/ ClearCallback \/ StopDriverComm \/ JoinListener \/ StopQueue \/ Exit

Next ==
  \/ \E w \in Writes : Write(w) \/ Timeout(w) \/ PostVerdictWork(w)
  \/ Listen \/ User \/ DialogTimesOut
  \/ StartDriverComm \/ StartPipeline \/ StopPipeline \/ Stopping
  \/ Crash
  \/ Tick

Spec == Init /\ [][Next]_vars

\* Threads that can run do run and time passes; nobody makes the user answer,
\* a program write or an administrator start or stop the service.
FairSpec ==
  /\ Spec
  /\ WF_vars(Listen) /\ WF_vars(DialogTimesOut) /\ WF_vars(Tick)
  /\ WF_vars(Stopping)
  /\ \A w \in Writes : WF_vars(Timeout(w)) /\ WF_vars(PostVerdictWork(w))

-----------------------------------------------------------------------------
\* A write that the agent's reply released went the way the incident says:
\* no reply is applied to another request, none is made from an earlier one's
\* verdict, and a write is denied only by a recorded decision to block.
AnsweredAsRecorded ==
  \A w \in Writes :
    /\ cause[w] = "answer" /\ decision[w] = "block" => state[w] = "denied"
    /\ state[w] = "denied" => cause[w] = "answer" /\ decision[w] = "block"

\* Whatever way a block was decided, its incident is queued, about to be, or
\* was lost with the process or a queue that stopped first.
DenialsAreRecorded ==
  \A w \in Writes :
    state[w] = "denied" => w \in posted \cup incidents \cup lost

\* What is recorded of a write and what happened to it agree (Conclude, Reply,
\* PostVerdictWork).
RecordsMatchOutcomes == TypeOK /\ AnsweredAsRecorded /\ DenialsAreRecorded

\* A service stop lets a question to the user or the server run its course:
\* the port is not closed under a request that is still being decided.
StopWaitsForDecision ==
  [][\A w \in Writes :
       cause[w] # "closed" /\ cause'[w] = "closed" /\ service' # "down"
         => ~(current = w /\ listener \in InCallback)]_vars

\* ShowDialog abandons its dialog's thread, whose references into its frame
\* then dangle, only while the user has an unacknowledged message box: the
\* timer of five seconds less suffices otherwise.
DanglesOnlyUnderPrompt ==
  [][~dangling /\ dangling' => dialog = "prompt"]_vars

\* A service stop ends, whatever the user does: every wait on the way is
\* bounded or cancelled.
StopCompletes == service = "clearing" ~> service = "down"

\* The driver outwaits the agent (150 s against 125 s): a write that gives up has
\* first waited behind another's dialog or call, its own has not been under way
\* for all that time.
OnlyQueuedWritesTimeOut ==
  [][\A w \in Writes :
       cause[w] # "timeout" /\ cause'[w] = "timeout"
         => ~(current = w /\ listener \in {"ttd", "dialog"} /\ clock = age[w])]_vars

\* The timers of the dialog, of ShowDialog and of the driver outlast one another
\* (WaitLimit, Timeout): what runs out first had a reason to.
TimersOutlastEachOther == DanglesOnlyUnderPrompt /\ OnlyQueuedWritesTimeOut

\* user_cancel.h:9-11, "if the user doesn't respond, the operation is
\* automatically blocked"; akeso_dlp_filter.c:830, the driver's timeout is "long
\* enough for UserCancel dialogs".
UnansweredIsBlocked ==
  \A w \in Writes :
    decision[w] = "block" /\ state[w] = "allowed" => cause[w] # "timeout"
===============================================================================
