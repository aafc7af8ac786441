-------------------------- MODULE DiscordBotsProofs --------------------------
(***************************************************************************)
(* Proof that at most one bot's row is listening unless two bots were      *)
(* electing themselves at a time, for any number of bots and messages.     *)
(*                                                                         *)
(* An election in progress has seen that nobody listens, or has made the   *)
(* listener disconnect; if it is the only one, nobody starts to listen     *)
(* before it ends but the bot itself.                                      *)
(***************************************************************************)
EXTENDS DiscordBots, FiniteSetTheorems, TLAPS

\* The types that the argument needs.
Row == [status: {"none", "connected", "listening", "disconnected"}, last: 0..MaxMessages]
Task == [pc: TaskPc, listener: Bots \cup {Nobody}]
ElectionTypes ==
  /\ row \in [Bots -> Row]
  /\ election \in [Bots -> {"no", "elect", "claim"}]
  /\ task \in [Bots -> [Messages -> Task]]

\* One bot elects itself at a time, and while it does no other listens.
OneElection ==
  /\ \A b, c \in Bots : Electing(b) /\ Electing(c) => b = c
  /\ \A b \in Bots : Electing(b) => Listeners \subseteq {b}
  /\ \A b, c \in Listeners : b = c

ElectionInv == ElectionTypes /\ (overlapped \/ OneElection)

----------------------------------------------------------------------------
(* What an update of a row or of a task changes. *)

LEMMA RowWritten ==
  ASSUME ElectionTypes, NEW b \in Bots, NEW last \in 0..MaxMessages,
         NEW status \in {"none", "connected", "listening", "disconnected"},
         UpdateRow(b, status, last)
  PROVE  /\ row' \in [Bots -> Row] /\ row'[b].status = status
         /\ \A c \in Bots \ {b} : row'[c] = row[c]
BY DEF ElectionTypes, Row, UpdateRow

\* The listeners after it: b is one if the new status says so.
LEMMA ListenersWritten ==
  ASSUME ElectionTypes, NEW b \in Bots, NEW last \in 0..MaxMessages,
         NEW status \in {"none", "connected", "listening", "disconnected"},
         UpdateRow(b, status, last)
  PROVE  /\ row' \in [Bots -> Row]
         /\ status # "listening" => Listeners' = Listeners \ {b}
         /\ status = row[b].status => Listeners' = Listeners
         /\ Listeners' \subseteq Listeners \cup {b}
BY RowWritten DEF Listeners

\* b's task about m is another one, and no other task is.
TaskWritten(b, m, pc) ==
  /\ task' \in [Bots -> [Messages -> Task]] /\ task'[b][m].pc = pc
  /\ \A c \in Bots, n \in Messages : c # b \/ n # m => task'[c][n] = task[c][n]

LEMMA TaskSet ==
  ASSUME ElectionTypes, NEW b \in Bots, NEW m \in Messages,
         NEW pc \in TaskPc, NEW c \in Bots \cup {Nobody},
         task' = [task EXCEPT ![b][m] = [pc |-> pc, listener |-> c]]
  PROVE  TaskWritten(b, m, pc)
<1> DEFINE t == [pc |-> pc, listener |-> c]
<1>1. t \in Task /\ t.pc = pc
  BY DEF Task
<1>2. task' = [task EXCEPT ![b][m] = t]
  OBVIOUS
<1> HIDE DEF t
<1> QED BY <1>1, <1>2 DEF ElectionTypes, TaskWritten

LEMMA TaskDone ==
  ASSUME ElectionTypes, NEW b \in Bots, NEW m \in Messages, NEW pc \in TaskPc, Do(b, m, pc)
  PROVE  TaskWritten(b, m, pc)
BY TaskSet DEF Do

\* A task that does not claim anything takes no part in an election.
LEMMA TaskElects ==
  ASSUME ElectionTypes, NEW b \in Bots, NEW m \in Messages, NEW pc \in TaskPc,
         TaskWritten(b, m, pc), election' = election
  PROVE  /\ \A c \in Bots \ {b} : Electing(c)' => Electing(c)
         /\ pc \notin {"claim", "replace"} => \A c \in Bots : Electing(c)' => Electing(c)
<1>1. ASSUME NEW c \in Bots \ {b} PROVE Electing(c)' => Electing(c)
  BY DEF TaskWritten, Electing
<1>2. ASSUME pc \notin {"claim", "replace"} PROVE Electing(b)' => Electing(b)
  BY <1>2 DEF TaskWritten, Electing
<1> QED BY <1>1, <1>2

----------------------------------------------------------------------------
(* The three kinds of steps. *)

\* Nobody begins to elect itself or to listen.
LEMMA Quiet ==
  ASSUME ElectionInv, ElectionTypes', Listeners' \subseteq Listeners,
         \A b \in Bots : Electing(b)' => Electing(b), overlapped' = overlapped
  PROVE  ElectionInv'
BY DEF ElectionInv, OneElection

\* A bot begins to elect itself when nobody listens.
LEMMA Begins ==
  ASSUME ElectionInv, ElectionTypes', NEW b \in Bots, NoteElection(b),
         \A c \in Bots \ {b} : Electing(c)' => Electing(c),
         overlapped \/ Listeners' = {}
  PROVE  ElectionInv'
<1>1. CASE overlapped'
  BY <1>1 DEF ElectionInv
<1>2. CASE ~overlapped'
  <2>1. ~overlapped /\ \A c \in Bots \ {b} : ~Electing(c)
    BY <1>2 DEF NoteElection
  <2>2. Listeners' = {} /\ \A c \in Bots \ {b} : ~Electing(c)'
    BY <2>1
  <2> QED BY <2>2 DEF ElectionInv, OneElection
<1> QED BY <1>1, <1>2

\* A bot that elected itself listens.
LEMMA Listens ==
  ASSUME ElectionInv, ElectionTypes', NEW b \in Bots, Electing(b),
         Listeners' \subseteq Listeners \cup {b},
         \A c \in Bots : Electing(c)' => Electing(c), overlapped' = overlapped
  PROVE  ElectionInv'
<1>1. CASE overlapped
  BY <1>1 DEF ElectionInv
<1>2. CASE ~overlapped
  <2>1. Listeners' \subseteq {b} /\ \A c \in Bots : Electing(c)' => c = b
    BY <1>2 DEF ElectionInv, OneElection
  <2> QED BY <2>1 DEF ElectionInv, OneElection
<1> QED BY <1>1, <1>2

----------------------------------------------------------------------------
(* Each action is of one kind. *)

LEMMA StartKeeps ==
  ASSUME ElectionInv, NEW b \in Bots, Start(b)
  PROVE  ElectionInv'
<1>1. row' \in [Bots -> Row] /\ Listeners' \subseteq Listeners
  BY ListenersWritten, BotsAssumption DEF Start, ElectionInv
<1>2. ElectionTypes'
  BY <1>1 DEF Start, ElectionInv, ElectionTypes
<1>3. \A c \in Bots : Electing(c)' => Electing(c)
  BY DEF Start, Electing, ElectionInv, ElectionTypes
<1> QED BY <1>1, <1>2, <1>3, Quiet DEF Start

LEMMA ElectKeeps ==
  ASSUME ElectionInv, NEW b \in Bots, Elect(b)
  PROVE  ElectionInv'
<1>1. Listeners' = Listeners
  BY DEF Elect, Listeners
<1>2. ElectionTypes'
  BY DEF Elect, ElectionInv, ElectionTypes
<1>3. \A c \in Bots \ {b} : Electing(c)' => Electing(c)
  BY DEF Elect, Electing, ElectionInv, ElectionTypes
<1>4. CASE Listeners = {}
  BY <1>1, <1>2, <1>3, <1>4, Begins DEF Elect
<1>5. CASE Listeners # {}
  <2>1. Electing(b)' => Electing(b)
    BY <1>5 DEF Elect, Electing, ElectionInv, ElectionTypes
  <2> QED BY <1>1, <1>2, <1>3, <1>5, <2>1, Quiet DEF Elect
<1> QED BY <1>4, <1>5

LEMMA BecomeListenerKeeps ==
  ASSUME ElectionInv, NEW b \in Bots, BecomeListener(b)
  PROVE  ElectionInv'
<1>1. row' \in [Bots -> Row] /\ Listeners' \subseteq Listeners \cup {b}
  BY ListenersWritten DEF BecomeListener, Listen, ElectionInv, ElectionTypes, Row
<1>2. ElectionTypes'
  BY <1>1 DEF BecomeListener, ElectionInv, ElectionTypes
<1>3. Electing(b) /\ \A c \in Bots : Electing(c)' => Electing(c)
  BY DEF BecomeListener, Electing, ElectionInv, ElectionTypes
<1> QED BY <1>1, <1>2, <1>3, Listens DEF BecomeListener

LEMMA TakeStatusNoticeKeeps ==
  ASSUME ElectionInv, NEW b \in Bots, TakeStatusNotice(b)
  PROVE  ElectionInv'
<1>1. Listeners' = Listeners
  BY DEF TakeStatusNotice, Listeners
<1>2. ElectionTypes'
  BY DEF TakeStatusNotice, ElectionInv, ElectionTypes
<1>3. \A c \in Bots : Electing(c)' => Electing(c)
  BY DEF TakeStatusNotice, Electing, ElectionInv, ElectionTypes
<1> QED BY <1>1, <1>2, <1>3, Quiet DEF TakeStatusNotice

LEMMA GoneKeeps ==
  ASSUME ElectionInv, NEW b \in Bots, Disconnect(b) \/ BotCrash(b)
  PROVE  ElectionInv'
<1>1. row' \in [Bots -> Row] /\ Listeners' \subseteq Listeners
  <2>1. CASE Disconnect(b)
    BY <2>1, ListenersWritten DEF Disconnect, ElectionInv, ElectionTypes, Row
  <2>2. CASE BotCrash(b)
    BY <2>2 DEF BotCrash, ElectionInv, ElectionTypes, Listeners
  <2> QED BY <2>1, <2>2
<1> DEFINE none == [m \in Messages |-> NoTask]
<1>2. none \in [Messages -> Task] /\ \A m \in Messages : none[m].pc = "none"
  BY DEF NoTask, Task, TaskPc
<1>3. task' = [task EXCEPT ![b] = none] /\ election' = [election EXCEPT ![b] = "no"]
  BY DEF Disconnect, BotCrash, Gone
<1> HIDE DEF none
<1>4. ElectionTypes'
  BY <1>1, <1>2, <1>3 DEF ElectionInv, ElectionTypes
<1>5. \A c \in Bots : Electing(c)' => Electing(c)
  BY <1>2, <1>3 DEF Electing, ElectionInv, ElectionTypes
<1> QED BY <1>1, <1>4, <1>5, Quiet DEF Disconnect, BotCrash

LEMMA SendMessageKeeps ==
  ASSUME ElectionInv, SendMessage
  PROVE  ElectionInv'
<1>1. Listeners' = Listeners
  BY DEF SendMessage, Listeners
<1>2. \A b \in Bots, m \in Messages :
        task'[b][m] = task[b][m] \/ task'[b][m] = [task[b][m] EXCEPT !.pc = "delivered"]
  <2>1. ASSUME NEW b \in Bots
        PROVE  task'[b] = IF Up(b) THEN [task[b] EXCEPT ![sent + 1].pc = "delivered"] ELSE task[b]
    BY DEF SendMessage
  <2>2. ASSUME NEW b \in Bots, NEW m \in Messages,
               task'[b] = [task[b] EXCEPT ![sent + 1].pc = "delivered"]
        PROVE  \/ task'[b][m] = task[b][m]
               \/ task'[b][m] = [task[b][m] EXCEPT !.pc = "delivered"]
    BY <2>2 DEF ElectionInv, ElectionTypes
  <2> QED BY <2>1, <2>2
<1>3. \A b \in Bots, m \in Messages :
        task'[b][m] \in Task /\ (task'[b][m].pc \in {"claim", "replace"} =>
                                   task[b][m].pc \in {"claim", "replace"})
  <2>1. ASSUME NEW t \in Task
        PROVE  /\ [t EXCEPT !.pc = "delivered"] \in Task
               /\ [t EXCEPT !.pc = "delivered"].pc = "delivered"
    BY DEF Task, TaskPc
  <2>2. ASSUME NEW b \in Bots, NEW m \in Messages PROVE task[b][m] \in Task
    BY DEF ElectionInv, ElectionTypes
  <2>3. ASSUME NEW b \in Bots, NEW m \in Messages
        PROVE  /\ task'[b][m] \in Task
               /\ task'[b][m] = task[b][m] \/ task'[b][m].pc = "delivered"
    <3> DEFINE t == task[b][m]
    <3>1. t \in Task /\ (task'[b][m] = t \/ task'[b][m] = [t EXCEPT !.pc = "delivered"])
      BY <1>2, <2>2
    <3> HIDE DEF t
    <3>2. [t EXCEPT !.pc = "delivered"] \in Task /\ [t EXCEPT !.pc = "delivered"].pc = "delivered"
      BY <3>1, <2>1
    <3>3. task'[b][m] \in Task /\ (task'[b][m] = t \/ task'[b][m].pc = "delivered")
      BY <3>1, <3>2
    <3> QED BY <3>3 DEF t
  <2> QED BY <2>3
<1>4. task' \in [Bots -> [Messages -> Task]]
  <2>1. ASSUME NEW b \in Bots PROVE task'[b] \in [Messages -> Task]
    <3>1. \E f \in [Messages -> Task] : task'[b] = f
      <4>1. task'[b] = [m \in Messages |-> task'[b][m]]
        BY DEF SendMessage, ElectionInv, ElectionTypes
      <4> QED BY <1>3, <4>1
    <3> QED BY <3>1
  <2> QED BY <2>1 DEF SendMessage
<1>5. ElectionTypes'
  BY <1>4 DEF SendMessage, ElectionInv, ElectionTypes
<1>6. \A b \in Bots : Electing(b)' => Electing(b)
  BY <1>3 DEF SendMessage, Electing
<1> QED BY <1>1, <1>5, <1>6, Quiet DEF SendMessage

\* The steps about a message that write nothing but the task.
LEMMA TaskKeeps ==
  ASSUME ElectionInv, NEW b \in Bots, NEW m \in Messages,
         NEW pc \in TaskPc \ {"claim", "replace"}, TaskWritten(b, m, pc),
         row' \in [Bots -> Row], Listeners' \subseteq Listeners,
         UNCHANGED <<election, overlapped>>
  PROVE  ElectionInv'
<1>1. ElectionTypes'
  BY DEF ElectionInv, ElectionTypes, TaskWritten
<1>2. \A c \in Bots : Electing(c)' => Electing(c)
  BY TaskElects DEF ElectionInv
<1> QED BY <1>1, <1>2, Quiet

LEMMA MessageKeeps ==
  ASSUME ElectionInv, NEW b \in Bots, NEW m \in Messages,
         Keep(b, m) \/ Run(b, m) \/ ScheduleVerification(b, m)
  PROVE  ElectionInv'
<1>1. row' \in [Bots -> Row] /\ Listeners' = Listeners /\ UNCHANGED <<election, overlapped>>
  BY DEF Keep, Run, ScheduleVerification, ElectionInv, ElectionTypes, Listeners
<1>2. CASE Keep(b, m) \/ Run(b, m)
  <2>1. PICK pc \in {"look up", "done", "notify"} : Do(b, m, pc)
    BY <1>2 DEF Keep, Run
  <2>2. pc \in TaskPc \ {"claim", "replace"}
    BY DEF TaskPc
  <2>3. TaskWritten(b, m, pc)
    BY <2>1, <2>2, TaskDone DEF ElectionInv
  <2> QED BY <1>1, <2>2, <2>3, TaskKeeps
<1>3. CASE ScheduleVerification(b, m)
  <2>1. PICK c \in Bots \cup {Nobody} :
          task' = [task EXCEPT ![b][m] = [pc |-> "scheduled", listener |-> c]]
    BY <1>3 DEF ScheduleVerification, Listeners
  <2>2. "scheduled" \in TaskPc \ {"claim", "replace"}
    BY DEF TaskPc
  <2>3. TaskWritten(b, m, "scheduled")
    BY <2>1, <2>2, TaskSet DEF ElectionInv
  <2> QED BY <1>1, <2>2, <2>3, TaskKeeps
<1> QED BY <1>2, <1>3

LEMMA NotifyKeeps ==
  ASSUME ElectionInv, NEW b \in Bots, NEW m \in Messages, Notify(b, m)
  PROVE  ElectionInv'
<1>1. row[b].status \in {"none", "connected", "listening", "disconnected"} /\ m \in 0..MaxMessages
  BY BotsAssumption DEF ElectionInv, ElectionTypes, Row, Messages
<1>2. row' \in [Bots -> Row] /\ Listeners' = Listeners
  BY <1>1, ListenersWritten DEF Notify, ElectionInv
<1>3. "done" \in TaskPc \ {"claim", "replace"}
  BY DEF TaskPc
<1>4. TaskWritten(b, m, "done")
  BY <1>3, TaskDone DEF Notify, ElectionInv
<1> QED BY <1>2, <1>3, <1>4, TaskKeeps DEF Notify

LEMMA TakeMessageNoticeKeeps ==
  ASSUME ElectionInv, NEW b \in Bots, NEW m \in Messages, TakeMessageNotice(b, m)
  PROVE  ElectionInv'
<1>1. row' \in [Bots -> Row] /\ Listeners' = Listeners /\ UNCHANGED <<election, overlapped>>
  BY DEF TakeMessageNotice, ElectionInv, ElectionTypes, Listeners
<1>2. CASE Do(b, m, "done")
  <2>1. "done" \in TaskPc \ {"claim", "replace"}
    BY DEF TaskPc
  <2>2. TaskWritten(b, m, "done")
    BY <1>2, <2>1, TaskDone DEF ElectionInv
  <2> QED BY <1>1, <2>1, <2>2, TaskKeeps
<1>3. CASE UNCHANGED task
  <2>1. ElectionTypes' /\ \A c \in Bots : Electing(c)' => Electing(c)
    BY <1>1, <1>3 DEF ElectionInv, ElectionTypes, Electing
  <2> QED BY <1>1, <2>1, Quiet
<1> QED BY <1>2, <1>3 DEF TakeMessageNotice

LEMMA VerifyKeeps ==
  ASSUME ElectionInv, NEW b \in Bots, NEW m \in Messages, Verify(b, m)
  PROVE  ElectionInv'
<1>1. row' \in [Bots -> Row] /\ Listeners' = Listeners /\ UNCHANGED <<election, overlapped>>
  BY DEF Verify, ElectionInv, ElectionTypes, Listeners
<1>2. \/ task' = [task EXCEPT ![b][m].pc = "elect"]
      \/ \E pc \in {"done", "delivered"} : Do(b, m, pc)
  BY DEF Verify
<1>3. {"elect", "done", "delivered"} \subseteq TaskPc \ {"claim", "replace"}
  BY DEF TaskPc
<1>4. CASE \E pc \in {"done", "delivered"} : Do(b, m, pc)
  BY <1>1, <1>3, <1>4, TaskDone, TaskKeeps DEF ElectionInv
<1>5. CASE task' = [task EXCEPT ![b][m].pc = "elect"]
  <2>1. task[b][m] \in Task
    BY DEF ElectionInv, ElectionTypes
  <2> DEFINE c == task[b][m].listener
  <2>2. c \in Bots \cup {Nobody} /\ [task[b][m] EXCEPT !.pc = "elect"] = [pc |-> "elect", listener |-> c]
    BY <2>1 DEF Task
  <2>3. task' = [task EXCEPT ![b][m] = [pc |-> "elect", listener |-> c]]
    BY <1>5, <2>2
  <2> HIDE DEF c
  <2>4. TaskWritten(b, m, "elect")
    BY <1>3, <2>2, <2>3, TaskSet DEF ElectionInv
  <2> QED BY <1>1, <1>3, <2>4, TaskKeeps
<1> QED BY <1>2, <1>4, <1>5

\* A takeover begins when nobody listens, or makes the listener disconnect.
LEMMA TakeOverKeeps ==
  ASSUME ElectionInv, NEW b \in Bots, NEW m \in Messages, TakeOver(b, m)
  PROVE  ElectionInv'
<1> DEFINE previous == task[b][m].listener
<1>1. previous \in Bots \cup {Nobody} /\ Listeners \subseteq Bots /\ election' = election
  BY DEF TakeOver, ElectionInv, ElectionTypes, Task, Listeners
<1>2. {"claim", "replace", "look up"} \subseteq TaskPc
  BY DEF TaskPc
<1>3. CASE Do(b, m, "look up") /\ UNCHANGED <<row, overlapped>>
  <2>1. TaskWritten(b, m, "look up")
    BY <1>2, <1>3, TaskDone DEF ElectionInv
  <2>2. row' \in [Bots -> Row] /\ Listeners' = Listeners
    BY <1>3 DEF ElectionInv, ElectionTypes, Listeners
  <2> QED BY <1>1, <1>2, <1>3, <2>1, <2>2, TaskKeeps
<1>4. CASE Do(b, m, "claim") /\ NoteElection(b) /\ UNCHANGED row /\ Listeners = {}
  <2>1. TaskWritten(b, m, "claim")
    BY <1>2, <1>4, TaskDone DEF ElectionInv
  <2>2. ElectionTypes' /\ Listeners' = {}
    BY <1>1, <1>4, <2>1 DEF ElectionInv, ElectionTypes, Listeners, TaskWritten
  <2>3. \A c \in Bots \ {b} : Electing(c)' => Electing(c)
    BY <1>1, <1>2, <2>1, TaskElects DEF ElectionInv
  <2> QED BY <1>4, <2>2, <2>3, Begins
<1>5. CASE /\ previous \in Listeners /\ Do(b, m, "replace") /\ NoteElection(b)
           /\ UpdateRow(previous, "disconnected", row[previous].last)
  <2>1. TaskWritten(b, m, "replace")
    BY <1>2, <1>5, TaskDone DEF ElectionInv
  <2>2. previous \in Bots /\ row[previous].last \in 0..MaxMessages
    BY <1>1, <1>5 DEF ElectionInv, ElectionTypes, Row
  <2> HIDE DEF previous
  <2>3. row' \in [Bots -> Row] /\ Listeners' = Listeners \ {previous}
    BY <1>5, <2>2, ListenersWritten DEF ElectionInv
  <2>4. overlapped \/ Listeners' = {}
    BY <1>5, <2>3 DEF ElectionInv, OneElection
  <2>5. ElectionTypes'
    BY <1>1, <2>1, <2>3 DEF ElectionInv, ElectionTypes, TaskWritten
  <2>6. \A c \in Bots \ {b} : Electing(c)' => Electing(c)
    BY <1>1, <1>2, <2>1, TaskElects DEF ElectionInv
  <2> QED BY <1>5, <2>4, <2>5, <2>6, Begins
<1> QED BY <1>3, <1>4, <1>5 DEF TakeOver

LEMMA TakenOverKeeps ==
  ASSUME ElectionInv, NEW b \in Bots, NEW m \in Messages, TakenOver(b, m)
  PROVE  ElectionInv'
<1>1. row' \in [Bots -> Row] /\ Listeners' \subseteq Listeners \cup {b}
  BY ListenersWritten DEF TakenOver, Listen, ElectionInv, ElectionTypes, Row
<1>2. "delivered" \in TaskPc
  BY DEF TaskPc
<1>3. TaskWritten(b, m, "delivered")
  BY <1>2, TaskDone DEF TakenOver, ElectionInv
<1>4. ElectionTypes'
  BY <1>1, <1>3 DEF TakenOver, ElectionInv, ElectionTypes, TaskWritten
<1>5. \A c \in Bots : Electing(c)' => Electing(c)
  BY <1>2, <1>3, TaskElects DEF TakenOver, ElectionInv
<1>6. Electing(b)
  BY DEF TakenOver, Electing
<1> QED BY <1>1, <1>4, <1>5, <1>6, Listens DEF TakenOver

----------------------------------------------------------------------------

LEMMA ElectionInit == BotsInit => ElectionInv
<1> SUFFICES ASSUME BotsInit PROVE ElectionInv
  OBVIOUS
<1>1. ElectionTypes
  BY BotsAssumption DEF BotsInit, ElectionTypes, Row, Task, TaskPc, NoTask
<1>2. Listeners = {} /\ \A b \in Bots : ~Electing(b)
  BY DEF BotsInit, Listeners, Electing, NoTask
<1> QED BY <1>1, <1>2 DEF ElectionInv, OneElection

LEMMA ElectionStep == ElectionInv /\ [BotsNext]_botVars => ElectionInv'
<1> SUFFICES ASSUME ElectionInv, [BotsNext]_botVars PROVE ElectionInv'
  OBVIOUS
<1>1. CASE UNCHANGED botVars
  BY <1>1 DEF botVars, ElectionInv, ElectionTypes, OneElection, Electing, Listeners
<1>2. ASSUME NEW b \in Bots, Start(b) \/ Disconnect(b) \/ BotCrash(b) \/ BotStep(b)
      PROVE  ElectionInv'
  BY <1>2, StartKeeps, GoneKeeps, ElectKeeps, BecomeListenerKeeps, TakeStatusNoticeKeeps
  DEF BotStep
<1>3. ASSUME NEW b \in Bots, NEW m \in Messages, TaskStep(b, m) \/ TakeMessageNotice(b, m)
      PROVE  ElectionInv'
  BY <1>3, MessageKeeps, NotifyKeeps, TakeMessageNoticeKeeps, VerifyKeeps, TakeOverKeeps,
     TakenOverKeeps
  DEF TaskStep
<1> QED BY <1>1, <1>2, <1>3, SendMessageKeeps DEF BotsNext

\* Among any number of bots, at most one row is listening as long as no two bots
\* were electing themselves at a time: each election and each takeover alone leaves
\* one listener, also when bots crash, disconnect and start.
THEOREM OneListener == BotsSpec => []OneListenerUnlessOverlap
<1>1. ElectionInv => OneListenerUnlessOverlap
  BY DEF ElectionInv, OneElection, OneListenerUnlessOverlap
<1> QED BY <1>1, ElectionInit, ElectionStep, PTL DEF BotsSpec

----------------------------------------------------------------------------
(* A message is run at most once by each bot that has been listening. *)

RunTypes ==
  /\ local \in [Bots -> {"new", "connected", "listening", "down"}]
  /\ ran \in [Messages -> Nat] /\ sent \in 0..MaxMessages
  /\ listened \subseteq Bots /\ IsFiniteSet(listened)

\* Bots that are gone do nothing; a message is not known before it is sent.
Lively ==
  /\ \A b \in Bots : local[b] = "listening" => b \in listened
  /\ \A b \in Bots : local[b] = "down" => election[b] = "no"
  /\ \A b \in Bots, m \in Messages : task[b][m].pc # "none" => local[b] # "down" /\ m <= sent

\* The bots that may have run a message: it is behind them, or they are gone.
Ended == {"notify", "done"}
MayHaveRun(m) ==
  {b \in listened : local[b] = "down" \/ task[b][m].pc \in Ended}
Counted == \A m \in Messages : ran[m] <= Cardinality(MayHaveRun(m))

RunInv == RunTypes /\ Lively /\ Counted

LEMMA MayHaveRunFinite ==
  ASSUME RunInv, NEW m
  PROVE  /\ IsFiniteSet(MayHaveRun(m)) /\ Cardinality(MayHaveRun(m)) \in Nat
         /\ Cardinality(MayHaveRun(m)) <= Cardinality(listened)
         /\ Cardinality(listened) \in Nat
<1>1. MayHaveRun(m) \in SUBSET listened /\ IsFiniteSet(listened)
  BY DEF MayHaveRun, RunInv, RunTypes
<1>2. IsFiniteSet(MayHaveRun(m)) /\ Cardinality(MayHaveRun(m)) <= Cardinality(listened)
  BY <1>1, FS_Subset
<1> QED BY <1>1, <1>2, FS_CardinalityType

LEMMA AtMostTrans ==
  ASSUME NEW i \in Nat, NEW j \in Nat, NEW k \in Nat, i <= j, j <= k
  PROVE  i <= k
  OBVIOUS

\* Nothing is run, and what is behind a bot stays behind it.
LEMMA NoRun ==
  ASSUME RunInv, RunTypes', Lively', ran' = ran, listened \subseteq listened',
         \A b \in Bots : local[b] = "down" => local'[b] = "down",
         \A b \in Bots, m \in Messages :
           task[b][m].pc \in Ended => task'[b][m].pc \in Ended \/ local'[b] = "down"
  PROVE  RunInv'
<1>1. ASSUME NEW m \in Messages PROVE ran'[m] <= Cardinality(MayHaveRun(m)')
  <2>1. MayHaveRun(m) \in SUBSET (MayHaveRun(m)')
    BY DEF RunInv, RunTypes, MayHaveRun
  <2>2. IsFiniteSet(MayHaveRun(m)')
    <3>1. MayHaveRun(m)' \in SUBSET listened' /\ IsFiniteSet(listened')
      BY DEF MayHaveRun, RunTypes
    <3> QED BY <3>1, FS_Subset
  <2>3. /\ Cardinality(MayHaveRun(m)) <= Cardinality(MayHaveRun(m)')
        /\ Cardinality(MayHaveRun(m)') \in Nat /\ Cardinality(MayHaveRun(m)) \in Nat
    <3> DEFINE S == MayHaveRun(m) T == MayHaveRun(m)'
    <3>1. S \in SUBSET T /\ IsFiniteSet(T)
      BY <2>1, <2>2
    <3> HIDE DEF S, T
    <3>2. Cardinality(S) <= Cardinality(T) /\ IsFiniteSet(S)
      BY <3>1, FS_Subset
    <3>3. Cardinality(S) \in Nat /\ Cardinality(T) \in Nat
      BY <3>1, <3>2, FS_CardinalityType
    <3> QED BY <3>2, <3>3 DEF S, T
  <2>4. ran[m] <= Cardinality(MayHaveRun(m)) /\ ran[m] \in Nat
    BY DEF RunInv, RunTypes, Counted
  <2>5. ran[m] <= Cardinality(MayHaveRun(m)')
    BY <2>3, <2>4, AtMostTrans
  <2> QED BY <2>5
<1>2. Counted'
  BY <1>1 DEF Counted
<1> QED BY <1>2 DEF RunInv

\* A step about a message, which the bot has already; it may listen by it.
LEMMA TaskRuns ==
  ASSUME RunInv, ElectionTypes, NEW b \in Bots, NEW m \in Messages, NEW pc \in TaskPc, TaskWritten(b, m, pc),
         task[b][m].pc # "none", task[b][m].pc \in Ended => pc \in Ended,
         UNCHANGED <<election, sent, ran>>,
         \/ UNCHANGED <<local, listened>>
         \/ local' = [local EXCEPT ![b] = "listening"] /\ listened' = listened \cup {b}
  PROVE  RunInv'
<1>1. /\ RunTypes'
      /\ \A c \in Bots : local'[c] = local[c] \/ (c = b /\ local'[c] = "listening")
      /\ listened \subseteq listened'
      /\ \A c \in Bots : local'[c] = "listening" => c \in listened'
  <2>1. CASE UNCHANGED <<local, listened>>
    BY <2>1 DEF RunInv, RunTypes, Lively
  <2>2. CASE local' = [local EXCEPT ![b] = "listening"] /\ listened' = listened \cup {b}
    <3>1. IsFiniteSet(listened')
      BY <2>2, FS_AddElement DEF RunInv, RunTypes
    <3> QED BY <2>2, <3>1 DEF RunInv, RunTypes, Lively
  <2> QED BY <2>1, <2>2
<1>2. local[b] # "down" /\ m <= sent
  BY DEF RunInv, Lively
<1>3. Lively'
  <2>1. \A c \in Bots : local'[c] = "down" => election'[c] = "no"
    BY <1>1 DEF RunInv, Lively
  <2>2. ASSUME NEW c \in Bots, NEW n \in Messages, task'[c][n].pc # "none"
        PROVE  local'[c] # "down" /\ n <= sent'
    <3>1. CASE c = b /\ n = m
      BY <1>1, <1>2, <3>1
    <3>2. CASE c # b \/ n # m
      <4>1. task'[c][n] = task[c][n]
        BY <3>2 DEF TaskWritten
      <4> QED BY <1>1, <2>2, <4>1 DEF RunInv, Lively
    <3> QED BY <3>1, <3>2
  <2> QED BY <1>1, <2>1, <2>2 DEF Lively
<1>4. \A c \in Bots : local[c] = "down" => local'[c] = "down"
  BY <1>1, <1>2
<1>5. \A c \in Bots, n \in Messages : task[c][n].pc \in Ended => task'[c][n].pc \in Ended
  BY DEF TaskWritten
<1> QED BY <1>1, <1>3, <1>4, <1>5, NoRun

\* A step that is about no message.
LEMMA BotRuns ==
  ASSUME RunInv, UNCHANGED <<task, sent, ran>>, RunTypes',
         listened \subseteq listened', \A b \in Bots : local'[b] = "listening" => b \in listened',
         \A b \in Bots : local[b] = "down" <=> local'[b] = "down",
         \A b \in Bots : local'[b] = "down" => election'[b] = "no"
  PROVE  RunInv'
<1>1. Lively'
  BY DEF RunInv, Lively
<1> QED BY <1>1, NoRun

LEMMA BotStepRuns ==
  ASSUME RunInv, ElectionTypes, NEW b \in Bots, Start(b) \/ BotStep(b)
  PROVE  RunInv'
<1>1. election \in [Bots -> {"no", "elect", "claim"}] /\ local \in [Bots -> {"new", "connected", "listening", "down"}]
  BY DEF ElectionTypes, RunInv, RunTypes
<1>2. CASE Start(b)
  <2>1. /\ local[b] = "new" /\ local' = [local EXCEPT ![b] = "connected"]
        /\ election' = [election EXCEPT ![b] = "elect"] /\ UNCHANGED <<task, sent, ran, listened>>
    BY <1>2 DEF Start
  <2>2. RunTypes'
    BY <2>1 DEF RunInv, RunTypes
  <2> QED BY <1>1, <2>1, <2>2, BotRuns DEF RunInv, Lively
<1>3. CASE Elect(b) \/ TakeStatusNotice(b)
  <2>1. /\ UNCHANGED <<local, task, sent, ran, listened>>
        /\ local[b] # "down" /\ \A c \in Bots \ {b} : election'[c] = election[c]
    BY <1>1, <1>3 DEF Elect, TakeStatusNotice, Up, RunInv, Lively
  <2>2. RunTypes'
    BY <2>1 DEF RunInv, RunTypes
  <2> QED BY <1>1, <2>1, <2>2, BotRuns DEF RunInv, Lively
<1>4. CASE BecomeListener(b)
  <2>1. /\ local[b] # "down" /\ local' = [local EXCEPT ![b] = "listening"]
        /\ listened' = listened \cup {b} /\ election' = [election EXCEPT ![b] = "no"]
        /\ UNCHANGED <<task, sent, ran>>
    BY <1>4 DEF BecomeListener, Listen, RunInv, Lively
  <2>2. RunTypes'
    BY <2>1, FS_AddElement DEF RunInv, RunTypes
  <2> QED BY <1>1, <2>1, <2>2, BotRuns DEF RunInv, Lively
<1> QED BY <1>2, <1>3, <1>4 DEF BotStep

\* A bot that goes takes along what it may have run, and stays in the count.
LEMMA GoneRuns ==
  ASSUME RunInv, ElectionTypes, NEW b \in Bots, Disconnect(b) \/ BotCrash(b)
  PROVE  RunInv'
<1> DEFINE none == [m \in Messages |-> NoTask]
<1>1. /\ local' = [local EXCEPT ![b] = "down"] /\ election' = [election EXCEPT ![b] = "no"]
      /\ task' = [task EXCEPT ![b] = none] /\ UNCHANGED <<sent, ran, listened>>
  BY DEF Disconnect, BotCrash, Gone
<1>2. \A m \in Messages : none[m].pc = "none"
  BY DEF NoTask
<1> HIDE DEF none
<1>3. RunTypes'
  BY <1>1 DEF RunInv, RunTypes
<1>4. \A c \in Bots : \/ c = b /\ local'[c] = "down" /\ election'[c] = "no" /\ task'[c] = none
                      \/ c # b /\ local'[c] = local[c] /\ election'[c] = election[c]
                         /\ task'[c] = task[c]
  BY <1>1 DEF RunInv, RunTypes, ElectionTypes
<1>5. Lively'
  BY <1>1, <1>2, <1>4 DEF RunInv, Lively
<1>6. /\ \A c \in Bots : local[c] = "down" => local'[c] = "down"
      /\ \A c \in Bots, m \in Messages :
           task[c][m].pc \in Ended => task'[c][m].pc \in Ended \/ local'[c] = "down"
  BY <1>4
<1> QED BY <1>1, <1>3, <1>5, <1>6, NoRun

LEMMA SendMessageRuns ==
  ASSUME RunInv, ElectionTypes, SendMessage
  PROVE  RunInv'
<1>1. sent \in Nat /\ sent + 1 \in 0..MaxMessages /\ sent' = sent + 1
      /\ UNCHANGED <<local, election, ran, listened>>
  BY BotsAssumption DEF SendMessage, RunInv, RunTypes, BotsAssumption
<1>2. ASSUME NEW b \in Bots, NEW m \in Messages
      PROVE  task'[b][m] = task[b][m] \/ (m = sent + 1 /\ Up(b) /\ task[b][m].pc = "none")
  <2>1. task'[b] = IF Up(b) THEN [task[b] EXCEPT ![sent + 1].pc = "delivered"] ELSE task[b]
    BY DEF SendMessage
  <2>2. task[b] \in [Messages -> Task]
    BY DEF ElectionTypes
  <2>3. CASE ~Up(b) \/ m # sent + 1
    BY <2>1, <2>2, <2>3
  <2>4. CASE Up(b) /\ m = sent + 1
    <3>1. ~(m <= sent)
      BY <1>1, <2>4
    <3> QED BY <2>4, <3>1 DEF RunInv, Lively
  <2> QED BY <2>3, <2>4
<1>3. RunTypes'
  BY <1>1 DEF RunInv, RunTypes
<1>4. Lively'
  <2>1. ASSUME NEW b \in Bots, NEW m \in Messages, task'[b][m].pc # "none"
        PROVE  local'[b] # "down" /\ m <= sent'
    <3>1. CASE task'[b][m] = task[b][m]
      <4>1. local[b] # "down" /\ m <= sent
        BY <2>1, <3>1 DEF RunInv, Lively
      <4>2. m \in Nat
        BY DEF Messages
      <4> QED BY <1>1, <4>1, <4>2
    <3>2. CASE m = sent + 1 /\ Up(b)
      BY <1>1, <3>2 DEF Up
    <3> QED BY <1>2, <3>1, <3>2
  <2> QED BY <1>1, <2>1 DEF RunInv, Lively
<1>5. \A b \in Bots, m \in Messages : task[b][m].pc \in Ended => task'[b][m].pc \in Ended
  BY <1>2 DEF Ended
<1> QED BY <1>1, <1>3, <1>4, <1>5, NoRun

LEMMA TaskStepRuns ==
  ASSUME RunInv, ElectionTypes, NEW b \in Bots, NEW m \in Messages,
         \/ Keep(b, m) \/ Notify(b, m) \/ ScheduleVerification(b, m) \/ Verify(b, m)
         \/ TakeOver(b, m) \/ TakenOver(b, m) \/ TakeMessageNotice(b, m)
  PROVE  RunInv'
<1>1. CASE TakeMessageNotice(b, m) /\ UNCHANGED task
  <2>1. UNCHANGED <<task, local, election, sent, ran, listened>>
    BY <1>1 DEF TakeMessageNotice
  <2>2. RunTypes'
    BY <2>1 DEF RunInv, RunTypes
  <2> QED BY <2>1, <2>2, BotRuns DEF RunInv, Lively
<1>2. ASSUME ~(TakeMessageNotice(b, m) /\ UNCHANGED task)
      PROVE  /\ task[b][m].pc \notin Ended \ {"notify"} /\ task[b][m].pc # "none"
             /\ UNCHANGED <<election, sent, ran>>
             /\ \/ UNCHANGED <<local, listened>>
                \/ local' = [local EXCEPT ![b] = "listening"] /\ listened' = listened \cup {b}
  BY <1>2 DEF Keep, Notify, ScheduleVerification, Verify, TakeOver, TakenOver, TakeMessageNotice,
     Doing, Listen, Ended
<1>3. ASSUME ~(TakeMessageNotice(b, m) /\ UNCHANGED task)
      PROVE  \E pc \in TaskPc : TaskWritten(b, m, pc) /\ (task[b][m].pc = "notify" => pc = "done")
  <2>0. {"look up", "done", "delivered", "elect", "claim", "replace", "scheduled"} \subseteq TaskPc
    BY DEF TaskPc
  <2>1. CASE \E pc \in TaskPc : Do(b, m, pc) /\ (task[b][m].pc = "notify" => pc = "done")
    BY <2>1, TaskDone
  <2>2. CASE ScheduleVerification(b, m)
    <3>1. PICK c \in Bots \cup {Nobody} :
            task' = [task EXCEPT ![b][m] = [pc |-> "scheduled", listener |-> c]]
      BY <2>2 DEF ScheduleVerification, Listeners
    <3>2. TaskWritten(b, m, "scheduled") /\ task[b][m].pc = "look up"
      BY <2>0, <2>2, <3>1, TaskSet DEF ScheduleVerification, Doing
    <3> QED BY <2>0, <3>2
  <2>3. CASE task[b][m].pc = "scheduled" /\ task' = [task EXCEPT ![b][m].pc = "elect"]
    <3>1. task[b][m] \in Task
      BY DEF ElectionTypes
    <3> DEFINE c == task[b][m].listener
    <3>2. c \in Bots \cup {Nobody} /\ [task[b][m] EXCEPT !.pc = "elect"] = [pc |-> "elect", listener |-> c]
      BY <3>1 DEF Task
    <3>3. task' = [task EXCEPT ![b][m] = [pc |-> "elect", listener |-> c]]
      BY <2>3, <3>2
    <3> HIDE DEF c
    <3>4. TaskWritten(b, m, "elect")
      BY <2>0, <3>2, <3>3, TaskSet
    <3> QED BY <2>0, <2>3, <3>4
  <2>4. ASSUME Keep(b, m) \/ Notify(b, m) \/ TakeOver(b, m) \/ TakenOver(b, m)
               \/ TakeMessageNotice(b, m)
        PROVE  \E pc \in TaskPc : Do(b, m, pc) /\ (task[b][m].pc = "notify" => pc = "done")
    BY <1>3, <2>0, <2>4 DEF Keep, Notify, TakeOver, TakenOver, TakeMessageNotice, Doing
  <2>5. ASSUME Verify(b, m)
        PROVE  \/ \E pc \in TaskPc : Do(b, m, pc) /\ (task[b][m].pc = "notify" => pc = "done")
               \/ task[b][m].pc = "scheduled" /\ task' = [task EXCEPT ![b][m].pc = "elect"]
    BY <2>0, <2>5 DEF Verify, Doing
  <2> QED BY <2>1, <2>2, <2>3, <2>4, <2>5
<1>4. ASSUME ~(TakeMessageNotice(b, m) /\ UNCHANGED task) PROVE RunInv'
  <2>1. PICK pc \in TaskPc : TaskWritten(b, m, pc) /\ (task[b][m].pc = "notify" => pc = "done")
    BY <1>3, <1>4
  <2>2. task[b][m].pc \in Ended => pc \in Ended
    BY <1>2, <1>4, <2>1 DEF Ended
  <2> QED BY <1>2, <1>4, <2>1, <2>2, TaskRuns
<1> QED BY <1>1, <1>4

LEMMA OneMoreAtMost ==
  ASSUME NEW i \in Nat, NEW j \in Nat, i <= j
  PROVE  i + 1 \in Nat /\ i + 1 <= j + 1
  OBVIOUS

\* The bot that runs the message was not counted for it, and is now.
LEMMA RunRuns ==
  ASSUME RunInv, ElectionTypes, NEW b \in Bots, NEW m \in Messages, Run(b, m)
  PROVE  RunInv'
<1>1. /\ task[b][m].pc = "delivered" /\ local[b] = "listening"
      /\ ran' = [ran EXCEPT ![m] = @ + 1]
      /\ UNCHANGED <<local, election, sent, listened>>
  BY DEF Run, Doing
<1>2. PICK pc \in Ended : TaskWritten(b, m, pc)
  <2>1. PICK pc \in Ended : Do(b, m, pc)
    BY DEF Run, Ended
  <2>2. pc \in TaskPc
    BY DEF Ended, TaskPc
  <2> QED BY <2>1, <2>2, TaskDone
<1>3. b \in listened /\ b \notin MayHaveRun(m)
  BY <1>1 DEF RunInv, Lively, MayHaveRun, Ended
<1>4. MayHaveRun(m)' = MayHaveRun(m) \cup {b}
  <2>1. \A c \in Bots \ {b} : task'[c][m] = task[c][m]
    BY <1>2 DEF TaskWritten
  <2>2. task'[b][m].pc \in Ended
    BY <1>2 DEF TaskWritten
  <2> QED BY <1>1, <1>3, <2>1, <2>2 DEF MayHaveRun, RunInv, RunTypes
<1>5. ASSUME NEW n \in Messages, n # m PROVE MayHaveRun(n)' = MayHaveRun(n)
  <2>1. \A c \in Bots : task'[c][n] = task[c][n]
    BY <1>2, <1>5 DEF TaskWritten
  <2> QED BY <1>1, <2>1 DEF MayHaveRun, RunInv, RunTypes
<1>6. Cardinality(MayHaveRun(m)') = Cardinality(MayHaveRun(m)) + 1
  BY <1>3, <1>4, MayHaveRunFinite, FS_AddElement
<1>7. ran[m] \in Nat /\ ran[m] <= Cardinality(MayHaveRun(m)) /\ ran'[m] = ran[m] + 1
      /\ \A n \in Messages \ {m} : ran'[n] = ran[n]
  BY <1>1 DEF RunInv, RunTypes, Counted
<1>8. ran'[m] \in Nat /\ ran'[m] <= Cardinality(MayHaveRun(m)')
  BY <1>6, <1>7, MayHaveRunFinite, OneMoreAtMost
<1>9. Counted'
  <2>1. ASSUME NEW n \in Messages PROVE ran'[n] <= Cardinality(MayHaveRun(n)')
    <3>1. CASE n = m
      BY <1>8, <3>1
    <3>2. CASE n # m
      BY <1>5, <1>7, <3>2 DEF RunInv, Counted
    <3> QED BY <3>1, <3>2
  <2> QED BY <2>1 DEF Counted
<1>10. RunTypes'
  BY <1>1, <1>7, <1>8 DEF RunInv, RunTypes
<1>11. Lively'
  <2>1. ASSUME NEW c \in Bots, NEW n \in Messages, task'[c][n].pc # "none"
        PROVE  local'[c] # "down" /\ n <= sent'
    <3>1. CASE c = b /\ n = m
      BY <1>1, <3>1 DEF RunInv, Lively
    <3>2. CASE c # b \/ n # m
      <4>1. task'[c][n] = task[c][n]
        BY <1>2, <3>2 DEF TaskWritten
      <4> QED BY <1>1, <2>1, <4>1 DEF RunInv, Lively
    <3> QED BY <3>1, <3>2
  <2> QED BY <1>1, <2>1 DEF RunInv, Lively
<1> QED BY <1>9, <1>10, <1>11 DEF RunInv

LEMMA RunInit == BotsInit => RunInv
<1> SUFFICES ASSUME BotsInit PROVE RunInv
  OBVIOUS
<1>1. RunTypes
  BY BotsAssumption, FS_EmptySet DEF BotsInit, RunTypes, BotsAssumption
<1>2. Lively
  BY DEF BotsInit, Lively, NoTask
<1>3. \A m \in Messages : ran[m] = 0 /\ MayHaveRun(m) = {}
  BY DEF BotsInit, MayHaveRun
<1>4. Counted
  BY <1>3, FS_EmptySet DEF Counted
<1> QED BY <1>1, <1>2, <1>4 DEF RunInv

LEMMA RunStep == ElectionInv /\ RunInv /\ [BotsNext]_botVars => RunInv'
<1> SUFFICES ASSUME ElectionTypes, RunInv, [BotsNext]_botVars PROVE RunInv'
  BY DEF ElectionInv
<1>1. CASE UNCHANGED botVars
  <2>1. UNCHANGED <<task, local, election, sent, ran, listened>>
    BY <1>1 DEF botVars
  <2>2. RunTypes'
    BY <2>1 DEF RunInv, RunTypes
  <2> QED BY <2>1, <2>2, BotRuns DEF RunInv, Lively
<1>2. ASSUME NEW b \in Bots, Start(b) \/ Disconnect(b) \/ BotCrash(b) \/ BotStep(b)
      PROVE  RunInv'
  BY <1>2, BotStepRuns, GoneRuns
<1>3. ASSUME NEW b \in Bots, NEW m \in Messages, TaskStep(b, m) \/ TakeMessageNotice(b, m)
      PROVE  RunInv'
  BY <1>3, TaskStepRuns, RunRuns DEF TaskStep
<1> QED BY <1>1, <1>2, <1>3, SendMessageRuns DEF BotsNext

\* A message is run at most once by each bot that has been listening, among any
\* number of bots that overlap, take over, crash and keep messages to verify them.
THEOREM OncePerListener == BotsSpec => []RunOncePerListener
<1>1. RunInv => RunOncePerListener
  <2>1. ASSUME RunInv, NEW m \in Messages PROVE ran[m] <= Cardinality(listened)
    <3>1. ran[m] \in Nat /\ ran[m] <= Cardinality(MayHaveRun(m))
      BY <2>1 DEF RunInv, RunTypes, Counted
    <3> QED BY <2>1, <3>1, MayHaveRunFinite, AtMostTrans
  <2> QED BY <2>1 DEF RunOncePerListener
<1> QED BY <1>1, ElectionInit, ElectionStep, RunInit, RunStep, PTL DEF BotsSpec

----------------------------------------------------------------------------
(* Types.  The election's argument and that of the runs need most of them;  *)
(* a notification on its way is about a message and goes to a bot.          *)

NoticeTypes ==
  /\ statusNotice \subseteq Bots /\ messageNotice \in [Bots -> SUBSET Messages]
  /\ overlapped \in BOOLEAN

\* The trigger announces last_message_id, which is none or a message.
LEMMA RowAnnounced ==
  ASSUME NoticeTypes, NEW b \in Bots, NEW last \in 0..MaxMessages, NEW status,
         UpdateRow(b, status, last)
  PROVE  statusNotice' \subseteq Bots /\ messageNotice' \in [Bots -> SUBSET Messages]
<1>1. last # 0 => last \in Messages
  BY BotsAssumption DEF BotsAssumption, Messages
<1>2. statusNotice' \subseteq Bots
  BY DEF NoticeTypes, UpdateRow
<1>3. \A c \in Bots : messageNotice[c] \subseteq Messages
  BY DEF NoticeTypes
<1> QED BY <1>1, <1>2, <1>3 DEF UpdateRow

LEMMA ElectionNoted ==
  ASSUME NEW b, NoteElection(b), overlapped \in BOOLEAN
  PROVE  overlapped' \in BOOLEAN
BY DEF NoteElection

LEMMA NoticeInit == BotsInit => NoticeTypes
BY DEF BotsInit, NoticeTypes

LEMMA NoticeStep == ElectionInv /\ NoticeTypes /\ [BotsNext]_botVars => NoticeTypes'
<1> SUFFICES ASSUME ElectionTypes, NoticeTypes, [BotsNext]_botVars PROVE NoticeTypes'
  BY DEF ElectionInv
<1> USE DEF noticeVars
<1>1. \A b \in Bots : row[b].last \in 0..MaxMessages
  BY DEF ElectionTypes, Row
<1>2. CASE UNCHANGED botVars
  BY <1>2 DEF botVars, NoticeTypes
<1>3. CASE SendMessage
  BY <1>3 DEF SendMessage, NoticeTypes
<1>4. ASSUME NEW b \in Bots, Start(b) \/ Disconnect(b) \/ BotCrash(b) \/ BotStep(b)
      PROVE  NoticeTypes'
  <2>1. CASE Start(b)
    <3>1. 0 \in 0..MaxMessages
      BY BotsAssumption DEF BotsAssumption
    <3> QED BY <2>1, <3>1, RowAnnounced DEF Start, NoticeTypes
  <2>2. CASE Disconnect(b)
    BY <1>1, <2>2, RowAnnounced DEF Disconnect, NoticeTypes
  <2>3. CASE BotCrash(b)
    BY <2>3 DEF BotCrash, NoticeTypes
  <2>4. CASE Elect(b)
    BY <2>4, ElectionNoted DEF Elect, NoticeTypes
  <2>5. CASE BecomeListener(b)
    BY <1>1, <2>5, RowAnnounced DEF BecomeListener, Listen, NoticeTypes
  <2>6. CASE TakeStatusNotice(b)
    BY <2>6 DEF TakeStatusNotice, NoticeTypes
  <2> QED BY <1>4, <2>1, <2>2, <2>3, <2>4, <2>5, <2>6 DEF BotStep
<1>5. ASSUME NEW b \in Bots, NEW m \in Messages, TaskStep(b, m) \/ TakeMessageNotice(b, m)
      PROVE  NoticeTypes'
  <2>1. CASE Keep(b, m) \/ Run(b, m) \/ ScheduleVerification(b, m) \/ Verify(b, m)
    BY <2>1 DEF Keep, Run, ScheduleVerification, Verify, NoticeTypes
  <2>2. CASE Notify(b, m)
    <3>1. m \in 0..MaxMessages
      BY BotsAssumption DEF BotsAssumption, Messages
    <3> QED BY <2>2, <3>1, RowAnnounced DEF Notify, NoticeTypes
  <2>3. CASE TakeMessageNotice(b, m)
    BY <2>3 DEF TakeMessageNotice, NoticeTypes
  <2>4. CASE TakeOver(b, m)
    <3> DEFINE previous == task[b][m].listener
    <3>1. CASE UNCHANGED noticeVars
      <4>1. overlapped' \in BOOLEAN
        BY <2>4, ElectionNoted DEF TakeOver, NoticeTypes
      <4> QED BY <3>1, <4>1 DEF NoticeTypes
    <3>2. CASE /\ previous \in Listeners /\ NoteElection(b)
               /\ UpdateRow(previous, "disconnected", row[previous].last)
      <4>1. previous \in Bots
        BY <3>2 DEF Listeners
      <4> HIDE DEF previous
      <4>2. row[previous].last \in 0..MaxMessages
        BY <1>1, <4>1
      <4>3. statusNotice' \subseteq Bots /\ messageNotice' \in [Bots -> SUBSET Messages]
        BY <3>2, <4>1, <4>2, RowAnnounced
      <4> QED BY <3>2, <4>3, ElectionNoted DEF NoticeTypes
    <3> QED BY <2>4, <3>1, <3>2 DEF TakeOver
  <2>5. CASE TakenOver(b, m)
    BY <1>1, <2>5, RowAnnounced DEF TakenOver, Listen, NoticeTypes
  <2> QED BY <1>5, <2>1, <2>2, <2>3, <2>4, <2>5 DEF TaskStep
<1> QED BY <1>2, <1>3, <1>4, <1>5 DEF BotsNext

\* Every state of any number of bots has its type: what a row announces is a message
\* that was sent to all, and who is told of a disconnected listener is a bot.
THEOREM BotsTyped == BotsSpec => []BotsTypeOK
<1>1. ElectionInv /\ RunInv /\ NoticeTypes => BotsTypeOK
  BY DEF ElectionInv, ElectionTypes, RunInv, RunTypes, NoticeTypes, BotsTypeOK, Row, Task
<1> QED BY <1>1, ElectionInit, ElectionStep, RunInit, RunStep, NoticeInit, NoticeStep, PTL
        DEF BotsSpec
==============================================================================
