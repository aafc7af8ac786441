----------------------------- MODULE DiscordBots -----------------------------
(***************************************************************************)
(* Instances of one Discord bot that share a database.  Discord sends each *)
(* message to all of them; only the one that is listening is to run it.    *)
(* The others keep the message and verify later that it was processed; if  *)
(* it was not, they take over from the listener they knew of.  An instance *)
(* (bot_id) starts once; a bot that is started again is another instance.  *)
(*                                                                         *)
(* Each query is a step.  PostgreSQL evaluates the NOT EXISTS of an        *)
(* election on the rows committed when its statement starts, so that the   *)
(* update is a step after it.  A verification may run any time after it    *)
(* was scheduled: its delay says nothing about how slow the others are.    *)
(***************************************************************************)
EXTENDS Integers, FiniteSets

CONSTANTS
  Bots,         \* instances
  MaxMessages,  \* bound: messages sent, numbered by their ids
  Unattended,   \* direct messages that belong to no conversation
  Nobody

ASSUME BotsAssumption ==
  MaxMessages \in Nat /\ Unattended \subseteq Nat /\ Nobody \notin Bots

Messages == 1..MaxMessages

VARIABLES
  row,        \* discord_bots: status and last_message_id (0 for none)
  local,      \* the status that each bot keeps itself
  election,   \* its attempt to listen when it starts or is notified
  task,       \* what each bot is doing about each message
  statusNotice,   \* bots that a discord_bot_status notification is on its way to
  messageNotice,  \* messages in the discord_bot_message_processing ones
  sent,       \* messages sent so far
  ran,        \* how often each message was run, or left as unattended
  listened,   \* bots that have been listening
  overlapped  \* two bots were electing themselves at a time

botVars == <<row, local, election, task, statusNotice, messageNotice, sent, ran, listened,
             overlapped>>
noticeVars == <<statusNotice, messageNotice>>

----------------------------------------------------------------------------

TaskPc == {"none", "delivered", "look up", "scheduled", "elect", "claim", "replace",
           "notify", "done"}

BotsTypeOK ==
  /\ row \in [Bots -> [status: {"none", "connected", "listening", "disconnected"},
                       last: 0..MaxMessages]]
  /\ local \in [Bots -> {"new", "connected", "listening", "down"}]
  /\ election \in [Bots -> {"no", "elect", "claim"}]
  /\ task \in [Bots -> [Messages -> [pc: TaskPc, listener: Bots \cup {Nobody}]]]
  /\ statusNotice \subseteq Bots /\ messageNotice \in [Bots -> SUBSET Messages]
  /\ sent \in 0..MaxMessages /\ ran \in [Messages -> Nat]
  /\ listened \subseteq Bots /\ overlapped \in BOOLEAN

NoTask == [pc |-> "none", listener |-> Nobody]

BotsInit ==
  /\ row = [b \in Bots |-> [status |-> "none", last |-> 0]]
  /\ local = [b \in Bots |-> "new"] /\ election = [b \in Bots |-> "no"]
  /\ task = [b \in Bots |-> [m \in Messages |-> NoTask]]
  /\ statusNotice = {} /\ messageNotice = [b \in Bots |-> {}]
  /\ sent = 0 /\ ran = [m \in Messages |-> 0]
  /\ listened = {} /\ overlapped = FALSE

----------------------------------------------------------------------------

Up(b) == local[b] \in {"connected", "listening"}
Listeners == {b \in Bots : row[b].status = "listening"}

Doing(b, m, pc) == task[b][m].pc = pc
Do(b, m, pc) == task' = [task EXCEPT ![b][m] = [pc |-> pc, listener |-> Nobody]]

\* Between the query by which a bot found that it may listen and the update.
Electing(b) ==
  election[b] = "claim" \/ \E m \in Messages : task[b][m].pc \in {"claim", "replace"}
NoteElection(b) == overlapped' = (overlapped \/ \E c \in Bots \ {b} : Electing(c))

\* An update of a row, and the notifications of its trigger to the bots that do
\* something about them.
UpdateRow(b, status, last) ==
  /\ row' = [row EXCEPT ![b] = [status |-> status, last |-> last]]
  /\ statusNotice' = IF row[b].status = "listening" /\ status = "disconnected"
                     THEN {c \in Bots \ {b} : local[c] = "connected"} \cup statusNotice
                     ELSE statusNotice
  /\ messageNotice' = [c \in Bots |->
       IF last # 0 /\ task[c][last].pc \in {"delivered", "look up", "scheduled", "elect"}
         THEN messageNotice[c] \cup {last} ELSE messageNotice[c]]

Listen(b) ==
  /\ UpdateRow(b, "listening", row[b].last)
  /\ local' = [local EXCEPT ![b] = "listening"] /\ listened' = listened \cup {b}

----------------------------------------------------------------------------
(* Start, election, end. *)

Start(b) ==
  /\ local[b] = "new" /\ local' = [local EXCEPT ![b] = "connected"]
  /\ UpdateRow(b, "connected", 0) /\ election' = [election EXCEPT ![b] = "elect"]
  /\ UNCHANGED <<task, sent, ran, listened, overlapped>>

\* becomeListenerIfNoListenerForThisBotType
Elect(b) ==
  /\ election[b] = "elect"
  /\ election' = [election EXCEPT ![b] = IF Listeners = {} THEN "claim" ELSE "no"]
  /\ IF Listeners = {} THEN NoteElection(b) ELSE UNCHANGED overlapped
  /\ UNCHANGED <<row, local, task, noticeVars, sent, ran, listened>>

BecomeListener(b) ==
  /\ election[b] = "claim" /\ election' = [election EXCEPT ![b] = "no"] /\ Listen(b)
  /\ UNCHANGED <<task, sent, ran, overlapped>>

\* handleBotStatusUpdate
TakeStatusNotice(b) ==
  /\ Up(b) /\ b \in statusNotice /\ statusNotice' = statusNotice \ {b}
  /\ election' = IF local[b] = "connected" /\ election[b] = "no"
                 THEN [election EXCEPT ![b] = "elect"] ELSE election
  /\ UNCHANGED <<row, local, task, messageNotice, sent, ran, listened, overlapped>>

\* The bot is gone, with its timers and the messages it kept.
Gone(b) ==
  /\ Up(b) /\ local' = [local EXCEPT ![b] = "down"]
  /\ election' = [election EXCEPT ![b] = "no"]
  /\ task' = [task EXCEPT ![b] = [m \in Messages |-> NoTask]]
Disconnect(b) ==
  /\ Gone(b) /\ UpdateRow(b, "disconnected", row[b].last)
  /\ UNCHANGED <<sent, ran, listened, overlapped>>
BotCrash(b) ==
  /\ Gone(b) /\ UNCHANGED <<row, noticeVars, sent, ran, listened, overlapped>>

----------------------------------------------------------------------------
(* Messages. *)

SendMessage ==
  /\ sent < MaxMessages /\ sent' = sent + 1
  /\ task' = [b \in Bots |->
       IF Up(b) THEN [task[b] EXCEPT ![sent + 1].pc = "delivered"] ELSE task[b]]
  /\ UNCHANGED <<row, local, election, noticeVars, ran, listened, overlapped>>

\* The message event: a bot that is not listening keeps the message; the listener
\* runs its command, or leaves it, without a word to the others.
Keep(b, m) ==
  /\ Doing(b, m, "delivered") /\ local[b] # "listening" /\ Do(b, m, "look up")
  /\ UNCHANGED <<row, local, election, noticeVars, sent, ran, listened, overlapped>>
RunAnyway(b, m) ==
  /\ Doing(b, m, "delivered") /\ ran' = [ran EXCEPT ![m] = @ + 1] /\ Do(b, m, "notify")
  /\ UNCHANGED <<row, local, election, noticeVars, sent, listened, overlapped>>
Run(b, m) ==
  /\ Doing(b, m, "delivered") /\ local[b] = "listening" /\ ran' = [ran EXCEPT ![m] = @ + 1]
  /\ Do(b, m, IF m \in Unattended THEN "done" ELSE "notify")
  /\ UNCHANGED <<row, local, election, noticeVars, sent, listened, overlapped>>

\* notifyMessageProcessed
Notify(b, m) ==
  /\ Doing(b, m, "notify") /\ Do(b, m, "done")
  /\ UpdateRow(b, row[b].status, m)
  /\ UNCHANGED <<local, election, sent, ran, listened, overlapped>>

\* scheduleVerification: one of the listening rows, if any, and a timer.
ScheduleVerification(b, m) ==
  /\ Doing(b, m, "look up")
  /\ \E c \in IF Listeners = {} THEN {Nobody} ELSE Listeners :
       task' = [task EXCEPT ![b][m] = [pc |-> "scheduled", listener |-> c]]
  /\ UNCHANGED <<row, local, election, noticeVars, sent, ran, listened, overlapped>>

\* handleBotMessageProcessing
TakeMessageNotice(b, m) ==
  /\ Up(b) /\ m \in messageNotice[b]
  /\ messageNotice' = [messageNotice EXCEPT ![b] = @ \ {m}]
  /\ IF Doing(b, m, "scheduled") THEN Do(b, m, "done") ELSE UNCHANGED task
  /\ UNCHANGED <<row, local, election, statusNotice, sent, ran, listened, overlapped>>

\* verifyMessage: the timer takes the message from the queue; the last message of a
\* listening bot may be this one or a later one, ...
Verify(b, m) ==
  /\ Doing(b, m, "scheduled")
  /\ \E last \in IF Listeners = {} THEN {0} ELSE {row[c].last : c \in Listeners} :
       IF last < m /\ local[b] # "listening"
         THEN task' = [task EXCEPT ![b][m].pc = "elect"]
         ELSE Do(b, m, IF m <= last THEN "done" ELSE "delivered")
  /\ UNCHANGED <<row, local, election, noticeVars, sent, ran, listened, overlapped>>

TakeOverBeside(b, m) ==
  /\ Doing(b, m, "elect") /\ task[b][m].listener \in Listeners \cup {Nobody}
  /\ Do(b, m, "replace") /\ NoteElection(b)
  /\ UNCHANGED <<row, noticeVars, local, election, sent, ran, listened>>
TakeOverOnce(b, m) ==
  LET previous == task[b][m].listener IN
  /\ Doing(b, m, "elect")
  /\ \/ /\ previous \in Listeners /\ Do(b, m, "replace") /\ NoteElection(b)
        /\ UpdateRow(previous, "disconnected", row[previous].last)
     \/ /\ previous \notin Listeners /\ Do(b, m, "done")
        /\ UNCHANGED <<row, noticeVars, overlapped>>
  /\ UNCHANGED <<local, election, sent, ran, listened>>

\* ... and otherwise the bot takes over from the listener it had looked up, if that
\* one still listens; it looks for it again if not.
TakeOver(b, m) ==
  LET previous == task[b][m].listener IN
  /\ Doing(b, m, "elect")
  /\ \/ /\ previous = Nobody /\ UNCHANGED <<row, noticeVars>>
        /\ Do(b, m, IF Listeners = {} THEN "claim" ELSE "look up")
        /\ IF Listeners = {} THEN NoteElection(b) ELSE UNCHANGED overlapped
     \/ /\ previous \in Listeners /\ Do(b, m, "replace") /\ NoteElection(b)
        /\ UpdateRow(previous, "disconnected", row[previous].last)
     \/ /\ previous \in Bots \ Listeners /\ Do(b, m, "look up")
        /\ UNCHANGED <<row, noticeVars, overlapped>>
  /\ UNCHANGED <<local, election, sent, ran, listened>>

\* The message is emitted again to the bot, which listens now.
TakenOver(b, m) ==
  /\ task[b][m].pc \in {"claim", "replace"} /\ Do(b, m, "delivered") /\ Listen(b)
  /\ UNCHANGED <<election, sent, ran, overlapped>>

----------------------------------------------------------------------------

TaskStep(b, m) ==
  \/ Keep(b, m) \/ Run(b, m) \/ Notify(b, m) \/ ScheduleVerification(b, m)
  \/ Verify(b, m) \/ TakeOver(b, m) \/ TakenOver(b, m)
BotStep(b) == Elect(b) \/ BecomeListener(b) \/ TakeStatusNotice(b)

BotsNext ==
  \/ SendMessage
  \/ \E b \in Bots :
       \/ Start(b) \/ Disconnect(b) \/ BotCrash(b) \/ BotStep(b)
       \/ \E m \in Messages : TaskStep(b, m) \/ TakeMessageNotice(b, m)

\* Timers run, and Node runs every continuation; nobody has to send a message or to
\* start or stop a bot.
BotsFairness ==
  \A b \in Bots :
    /\ WF_botVars(BotStep(b))
    /\ \A m \in Messages : WF_botVars(TaskStep(b, m)) /\ WF_botVars(TakeMessageNotice(b, m))

BotsSpec == BotsInit /\ [][BotsNext]_botVars
FairBotsSpec == BotsSpec /\ BotsFairness

----------------------------------------------------------------------------
(* Properties. *)

\* Two rows are listening only after two bots were electing themselves at a time:
\* each takeover and each election on its own leaves one (the diagram of
\* multiple-bot-instances-sequence-diagram.md, "I'm LISTENING if no other bot is").
OneListenerUnlessOverlap ==
  overlapped \/ \A b, c \in Listeners : b = c

\* A message is run by bots that have been listening, and by each of them once: one
\* that keeps a message never runs it before it listens itself, and a message that
\* is emitted again is not run twice by the same bot (verifyMessage).
RunOncePerListener == \A m \in Messages : ran[m] <= Cardinality(listened)

\* A message that reached some bots is run, or left by a listener as no business
\* of the bot's, or a later one is, or all of these bots are gone.
NothingForgotten ==
  \A m \in Messages : sent >= m ~>
    \/ \E n \in m..MaxMessages : ran[n] > 0
    \/ \A b \in Bots : task[b][m].pc = "none"
==============================================================================
