----------------------------- MODULE MCPlatform -----------------------------
(***************************************************************************)
(* The services the modules stand on: the mailboxes, timers, thread monitor*)
(* and log of the platform layer, and the two MQTT clients.                *)
(* They share no variable here (the mailboxes of TimerWheel stand for      *)
(* Mailbox, the timer of LogRing for TimerWheel), so that interleaving     *)
(* them shows nothing that each does not show alone: a behaviour picks one *)
(* part and runs it, the others stay where they start.                     *)
(***************************************************************************)
EXTENDS Mailbox, TimerWheel, ThreadMonitor, LogRing, MqttClients

CONSTANTS s1, s2, logModule

VARIABLE part

\* Both timers belong to the log module, as its cycle timer and the one-shot
\* timers of the network task do.
OneModule == [s \in {s1, s2} |-> logModule]

mv == vars
wv == wheelVars
tv == monitorVars
lv == logVars
cv == allVars
platformVars == <<part, mv, wv, tv, lv, cv>>

Parts == {"mailbox", "timers", "monitor", "log", "clients"}

PlatformInit ==
  /\ part \in Parts
  /\ Init /\ WheelInit /\ MonitorInit /\ LogInit
  /\ ClientsInit /\ (part # "clients" => ~broker)

InMailbox(A) == part = "mailbox" /\ A /\ UNCHANGED <<part, wv, tv, lv, cv>>
InTimers(A)  == part = "timers" /\ A /\ UNCHANGED <<part, mv, tv, lv, cv>>
InMonitor(A) == part = "monitor" /\ A /\ UNCHANGED <<part, mv, wv, lv, cv>>
InLog(A)     == part = "log" /\ A /\ UNCHANGED <<part, mv, wv, tv, cv>>
InClients(A) == part = "clients" /\ A /\ UNCHANGED <<part, mv, wv, tv, lv>>

PlatformNext ==
  \/ InMailbox(Next) \/ InTimers(WheelNext) \/ InMonitor(MonitorNext) \/ InLog(LogNext)
  \/ InClients(ClientsNext)

\* The fairness of each part.
PlatformFairness ==
  /\ WF_platformVars(InMailbox(ModuleStep))
  /\ \A s \in Senders : WF_platformVars(InMailbox(SenderStep(s)))
  /\ WF_platformVars(InMonitor(pf_thread_mon_check))
  /\ WF_platformVars(InLog(WriterStep))
  /\ \A t \in Loggers : WF_platformVars(InLog(Format(t)))
  /\ WF_platformVars(InLog(ReaderStep))
  /\ WF_platformVars(InClients(MainLoop /\ UNCHANGED pubVars))
  /\ WF_platformVars(InClients(Client /\ UNCHANGED pubVars))
  /\ WF_platformVars(InClients(Tick /\ UNCHANGED pubVars))
  /\ SF_platformVars(InClients(Connack /\ UNCHANGED pubVars))
  /\ WF_platformVars(InClients(Pub!Entry /\ UNCHANGED subVars))
  /\ WF_platformVars(InClients(Pub!Tick /\ UNCHANGED subVars))
  /\ WF_platformVars(InClients(Pub!ConnectionLost /\ UNCHANGED subVars))

PlatformSpec == PlatformInit /\ [][PlatformNext]_platformVars /\ PlatformFairness

\* Types of all parts, and the lists a timer unit is in: exactly one each.
PlatformTypeOK ==
  TypeOK /\ WheelTypeOK /\ ListsAgree /\ MonitorTypeOK /\ LogTypeOK /\ ClientsTypeOK
=============================================================================
