---------------------------- MODULE DesktopShell ----------------------------
(***************************************************************************)
(* The desktop shell (src/trojan-client/src-tauri/src/main.rs): the Tauri  *)
(* commands start and stop, which run one at a time, the async task each   *)
(* start spawns (spawn the wintun sidecar, after a delay the dns sidecar,  *)
(* then watch both until they terminate), the sidecar processes, and the  *)
(* state-update events the window shows.                                   *)
(*                                                                         *)
(* TrojanProxy.wintun / .dns hold the handles the shell can kill; each     *)
(* lock().unwrap() section is one step.  A sidecar may exit by itself at   *)
(* any time and exits after it is killed.                                  *)
(***************************************************************************)
EXTENDS Integers, Sequences, FiniteSets

CONSTANTS
  MaxStarts   \* bound: start commands

ASSUME MaxStarts \in Nat

NoChild == 0   \* Option<CommandChild> = None

VARIABLES
  ui,        \* the last state-update event (TRUE: running)
  wintun,    \* TrojanProxy.wintun: a child or NoChild
  dns,       \* TrojanProxy.dns
  cfgDns,    \* TrojanProxy.config.enable_dns
  children,  \* children[c]: [kind, alive, killed]
  tasks,     \* tasks[t]: [pc, rxs] of the t-th spawned task
  nStarts,   \* start commands so far
  hung,      \* a stop command is blocked holding the TrojanState lock
  lastCmd,   \* history: the last command that took effect
  dnsSet,    \* the adapter's DNS points at a dns sidecar's listener
  exited     \* the quit menu item ended the process

vars == <<ui, wintun, dns, cfgDns, children, tasks, nStarts, hung, lastCmd,
          dnsSet, exited>>

Kill(cs, c) == IF c = NoChild THEN cs ELSE [cs EXCEPT ![c].killed = TRUE]

NewChild(kind) == [kind |-> kind, alive |-> TRUE, killed |-> FALSE]

-----------------------------------------------------------------------------

\* start: save the config (may fail: log only); emit running (the icon
\* update locks the state); store the config; return if a wintun child is
\* held, else spawn the task.
Start ==
  /\ nStarts < MaxStarts /\ ~exited
  /\ nStarts' = nStarts + 1
  /\ \/ UNCHANGED <<ui, cfgDns, tasks, lastCmd>>
     \/ /\ ~hung
        /\ \E en \in BOOLEAN :
             /\ ui' = TRUE
             /\ cfgDns' = en
             /\ lastCmd' = "start"
             /\ tasks' = IF wintun # NoChild THEN tasks
                         ELSE Append(tasks, [pc |-> "spawnWintun", rxs |-> {}])
  /\ UNCHANGED <<wintun, dns, children, hung, dnsSet, exited>>

\* stop, holding the TrojanState guard: take and kill the wintun child if
\* one is held; else call emit_state_update_event, which locks TrojanState
\* again after emitting stopped.  std's Mutex is not reentrant: the call
\* never returns, and the guard is never released.
Stop ==
  /\ ~hung /\ ~exited
  /\ lastCmd' = "stop"
  /\ wintun' = NoChild
  /\ children' = Kill(children, wintun)
  /\ hung' = (wintun = NoChild)
  /\ ui' = (ui /\ wintun # NoChild)
  /\ UNCHANGED <<dns, cfgDns, tasks, nStarts, dnsSet, exited>>

\* The task spawns the wintun sidecar and replaces the held handle with
\* it; a failed spawn emits stopped and ends the task.
SpawnWintun(t) ==
  /\ tasks[t].pc = "spawnWintun" /\ ~hung /\ ~exited
  /\ \/ LET c == Len(children) + 1 IN
          /\ children' = Append(children, NewChild("wintun"))
          /\ wintun' = c
          /\ tasks' = [tasks EXCEPT ![t] = [pc |-> "dnsCheck", rxs |-> {c}]]
          /\ UNCHANGED ui
     \/ /\ ui' = FALSE
        /\ tasks' = [tasks EXCEPT ![t].pc = "done"]
        /\ UNCHANGED <<children, wintun>>
  /\ UNCHANGED <<dns, cfgDns, nStarts, hung, lastCmd, dnsSet, exited>>

\* The task reads config.enable_dns from the shared state; if set it sleeps
\* 10 s before spawning dns, else it starts watching.
DnsCheck(t) ==
  /\ tasks[t].pc = "dnsCheck" /\ ~hung /\ ~exited
  /\ tasks' = [tasks EXCEPT ![t].pc = IF cfgDns THEN "spawnDns" ELSE "monitor"]
  /\ UNCHANGED <<ui, wintun, dns, cfgDns, children, nStarts, hung, lastCmd, dnsSet, exited>>

\* After the sleep: spawn the dns sidecar and replace the held handle; on
\* failure, kill and drop the held wintun child.
SpawnDns(t) ==
  /\ tasks[t].pc = "spawnDns" /\ ~hung /\ ~exited
  /\ \/ LET c == Len(children) + 1 IN
          /\ children' = Append(children, NewChild("dns"))
          /\ dns' = c
          /\ tasks' = [tasks EXCEPT ![t] = [pc |-> "monitor", rxs |-> @.rxs \cup {c}]]
          /\ dnsSet' = TRUE
          /\ UNCHANGED wintun
     \/ /\ children' = Kill(children, wintun)
        /\ wintun' = NoChild
        /\ tasks' = [tasks EXCEPT ![t].pc = "monitor"]
        /\ UNCHANGED <<dns, dnsSet>>
  /\ UNCHANGED <<ui, cfgDns, nStarts, hung, lastCmd, exited>>

\* One Terminated event of a watched child: "wintun" takes the held wintun
\* handle and kills the held dns child; "dns" takes the dns handle and
\* resets the adapter's DNS and kills the held wintun child.  Whatever
\* child the handles hold is taken.
Monitor(t) ==
  /\ tasks[t].pc = "monitor" /\ ~hung /\ ~exited
  /\ \E c \in tasks[t].rxs :
       /\ ~children[c].alive
       /\ tasks' = [tasks EXCEPT ![t].rxs = @ \ {c}]
       /\ wintun' = NoChild
       /\ dns' = NoChild
       /\ children' = IF children[c].kind = "wintun" THEN Kill(children, dns)
                      ELSE Kill(children, wintun)
       /\ dnsSet' = (dnsSet /\ children[c].kind = "wintun")
  /\ UNCHANGED <<ui, cfgDns, nStarts, hung, lastCmd, exited>>

\* Mutant: the task ends without emitting stopped.
TaskEndSilent(t) ==
  /\ tasks[t].pc = "monitor" /\ tasks[t].rxs = {} /\ ~hung /\ ~exited
  /\ tasks' = [tasks EXCEPT ![t].pc = "done"]
  /\ UNCHANGED <<ui, wintun, dns, cfgDns, children, nStarts, hung, lastCmd, dnsSet, exited>>

\* The watch loop ends when every watched child has terminated; the task
\* emits stopped.
TaskEnd(t) ==
  /\ tasks[t].pc = "monitor" /\ tasks[t].rxs = {} /\ ~hung /\ ~exited
  /\ tasks' = [tasks EXCEPT ![t].pc = "done"]
  /\ ui' = FALSE
  /\ UNCHANGED <<wintun, dns, cfgDns, children, nStarts, hung, lastCmd, dnsSet, exited>>

\* The tray's quit item, holding the TrojanState guard: if a dns child is
\* held, reset the adapter's DNS and kill it; kill the held wintun child;
\* exit the process, which ends every task.
Quit ==
  /\ ~hung /\ ~exited
  /\ children' = Kill(Kill(children, dns), wintun)
  /\ dnsSet' = (dnsSet /\ dns = NoChild)
  /\ wintun' = NoChild /\ dns' = NoChild
  /\ exited' = TRUE /\ lastCmd' = "quit"
  /\ UNCHANGED <<ui, cfgDns, tasks, nStarts, hung>>

\* A sidecar process terminates (killed, or by itself).
ChildExit(c) ==
  /\ children[c].alive
  /\ children' = [children EXCEPT ![c].alive = FALSE]
  /\ UNCHANGED <<ui, wintun, dns, cfgDns, tasks, nStarts, hung, lastCmd, dnsSet, exited>>

TaskStep(t) ==
  SpawnWintun(t) \/ DnsCheck(t) \/ SpawnDns(t) \/ Monitor(t) \/ TaskEnd(t)

Init ==
  /\ ui = FALSE
  /\ wintun = NoChild /\ dns = NoChild
  /\ cfgDns = FALSE
  /\ children = <<>> /\ tasks = <<>>
  /\ nStarts = 0
  /\ hung = FALSE
  /\ lastCmd = "none"
  /\ dnsSet = FALSE /\ exited = FALSE

Next ==
  \/ Start \/ Stop \/ Quit
  \/ \E t \in DOMAIN tasks : TaskStep(t)
  \/ \E c \in DOMAIN children : ChildExit(c)

\* The async runtime runs every task that can proceed; a killed process
\* terminates.  A sidecar that is not killed may run forever.
Fairness ==
  /\ \A t \in 1 .. MaxStarts : WF_vars(t \in DOMAIN tasks /\ TaskStep(t))
  /\ \A c \in 1 .. 2 * MaxStarts :
       WF_vars(c \in DOMAIN children /\ children[c].killed /\ ChildExit(c))

Spec == Init /\ [][Next]_vars /\ Fairness

-----------------------------------------------------------------------------
(* Properties                                                              *)

\* Every running sidecar that has not been killed is held by the shell, so
\* stop (or the watch loop) can still kill it: replace and take never drop
\* a live child.
NoOrphan ==
  \A c \in DOMAIN children :
    (children[c].alive /\ ~children[c].killed) => c \in {wintun, dns}

\* When no task is running, the window shows stopped: every task ends by
\* emitting stopped, and a start that spawns no task finds one running.
IdleShowsStopped ==
  (\A t \in DOMAIN tasks : tasks[t].pc = "done") => ~ui

\* Once the process has quit, the adapter's DNS no longer points at a dns
\* sidecar: quit, or the watch loop before it, has reset it.
QuitRestoresDns == exited => ~dnsSet

\* After stop or quit, unless started again, every sidecar eventually
\* terminates and the adapter's DNS no longer points at a dns sidecar.
CleanupCompletes ==
  lastCmd \in {"stop", "quit"} ~>
    \/ lastCmd = "start"
    \/ ~dnsSet /\ \A c \in DOMAIN children : ~children[c].alive
=============================================================================
