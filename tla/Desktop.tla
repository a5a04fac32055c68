------------------------------- MODULE Desktop -------------------------------
(***************************************************************************)
(* The desktop shell (src/desktop/ilink-hub-desktop/src-tauri/src): the    *)
(* controller that starts, stops and restarts the Hub inside the           *)
(* application (lib.rs), and the persisted choice of a port                *)
(* (listen_addr.rs).                                                       *)
(*                                                                         *)
(* Commands of the window run concurrently on a multi-threaded runtime, so *)
(* every critical section is a step.  A hub is one call of spawn_hub_task: *)
(* its run_serve task and the sender of its shutdown channel.  The main    *)
(* thread runs setup to its end before it delivers a command, and runs     *)
(* set_listen_port, which is not async, one call at a time.  What is only  *)
(* shown to the user (listening_addr, hub_state, the events) decides       *)
(* nothing here and is left out, with the bind_listener that sets it.      *)
(***************************************************************************)
EXTENDS Integers

CONSTANTS
    Ports,          \* the ports a user may choose
    DefaultPort,    \* that of SAFE_LOOPBACK_LISTEN_ADDR
    Starts,         \* ILINK_HUB_ADDR and the port file before the first launch
    MaxCmds,        \* bound: async commands in progress at the same time
    MaxHubs,        \* bound: hubs spawned by one process
    MaxCommands     \* bound: commands of one process

None == 0
Malformed == -1     \* a port file that does not parse, or names port 0
Open == -2          \* an ILINK_HUB_ADDR whose host is not a loopback one

ASSUME DesktopConstants ==
    /\ Ports \subseteq Nat \ {0}
    /\ DefaultPort \in Ports
    /\ Starts \subseteq ({None, Open} \cup Ports) \X ({None, Malformed} \cup Ports)
    /\ {MaxCmds, MaxHubs, MaxCommands} \subseteq Nat \ {0}

VARIABLES
    env,            \* ILINK_HUB_ADDR
    file,           \* desktop-port.json
    app,            \* the process: "off", "setup" or "up"
    requested,      \* HubController.requested_addr
    saving,         \* set_listen_port: the port in the file and not in memory
    ctrl,           \* HubController: the hubs whose sender (shutdown_tx) and
                    \* task (task_handles.run_serve) it holds
    hub,            \* the hubs spawned
    cmd,            \* the async commands in progress
    left            \* commands the bound still admits

process == <<env, file, app, requested, saving>>
vars == <<process, ctrl, hub, cmd, left>>

Hubs == 1..MaxHubs
Cmds == 1..MaxCmds

-----------------------------------------------------------------------------
(* The port and its file.  An address is its port: the host is a loopback  *)
(* one, except in Open.                                                    *)

safe_listen_addr_on_resolve_error(e) == DefaultPort

resolve_initial_listen_addr(f, e) ==
    CASE f = Malformed \/ (f = None /\ e = Open) -> safe_listen_addr_on_resolve_error(e)
      [] f \in Ports -> f
      [] f = None /\ e = None -> DefaultPort
      [] f = None /\ e \in Ports -> e

\* Mutant: the file is written in place, and a crash leaves half of it.
SaveInPlace(p) ==
    /\ app = "up" /\ saving = None
    /\ file' \in {p, Malformed}
    /\ saving' = p
    /\ UNCHANGED <<env, app, requested, ctrl, hub, cmd, left>>

\* set_listen_port up to the rename that replaces the file at once; a port
\* of 0 and every error before the rename return without effect.
save_desktop_port_override(p) ==
    /\ app = "up" /\ saving = None
    /\ file' = p
    /\ saving' = p
    /\ UNCHANGED <<env, app, requested, ctrl, hub, cmd, left>>

set_requested_addr ==
    /\ saving # None
    /\ requested' = saving
    /\ saving' = None
    /\ UNCHANGED <<env, file, app, ctrl, hub, cmd, left>>

-----------------------------------------------------------------------------
(* run_serve of a hub.                                                     *)

NoHub == [phase |-> "none", addr |-> None, told |-> FALSE, abort |-> FALSE]

Spawned(a) == [NoHub EXCEPT !.phase = "spawned", !.addr = a]

Listens(h) == hub[h].phase \in {"bound", "guarded", "serving", "draining"}
Guards(h) == hub[h].phase \in {"guarded", "serving", "draining"}
InRunServe(h) == hub[h].phase = "spawned" \/ Listens(h)
Alive(h) == hub[h].phase = "returned" \/ InRunServe(h)

\* Whether the slot, a command or setup still holds the sender of h.
SenderExists(h) ==
    \/ ctrl.shutdown_tx = h
    \/ app = "setup"
    \/ \E c \in Cmds : cmd[c].tx = h

\* The run_serve task of h goes from one phase to the next.
Step(h, from, to) ==
    /\ hub[h].phase = from
    /\ hub' = [hub EXCEPT ![h].phase = to]
    /\ UNCHANGED <<process, cmd, left>>

\* TcpListener::bind.
Bind(h) ==
    /\ \A g \in Hubs : Listens(g) => hub[g].addr # hub[h].addr
    /\ Step(h, "spawned", "bound") /\ UNCHANGED ctrl

\* The port is that of another hub, or of another program.
BindFails(h) == Step(h, "spawned", "returned") /\ UNCHANGED ctrl

acquire_instance_guard(h) ==
    /\ Step(h, "bound", IF \E g \in Hubs : Guards(g) THEN "returned" ELSE "guarded")
    /\ UNCHANGED ctrl

\* The login is over.
Serve(h) == Step(h, "guarded", "serving") /\ UNCHANGED ctrl

\* An error of the store, the key, the login, the queue or the identity.
StartFails(h) ==
    /\ \E p \in {"bound", "guarded", "serving"} : Step(h, p, "returned")
    /\ UNCHANGED ctrl

\* Mutant: a closed channel is not taken for a shutdown.
NoticeSignalOnly(h) ==
    /\ hub[h].told
    /\ Step(h, "serving", "draining") /\ UNCHANGED ctrl

NoticeShutdown(h) ==
    /\ hub[h].told \/ ~SenderExists(h)
    /\ Step(h, "serving", "draining") /\ UNCHANGED ctrl

drain_queues_before_shutdown(h) == Step(h, "draining", "returned") /\ UNCHANGED ctrl

\* What is left of a hub that has ended.
Ended == [NoHub EXCEPT !.phase = "ended"]

\* The teardown after run_serve empties the slot, whosever sender is in it.
ClearSender(h) ==
    /\ hub[h].phase = "returned"
    /\ hub' = [hub EXCEPT ![h] = Ended]
    /\ ctrl' = [ctrl EXCEPT !.shutdown_tx = None]
    /\ UNCHANGED <<process, cmd, left>>

\* abort_all takes effect at an await, so not within the teardown.
AbortServe(h) ==
    /\ hub[h].abort /\ InRunServe(h)
    /\ hub' = [hub EXCEPT ![h] = Ended]
    /\ UNCHANGED <<process, ctrl, cmd, left>>

run_serve(h) ==
    \/ Bind(h) \/ BindFails(h)
    \/ acquire_instance_guard(h)
    \/ Serve(h)
    \/ NoticeShutdown(h)
    \/ drain_queues_before_shutdown(h)
    \/ ClearSender(h)
    \/ AbortServe(h)

-----------------------------------------------------------------------------
(* start_hub, stop_hub and restart_hub.  A command holds the sender tx;    *)
(* old is the hub whose run_serve a restart awaits.                        *)

NoCmd == [pc |-> "idle", tx |-> None, old |-> None]

Return(c) == cmd' = [cmd EXCEPT ![c] = NoCmd]

Begin(c) ==
    /\ app = "up"
    /\ cmd[c].pc = "idle" /\ \A d \in 1..(c - 1) : cmd[d].pc # "idle"
    /\ left > 0
    /\ left' = left - 1

\* A sender in the slot that is not closed.  The tasks run_serve leaves
\* behind, and the shared state, may keep their receivers after it returned.
MaySeeRunning == ctrl.shutdown_tx # None
MaySeeFree == ctrl.shutdown_tx # None => ~InRunServe(ctrl.shutdown_tx)

\* The first look of start_hub at the slot.
CheckSlot(c) ==
    \/ /\ MaySeeRunning
       /\ Return(c)
       /\ UNCHANGED ctrl
    \/ /\ MaySeeFree
       /\ cmd' = [cmd EXCEPT ![c].pc = "spawn"]
       /\ ctrl' = [ctrl EXCEPT !.shutdown_tx = None]

start_hub(c) ==
    /\ Begin(c)
    /\ CheckSlot(c)
    /\ UNCHANGED <<process, hub>>

\* spawn_hub_task, with the address requested by then.
spawn_hub_task(c) ==
    /\ cmd[c].pc = "spawn"
    /\ \E h \in Hubs :
         /\ hub[h].phase = "none" /\ \A g \in 1..(h - 1) : hub[g].phase # "none"
         /\ hub' = [hub EXCEPT ![h] = Spawned(requested)]
         /\ cmd' = [cmd EXCEPT ![c].pc = "install", ![c].tx = h]
    /\ UNCHANGED <<process, ctrl, left>>

\* The sender and the handles go into the controller.
Install(h) == ctrl' = [ctrl EXCEPT !.shutdown_tx = h, !.run_serve = h]

\* Mutant: the second look at the slot is left out.
InstallUnchecked(c) ==
    /\ cmd[c].pc = "install"
    /\ Install(cmd[c].tx)
    /\ Return(c)
    /\ UNCHANGED <<process, hub, left>>

\* The second look: the loser of a race aborts the tasks it spawned.
InstallSender(c) ==
    /\ cmd[c].pc = "install"
    /\ \/ /\ MaySeeRunning
          /\ hub' = [hub EXCEPT ![cmd[c].tx].abort = TRUE]
          /\ UNCHANGED ctrl
       \/ /\ MaySeeFree
          /\ Install(cmd[c].tx)
          /\ UNCHANGED hub
    /\ Return(c)
    /\ UNCHANGED <<process, left>>

\* TRUE is sent through the sender in the slot, if there is one.
SendStop ==
    hub' = [h \in Hubs |-> IF h = ctrl.shutdown_tx THEN [hub[h] EXCEPT !.told = TRUE]
                                                   ELSE hub[h]]

stop_hub(c) ==
    /\ Begin(c)
    /\ SendStop
    /\ ctrl' = [ctrl EXCEPT !.shutdown_tx = None]
    /\ UNCHANGED <<process, cmd>>

restart_hub(c) ==
    /\ Begin(c)
    /\ SendStop
    /\ ctrl' = [ctrl EXCEPT !.shutdown_tx = None, !.run_serve = None]
    /\ cmd' = [cmd EXCEPT ![c] =
                 [pc |-> IF ctrl.run_serve = None THEN "check" ELSE "wait",
                  tx |-> ctrl.shutdown_tx, old |-> ctrl.run_serve]]
    /\ UNCHANGED process

\* Mutant: the wait is for the port to be free instead of for the task.
RestartSeesNoListener(c) ==
    /\ cmd[c].pc = "wait"
    /\ ~Listens(cmd[c].old)
    /\ cmd' = [cmd EXCEPT ![c].pc = "check"]
    /\ UNCHANGED <<process, ctrl, hub, left>>

RestartJoined(c) ==
    /\ cmd[c].pc = "wait"
    /\ hub[cmd[c].old].phase = "ended"
    /\ cmd' = [cmd EXCEPT ![c].pc = "check"]
    /\ UNCHANGED <<process, ctrl, hub, left>>

\* Five seconds have passed: the sender goes back, unless another is there.
RestartTimesOut(c) ==
    /\ cmd[c].pc = "wait"
    /\ ctrl' = IF ctrl.shutdown_tx = None THEN [ctrl EXCEPT !.shutdown_tx = cmd[c].tx]
                                          ELSE ctrl
    /\ Return(c)
    /\ UNCHANGED <<process, hub, left>>

RestartStarts(c) ==
    /\ cmd[c].pc = "check"
    /\ CheckSlot(c)
    /\ UNCHANGED <<process, hub, left>>

Proceed(c) ==
    \/ RestartJoined(c) \/ RestartTimesOut(c) \/ RestartStarts(c)
    \/ spawn_hub_task(c)
    \/ InstallSender(c)

-----------------------------------------------------------------------------
(* The process.                                                            *)

NoCtrl == [shutdown_tx |-> None, run_serve |-> None]

Init ==
    /\ \E s \in Starts : env = s[1] /\ file = s[2]
    /\ app = "off" /\ requested = None /\ saving = None
    /\ ctrl = NoCtrl
    /\ hub = [h \in Hubs |-> NoHub]
    /\ cmd = [c \in Cmds |-> NoCmd]
    /\ left = MaxCommands

\* setup up to spawn_hub_task ...
Launch ==
    /\ app = "off"
    /\ app' = "setup"
    /\ requested' = resolve_initial_listen_addr(file, env)
    /\ hub' = [hub EXCEPT ![1] = Spawned(requested')]
    /\ UNCHANGED <<env, file, saving, ctrl, cmd, left>>

\* ... and the sender and the handles put into the controller.
SetupInstalls ==
    /\ app = "setup"
    /\ app' = "up"
    /\ Install(1)
    /\ UNCHANGED <<env, file, requested, saving, hub, cmd, left>>

\* The window is closed, or the process dies: nothing but the file is left.
Exit ==
    /\ app \in {"setup", "up"}
    /\ app' = "off" /\ requested' = None /\ saving' = None
    /\ ctrl' = NoCtrl
    /\ hub' = [h \in Hubs |-> NoHub]
    /\ cmd' = [c \in Cmds |-> NoCmd]
    /\ left' = MaxCommands
    /\ UNCHANGED <<env, file>>

Next ==
    \/ Launch \/ SetupInstalls \/ Exit
    \/ \E p \in Ports : save_desktop_port_override(p)
    \/ set_requested_addr
    \/ \E h \in Hubs : run_serve(h) \/ StartFails(h)
    \/ \E c \in Cmds : start_hub(c) \/ stop_hub(c) \/ restart_hub(c) \/ Proceed(c)

\* The runtime polls tasks that are ready; the login ends after a bounded
\* number of attempts and the drain after its time limit.  Commands are
\* straight-line code, except for the wait of a restart, which is bounded.
Fairness ==
    /\ \A h \in Hubs : WF_vars(run_serve(h))
    /\ \A c \in Cmds : WF_vars(Proceed(c))

Spec == Init /\ [][Next]_vars /\ Fairness

-----------------------------------------------------------------------------
(* Properties.                                                             *)

\* Types of the state.
TypeOK ==
    /\ <<env, file>> \in ({None, Open} \cup Ports) \X ({None, Malformed} \cup Ports)
    /\ app \in {"off", "setup", "up"}
    /\ requested \in {None} \cup Ports
    /\ saving \in {None} \cup Ports
    /\ ctrl \in [shutdown_tx : {None} \cup Hubs, run_serve : {None} \cup Hubs]
    /\ hub \in [Hubs -> [phase : {"none", "spawned", "bound", "guarded", "serving",
                                  "draining", "returned", "ended"},
                         addr : {None} \cup Ports, told : BOOLEAN, abort : BOOLEAN]]
    /\ cmd \in [Cmds -> [pc : {"idle", "check", "spawn", "install", "wait"},
                         tx : {None} \cup Hubs, old : {None} \cup Hubs]]
    /\ left \in 0..MaxCommands

\* The address in memory is the one the next launch will resolve, whatever
\* the file, the environment and earlier crashes: "the in-memory and on-disk
\* views stay coherent across restarts" (lib.rs).
AddrMatchesFile ==
    app # "off" /\ saving = None
        => requested = resolve_initial_listen_addr(file, env)

\* Of concurrent start_hub and restart_hub commands none replaces the sender
\* of a hub that is still in run_serve: stop_hub would not reach it any more.
SenderKept ==
    [][LET h == ctrl.shutdown_tx
       IN h # None /\ ctrl'.shutdown_tx \notin {h, None} => ~InRunServe(h)]_vars

\* restart_hub spawns the new hub only when the run_serve task it took has
\* ended, so that the old hub has released its port and its lock.
OldHubEndsFirst ==
    \A c \in Cmds :
        cmd[c].pc \in {"check", "spawn", "install"} /\ cmd[c].old # None
            => hub[cmd[c].old].phase = "ended"

\* A hub whose sender is not in the slot, where stop_hub would find it, does
\* not run for ever: it has been told to stop, was aborted, or sees that its
\* channel is closed, also when the teardown of another hub took its sender.
OrphansEnd ==
    \A h \in Hubs :
        Alive(h) /\ app = "up" /\ ctrl.shutdown_tx # h
            ~> ~Alive(h) \/ ctrl.shutdown_tx = h

\* The controller's state is well formed, and its address is the persisted one
\* whenever no command is saving it (set_listen_port, resolve_initial_listen_addr).
StateCoherent == TypeOK /\ AddrMatchesFile
=============================================================================
