--------------------- MODULE ConversationDesktopProofs ----------------------
(***************************************************************************)
(* Proofs about the desktop's controller, for any ports, any number of     *)
(* commands in progress and any number of hubs; and about Conversation, for*)
(* any backends, session names and grant time limit.                       *)
(*                                                                         *)
(* Beside the types, the controller's invariant says what the code relies  *)
(* on without writing it down: no command runs before setup has installed  *)
(* its hub, so that the slot is empty until then; a port that is being     *)
(* saved is in the file already; and a command that has nothing to do      *)
(* holds nothing.                                                          *)
(***************************************************************************)
EXTENDS Desktop, Conversation, TLAPS

Phase == {"none", "spawned", "bound", "guarded", "serving", "draining", "returned", "ended"}

Hub == [phase : Phase, addr : {None} \cup Ports, told : BOOLEAN, abort : BOOLEAN]

Cmd == [pc : {"idle", "check", "spawn", "install", "wait"},
        tx : {None} \cup Hubs, old : {None} \cup Hubs]

DesktopInv ==
    /\ TypeOK
    /\ AddrMatchesFile
    /\ saving # None => app = "up" /\ file = saving
    /\ app # "up" => ctrl = NoCtrl /\ \A c \in Cmds : cmd[c] = NoCmd
    /\ \A c \in Cmds : cmd[c].pc = "idle" => cmd[c] = NoCmd
    /\ \A c \in Cmds : cmd[c].pc = "install" => cmd[c].tx \in Hubs
    /\ \A c \in Cmds : cmd[c].pc = "wait" => cmd[c].old \in Hubs
    /\ app = "off" => \A h \in Hubs : hub[h] = NoHub
    /\ OldHubEndsFirst

\* What the steps below need to know of the constants.
LEMMA Constants ==
    /\ None \notin Ports /\ Open \notin Ports /\ Malformed \notin Ports
    /\ None \notin Hubs /\ 1 \in Hubs
    /\ None # Open /\ None # Malformed
    /\ DefaultPort \in Ports
    /\ NoHub \in Hub /\ Ended \in Hub /\ NoCmd \in Cmd
    /\ \A a \in {None} \cup Ports : Spawned(a) \in Hub
<1>1. Ports \subseteq Nat \ {0} /\ DefaultPort \in Ports /\ MaxHubs \in Nat \ {0}
  BY DesktopConstants, Zenon
<1>2. /\ None \notin Ports /\ Open \notin Ports /\ Malformed \notin Ports
      /\ None \notin Hubs /\ 1 \in Hubs
      /\ None # Open /\ None # Malformed
  BY <1>1 DEF None, Open, Malformed, Hubs
<1>3. NoHub \in Hub /\ NoCmd \in Cmd
  BY Zenon DEF NoHub, NoCmd, Hub, Cmd, Phase
<1>4. Ended \in Hub /\ \A a \in {None} \cup Ports : Spawned(a) \in Hub
  BY <1>3, Zenon DEF Ended, Spawned, Hub, Phase
<1> QED
  BY <1>1, <1>2, <1>3, <1>4, Zenon

\* resolve_initial_listen_addr yields a port, and the one in the file if there
\* is one.
LEMMA Resolved ==
    /\ \A f \in {None, Malformed} \cup Ports, e \in {None, Open} \cup Ports :
          resolve_initial_listen_addr(f, e) \in Ports
    /\ \A f \in Ports, e \in {None, Open} \cup Ports : resolve_initial_listen_addr(f, e) = f
  BY Constants, Zenon DEF resolve_initial_listen_addr, safe_listen_addr_on_resolve_error

\* It holds before the first launch.
LEMMA DesktopInit == Init => DesktopInv
<1> SUFFICES ASSUME Init PROVE DesktopInv
  OBVIOUS
<1>1. env \in {None, Open} \cup Ports /\ file \in {None, Malformed} \cup Ports
  BY DesktopConstants, Zenon DEF Init
<1>2. TypeOK
  BY <1>1, Constants, DesktopConstants DEF Init, NoCtrl, TypeOK, Hub, Cmd, Phase
<1> QED
  BY <1>2, Constants, Zenon DEF Init, DesktopInv, AddrMatchesFile, OldHubEndsFirst, NoCmd

\* The steps of a hub's task: nothing changes but the hub and, in the
\* teardown, the slot.
LEMMA ServeKeeps ==
    ASSUME DesktopInv, NEW h \in Hubs, run_serve(h) \/ StartFails(h)
    PROVE  DesktopInv'
<1>1. /\ UNCHANGED <<env, file, app, requested, saving, cmd, left>>
      /\ ctrl' = ctrl \/ (hub[h].phase = "returned" /\ ctrl' = [ctrl EXCEPT !.shutdown_tx = None])
      /\ hub[h].phase \notin {"none", "ended"}
      /\ \/ \E p \in Phase : hub' = [hub EXCEPT ![h].phase = p]
         \/ hub' = [hub EXCEPT ![h] = Ended]
  BY Zenon DEF run_serve, StartFails, Bind, BindFails, acquire_instance_guard, Serve,
         NoticeShutdown, drain_queues_before_shutdown, ClearSender, AbortServe, Step,
         InRunServe, Listens, Phase, process
<1>2. TypeOK'
  <2>1. hub' \in [Hubs -> Hub]
    BY <1>1, Constants DEF DesktopInv, TypeOK, Hub, Phase
  <2> QED
    BY <1>1, <2>1, Zenon DEF DesktopInv, TypeOK, Hub, Phase
<1>3. \A g \in Hubs : hub[g].phase = "ended" => hub'[g].phase = "ended"
  BY <1>1, Zenon DEF DesktopInv, TypeOK, Hub, Cmd, Phase
<1>4. OldHubEndsFirst'
  BY <1>1, <1>3, Constants, Zenon DEF DesktopInv, TypeOK, Hub, Cmd, Phase, OldHubEndsFirst
<1>5. app' # "off"
  BY <1>1, Constants, Zenon DEF DesktopInv, TypeOK, Hub, Cmd, Phase, NoHub
<1> QED
  BY <1>1, <1>2, <1>4, <1>5 DEF DesktopInv, AddrMatchesFile, NoCtrl

\* The process: setup, the saving of a port, and the end.
LEMMA ProcessKeeps ==
    ASSUME DesktopInv,
           \/ Launch \/ SetupInstalls \/ Exit \/ set_requested_addr
           \/ \E p \in Ports : save_desktop_port_override(p)
    PROVE  DesktopInv'
<1>1. CASE Launch
  <2>1. requested' \in Ports
    BY <1>1, Resolved, Zenon DEF Launch, DesktopInv, TypeOK, Hub, Cmd, Phase
  <2>2. TypeOK'
    BY <1>1, <2>1, Constants, Zenon DEF Launch, DesktopInv, TypeOK, Hub, Cmd, Phase
  <2>3. OldHubEndsFirst'
    BY <1>1 DEF Launch, DesktopInv, TypeOK, Hub, Cmd, Phase, OldHubEndsFirst, NoCmd
  <2> QED
    BY <1>1, <2>2, <2>3, Zenon DEF Launch, DesktopInv, AddrMatchesFile
<1>2. CASE SetupInstalls
  <2>1. TypeOK'
    BY <1>2, Constants, Zenon DEF SetupInstalls, Install, DesktopInv, TypeOK, Hub, Cmd, Phase
  <2> QED
    BY <1>2, <2>1, Zenon DEF SetupInstalls, DesktopInv, AddrMatchesFile, OldHubEndsFirst
<1>3. CASE Exit
  <2>1. TypeOK'
    BY <1>3, Constants, DesktopConstants DEF Exit, DesktopInv, TypeOK, Hub, Cmd, Phase, NoCtrl
  <2> QED
    BY <1>3, <2>1, Zenon DEF Exit, DesktopInv, AddrMatchesFile, OldHubEndsFirst, NoCmd
<1>4. CASE set_requested_addr
  <2>1. TypeOK' /\ requested' = file
    BY <1>4, Constants, Zenon DEF set_requested_addr, DesktopInv, TypeOK, Hub, Cmd, Phase
  <2>2. file \in Ports /\ env \in {None, Open} \cup Ports
    BY <1>4, Zenon DEF set_requested_addr, DesktopInv, TypeOK, Hub, Cmd, Phase
  <2>3. AddrMatchesFile'
    BY <1>4, <2>1, <2>2, Resolved, Zenon DEF set_requested_addr, AddrMatchesFile
  <2> QED
    BY <1>4, <2>1, <2>3, Zenon DEF set_requested_addr, DesktopInv, OldHubEndsFirst
<1>5. ASSUME NEW p \in Ports, save_desktop_port_override(p) PROVE DesktopInv'
  <2>1. TypeOK'
    BY <1>5, Zenon DEF save_desktop_port_override, DesktopInv, TypeOK, Hub, Cmd, Phase
  <2> QED
    BY <1>5, <2>1, Constants, Zenon
       DEF save_desktop_port_override, DesktopInv, AddrMatchesFile, OldHubEndsFirst
<1> QED
  BY <1>1, <1>2, <1>3, <1>4, <1>5, Zenon

\* What the invariant says of one command.
CmdOK(c) ==
    /\ cmd[c] \in Cmd
    /\ cmd[c].pc = "idle" => cmd[c] = NoCmd
    /\ cmd[c].pc = "install" => cmd[c].tx \in Hubs
    /\ cmd[c].pc = "wait" => cmd[c].old \in Hubs
    /\ cmd[c].pc \in {"check", "spawn", "install"} /\ cmd[c].old # None
         => hub[cmd[c].old].phase = "ended"

\* A step of a command that leaves its own state in order and resurrects no hub
\* keeps the invariant.
LEMMA CommandFrame ==
    ASSUME DesktopInv, NEW c \in Cmds,
           UNCHANGED process, app = "up",
           ctrl' \in [shutdown_tx : {None} \cup Hubs, run_serve : {None} \cup Hubs],
           hub' \in [Hubs -> Hub], left' \in 0..MaxCommands,
           \A g \in Hubs : hub[g].phase = "ended" => hub'[g].phase = "ended",
           NEW k, cmd' = [cmd EXCEPT ![c] = k], CmdOK(c)'
    PROVE  DesktopInv'
<1>1. cmd \in [Cmds -> Cmd]
  BY Zenon DEF DesktopInv, TypeOK, Cmd
<1>2. cmd'[c] = k /\ \A d \in Cmds \ {c} : cmd'[d] = cmd[d]
  BY <1>1, Zenon
<1>3. cmd' \in [Cmds -> Cmd]
  BY <1>1, <1>2, Zenon DEF CmdOK
<1>4. TypeOK'
  BY <1>3, Zenon DEF DesktopInv, TypeOK, Cmd, Hub, Phase, process
<1>5. \A d \in Cmds : CmdOK(d)'
  BY <1>1, <1>2 DEF DesktopInv, OldHubEndsFirst, CmdOK, Cmd
<1>6. OldHubEndsFirst'
  BY <1>5, Zenon DEF OldHubEndsFirst, CmdOK
<1> QED
  BY <1>4, <1>5, <1>6, Zenon DEF DesktopInv, CmdOK, AddrMatchesFile, process

\* start_hub, stop_hub and restart_hub, step by step.
LEMMA CommandKeeps ==
    ASSUME DesktopInv, NEW c \in Cmds,
           start_hub(c) \/ stop_hub(c) \/ restart_hub(c) \/ Proceed(c)
    PROVE  DesktopInv'
<1> DEFINE Ctrl == [shutdown_tx : {None} \cup Hubs, run_serve : {None} \cup Hubs]
<1>1. /\ cmd \in [Cmds -> Cmd] /\ hub \in [Hubs -> Hub] /\ ctrl \in Ctrl
      /\ left \in 0..MaxCommands /\ MaxCommands \in Nat
      /\ requested \in {None} \cup Ports
  BY DesktopConstants, Zenon DEF DesktopInv, TypeOK, Cmd, Hub, Phase
<1>2. CmdOK(c)
  BY <1>1, Zenon DEF DesktopInv, OldHubEndsFirst, CmdOK
<1>3. cmd[c].pc # "idle" => app = "up"
  BY DEF DesktopInv, NoCmd
<1>4. ASSUME CheckSlot(c), cmd[c].pc \in {"idle", "check"}, UNCHANGED hub
      PROVE  /\ ctrl' \in Ctrl
             /\ \E k \in Cmd : cmd' = [cmd EXCEPT ![c] = k]
             /\ CmdOK(c)'
  <2>1. CASE Return(c) /\ UNCHANGED ctrl
    BY <2>1, <1>1, Constants, Zenon DEF Return, CmdOK, NoCmd
  <2>2. CASE /\ cmd' = [cmd EXCEPT ![c].pc = "spawn"]
             /\ ctrl' = [ctrl EXCEPT !.shutdown_tx = None]
    <3>1. cmd' = [cmd EXCEPT ![c] = [cmd[c] EXCEPT !.pc = "spawn"]]
      BY <2>2, Zenon
    <3>2. [cmd[c] EXCEPT !.pc = "spawn"] \in Cmd
      BY <1>1, Zenon DEF Cmd
    <3>3. CmdOK(c)'
      BY <3>1, <3>2, <1>1, <1>2, <1>4 DEF CmdOK, Cmd, NoCmd
    <3> QED
      BY <2>2, <3>1, <3>2, <3>3, <1>1, Zenon
  <2> QED
    BY <1>4, <2>1, <2>2, Zenon DEF CheckSlot
<1>5. ASSUME SendStop
      PROVE  /\ hub' \in [Hubs -> Hub]
             /\ \A g \in Hubs : hub'[g].phase = hub[g].phase
  BY <1>5, <1>1, ZenonT(40) DEF SendStop, Hub
<1>6. CASE start_hub(c)
  <2>1. /\ CheckSlot(c) /\ cmd[c].pc = "idle" /\ UNCHANGED <<process, hub>>
        /\ app = "up" /\ left' \in 0..MaxCommands
    BY <1>6, <1>1 DEF start_hub, Begin
  <2> QED
    BY <2>1, <1>1, <1>4, CommandFrame, Zenon
<1>7. CASE stop_hub(c)
  <2>1. app = "up" /\ left' \in 0..MaxCommands /\ ctrl' \in Ctrl
    BY <1>7, <1>1 DEF stop_hub, Begin
  <2>2. cmd' = [cmd EXCEPT ![c] = cmd[c]]
    BY <1>7, <1>1, Zenon DEF stop_hub
  <2>3. CmdOK(c)'
    BY <1>7, <1>1, <1>2, <1>5, Zenon DEF stop_hub, CmdOK, Cmd
  <2> QED
    BY <1>7, <2>1, <2>2, <2>3, <1>5, CommandFrame, Zenon DEF stop_hub
<1>8. CASE restart_hub(c)
  <2> DEFINE k == [pc |-> IF ctrl.run_serve = None THEN "check" ELSE "wait",
                   tx |-> ctrl.shutdown_tx, old |-> ctrl.run_serve]
  <2>1. /\ app = "up" /\ left' \in 0..MaxCommands /\ ctrl' \in Ctrl
        /\ cmd' = [cmd EXCEPT ![c] = k] /\ UNCHANGED process
    <3>1. app = "up" /\ left' \in 0..MaxCommands
      BY <1>8, <1>1 DEF restart_hub, Begin
    <3>2. ctrl' \in Ctrl
      BY <1>8, <1>1, Zenon DEF restart_hub
    <3>3. cmd' = [cmd EXCEPT ![c] = k] /\ UNCHANGED process
      BY <1>8, Zenon DEF restart_hub
    <3> QED
      BY <3>1, <3>2, <3>3, Zenon
  <2>2. k \in Cmd
    BY <1>1, Zenon DEF Cmd
  <2>3. CmdOK(c)'
    BY <2>1, <2>2, <1>1, Zenon DEF CmdOK, Cmd
  <2>4. SendStop
    BY <1>8, Zenon DEF restart_hub
  <2> QED
    BY <2>1, <2>3, <2>4, <1>5, CommandFrame, Zenon
<1>9. CASE RestartJoined(c)
  <2>1. cmd' = [cmd EXCEPT ![c] = [cmd[c] EXCEPT !.pc = "check"]]
    BY <1>9, Zenon DEF RestartJoined
  <2>2. [cmd[c] EXCEPT !.pc = "check"] \in Cmd
    BY <1>1, Zenon DEF Cmd
  <2>3. CmdOK(c)'
    BY <1>9, <2>1, <2>2, <1>1, <1>2 DEF RestartJoined, CmdOK, Cmd
  <2> QED
    BY <1>9, <2>1, <2>3, <1>1, <1>3, CommandFrame, Zenon DEF RestartJoined
<1>10. CASE RestartTimesOut(c)
  <2>1. ctrl' \in Ctrl /\ cmd' = [cmd EXCEPT ![c] = NoCmd] /\ app = "up"
    BY <1>10, <1>1, <1>3, Zenon DEF RestartTimesOut, Return, Cmd
  <2>2. CmdOK(c)'
    BY <2>1, <1>1, Constants, Zenon DEF CmdOK, NoCmd
  <2> QED
    BY <1>10, <2>1, <2>2, <1>1, CommandFrame, Zenon DEF RestartTimesOut
<1>11. CASE RestartStarts(c)
  BY <1>11, <1>1, <1>3, <1>4, CommandFrame, Zenon DEF RestartStarts
<1>12. CASE spawn_hub_task(c)
  <2>1. PICK h \in Hubs :
           /\ hub[h].phase = "none"
           /\ hub' = [hub EXCEPT ![h] = Spawned(requested)]
           /\ cmd' = [cmd EXCEPT ![c].pc = "install", ![c].tx = h]
    BY <1>12, Zenon DEF spawn_hub_task
  <2> DEFINE k == [cmd[c] EXCEPT !.pc = "install", !.tx = h]
  <2>2. cmd' = [cmd EXCEPT ![c] = k] /\ k \in Cmd
    BY <2>1, <1>1, ZenonT(40) DEF Cmd
  <2>3. hub' \in [Hubs -> Hub]
    BY <2>1, <1>1, Constants, Zenon
  <2>4. \A g \in Hubs : hub[g].phase = "ended" => hub'[g].phase = "ended"
    BY <2>1, <1>1, Zenon
  <2>5. CmdOK(c)'
    <3>1. cmd[c] \in Cmd /\ cmd[c].pc = "spawn"
      BY <1>12, <1>1, Zenon DEF spawn_hub_task
    <3>2. cmd'[c] = k
      BY <2>2, <1>1, Zenon
    <3>3. k.pc = "install" /\ k.tx = h /\ k.old = cmd[c].old
      BY <3>1, Zenon DEF Cmd
    <3>4. k.old # None => k.old \in Hubs /\ hub[k.old].phase = "ended"
      BY <3>1, <3>3, <1>2, Zenon DEF CmdOK, Cmd
    <3> HIDE DEF k
    <3> QED
      BY <2>2, <2>4, <3>2, <3>3, <3>4, Zenon DEF CmdOK
  <2>6. UNCHANGED <<process, ctrl, left>> /\ app = "up"
    BY <1>12, <1>3, Zenon DEF spawn_hub_task
  <2> QED
    BY <2>2, <2>3, <2>4, <2>5, <2>6, <1>1, CommandFrame, Zenon
<1>13. CASE InstallSender(c)
  <2>1. cmd' = [cmd EXCEPT ![c] = NoCmd] /\ UNCHANGED <<process, left>> /\ app = "up"
    BY <1>13, <1>3, Zenon DEF InstallSender, Return
  <2>2. cmd[c].tx \in Hubs
    BY <1>13, <1>2, Zenon DEF InstallSender, CmdOK
  <2>3. ctrl' \in Ctrl
    BY <1>13, <2>2, <1>1, Zenon DEF InstallSender, Install
  <2>4. /\ hub' \in [Hubs -> Hub]
        /\ \A g \in Hubs : hub'[g].phase = hub[g].phase
    <3>1. \/ hub' = hub
          \/ hub' = [hub EXCEPT ![cmd[c].tx] = [hub[cmd[c].tx] EXCEPT !.abort = TRUE]]
      BY <1>13, Zenon DEF InstallSender
    <3>2. [hub[cmd[c].tx] EXCEPT !.abort = TRUE] \in Hub
      <4>1. PICK g \in Hub : g = hub[cmd[c].tx]
        BY <2>2, <1>1, Zenon
      <4>2. [g EXCEPT !.abort = TRUE] \in Hub
        BY Zenon DEF Hub
      <4> QED
        BY <4>1, <4>2, Zenon
    <3> QED
      BY <3>1, <3>2, <2>2, <1>1, SMTT(40) DEF Hub
  <2>5. CmdOK(c)'
    BY <2>1, <1>1, Constants, Zenon DEF CmdOK, NoCmd
  <2> QED
    BY <2>1, <2>3, <2>4, <2>5, <1>1, CommandFrame, Zenon
<1> QED
  BY <1>6, <1>7, <1>8, <1>9, <1>10, <1>11, <1>12, <1>13, Zenon DEF Proceed

\* The invariant holds in every reachable state.
THEOREM DesktopInvariance == Spec => []DesktopInv
<1>1. DesktopInv /\ UNCHANGED vars => DesktopInv'
  BY SMTT(40) DEF DesktopInv, vars, process, TypeOK, AddrMatchesFile, OldHubEndsFirst
<1>2. DesktopInv /\ [Next]_vars => DesktopInv'
  BY <1>1, ServeKeeps, ProcessKeeps, CommandKeeps, Zenon DEF Next
<1> QED
  BY DesktopInit, <1>2, PTL DEF Spec

\* The state is well formed, and the address in memory is the one the next
\* launch resolves, whatever the file, the environment and earlier crashes
\* (set_listen_port, resolve_initial_listen_addr).
THEOREM AddressPersisted == Spec => []StateCoherent
<1>1. DesktopInv => StateCoherent
  BY Zenon DEF DesktopInv, StateCoherent
<1> QED
  BY DesktopInvariance, <1>1, PTL

\* A restart goes on to start a hub only after the one it took has ended
\* (restart_hub).
THEOREM RestartWaits == Spec => []OldHubEndsFirst
<1>1. DesktopInv => OldHubEndsFirst
  BY Zenon DEF DesktopInv
<1> QED
  BY DesktopInvariance, <1>1, PTL

\* No command and no setup replaces the sender of a hub that is still in
\* run_serve (start_hub, restart_hub).
THEOREM NoSenderLost == Spec => SenderKept
<1> DEFINE A == LET h == ctrl.shutdown_tx
                IN h # None /\ ctrl'.shutdown_tx \notin {h, None} => ~InRunServe(h)
<1>1. DesktopInv /\ [Next]_vars => [A]_vars
  <2> SUFFICES ASSUME DesktopInv, Next PROVE A
    BY Zenon
  <2>1. ctrl \in [shutdown_tx : {None} \cup Hubs, run_serve : {None} \cup Hubs]
    BY Zenon DEF DesktopInv, TypeOK
  <2>2. ASSUME UNCHANGED ctrl \/ ctrl'.shutdown_tx = None PROVE A
    BY <2>2, Zenon
  <2>3. CASE Launch \/ set_requested_addr \/ \E p \in Ports : save_desktop_port_override(p)
    BY <2>2, <2>3, Zenon DEF Launch, set_requested_addr, save_desktop_port_override
  <2>4. CASE SetupInstalls
    BY <2>4 DEF SetupInstalls, DesktopInv, NoCtrl
  <2>5. CASE Exit
    BY <2>2, <2>5, Zenon DEF Exit, NoCtrl
  <2>6. ASSUME NEW h \in Hubs, run_serve(h) \/ StartFails(h) PROVE A
    BY <2>1, <2>2, <2>6, Zenon DEF run_serve, StartFails, Bind, BindFails, acquire_instance_guard,
       Serve, NoticeShutdown, drain_queues_before_shutdown, ClearSender, AbortServe
  <2>7. ASSUME NEW c \in Cmds, start_hub(c) \/ stop_hub(c) \/ restart_hub(c)
                               \/ RestartStarts(c) \/ RestartJoined(c) \/ spawn_hub_task(c)
        PROVE  A
    BY Zenon, <2>1, <2>2, <2>7 DEF start_hub, stop_hub, restart_hub, RestartStarts, RestartJoined,
       spawn_hub_task, CheckSlot
  <2>8. ASSUME NEW c \in Cmds, RestartTimesOut(c) PROVE A
    BY <2>8, Zenon DEF RestartTimesOut
  <2>9. ASSUME NEW c \in Cmds, InstallSender(c) PROVE A
    BY <2>9, Zenon DEF InstallSender, MaySeeFree
  <2> QED
    BY <2>3, <2>4, <2>5, <2>6, <2>7, <2>8, <2>9, Zenon DEF Next, Proceed
<1>2. [][A]_vars <=> SenderKept
  BY Zenon DEF SenderKept
<1> QED
  BY DesktopInvariance, <1>1, <1>2, PTL DEF Spec
-----------------------------------------------------------------------------
(***************************************************************************)
(* Conversation: the tables of sessions, what was handed over, and the     *)
(* messages on their way.                                                  *)
(***************************************************************************)

\* The session of the command-line tool with id n, if a message started it,
\* belongs to session s of backend a; st: what each message was handed over in.
Earned(a, n, s, st) == n \in Msg => <<n, a>> \in DOMAIN st /\ st[<<n, a>>] = s

\* What lets a backend answer m; row: its row of active_sessions, slots: its
\* session names.
Entitled(m, row, slots) ==
    m.kind \in {"forward", "mention"} /\ ~m.excused /\ m.age < GrantTtl =>
        /\ m.ctx
        /\ m.kind = "forward" => HasRow(row) /\ row.age <= m.age
        /\ m.kind = "mention" => m.name \in slots

\* A message in the hands of backend a.
InHandOK(a, m, row, slots, st) ==
    /\ m \in Message
    /\ Entitled(m, row, slots)
    /\ a \notin Legacy => Earned(a, m.sid, m.name, st) /\ Earned(a, m.id, m.name, st)

Held == [msg : Message, name : Names \cup {NoSession}]

\* An answer is filed under the session of its message.
HeldOK(a, h, row, slots, st) ==
    /\ h \in Held /\ InHandOK(a, h.msg, row, slots, st)
    /\ a \notin Legacy /\ h.name # NoSession => h.name = h.msg.name

Rows == {NoRow} \cup [name : Names, depth : {0}, age : 0..GrantTtl]

\* The tables.
Tables ==
    /\ active \in [Agents -> Rows]
    /\ backend = [a \in Agents |-> backend[a]]
    /\ \A a \in Agents : /\ DOMAIN backend[a] \subseteq Names
                         /\ \A s \in DOMAIN backend[a] : backend[a][s] \in Sid
    /\ route \in Agents \cup {NoAgent}

\* The history of messages handed over, the ids in the tables and the answers.
Past ==
    /\ sent \in 0..MaxMsgs /\ faults \in 0..MaxFaults
    /\ DOMAIN started \subseteq Answer /\ \A k \in DOMAIN started : k[1] <= sent
    /\ \A a \in Agents \ Legacy : \A s \in DOMAIN backend[a] :
          Earned(a, backend[a][s], s, started)
    /\ DOMAIN replies \subseteq Answer
    /\ \A r \in DOMAIN replies :
          /\ replies[r] \in [name : Names, row : SavedStates]
          /\ r[2] \notin Legacy => r \in DOMAIN started /\ started[r] = replies[r].name

\* What the backends have.
Hands ==
    /\ queue \in [Agents -> Seq(Message)] /\ hold \in [Agents -> SUBSET Held]
    /\ \A a \in Agents : \A i \in DOMAIN queue[a] :
          InHandOK(a, queue[a][i], active[a], DOMAIN backend[a], started)
    /\ \A a \in Agents : \A h \in hold[a] :
          HeldOK(a, h, active[a], DOMAIN backend[a], started)

\* The message the dispatcher works on.
Draft == [id : Msg, kind : {"forward", "mention"}, name : Names \cup {NoSession},
          sid : Sid, age : 0..GrantTtl, ctx : BOOLEAN, excused : BOOLEAN]
Job == [pc : Pcs \ {"broadcast"}, to : Agents, msg : Draft,
        quoted : Answer \cup {NotQuoted}]

\* m: the message, due: the next statement, row and slots: of the backend it is
\* for.
DraftOK(m, due, row, slots) ==
    /\ ~m.excused => m.ctx
    /\ due # "push" => m.age = 0
    /\ due # "ext" \/ m.kind = "mention" => m.name \in Names
    /\ due \notin {"grant", "push"} => m.sid = NoSid
    /\ due = "slot" => m.kind = "mention"
    /\ m.kind = "mention" => due \in {"slot", "ext", "push"}
    /\ due = "ext" /\ m.kind = "mention" /\ ~m.excused => m.name \in slots
    /\ due = "push" => Entitled(m, row, slots)

QuoteOK(d, st) ==
    d.quoted # NotQuoted /\ d.quoted[2] \notin Legacy =>
        /\ d.to = d.quoted[2] /\ d.quoted \in DOMAIN st
        /\ d.msg.excused \/ (d.msg.name # NoSession /\ d.msg.name = st[d.quoted])

JobOK(d) ==
    /\ d \in Job
    /\ d.msg.id = sent /\ \A a \in Agents : <<sent, a>> \notin DOMAIN started
    /\ DraftOK(d.msg, d.pc, active[d.to], DOMAIN backend[d.to])
    /\ d.to \notin Legacy => Earned(d.to, d.msg.sid, d.msg.name, started)
    /\ QuoteOK(d, started)

Broadcast == [pc : {"broadcast"}, todo : SUBSET Agents, quoted : {NotQuoted}]

BroadcastOK(d) ==
    /\ d \in Broadcast /\ sent \in Msg
    /\ \A a \in d.todo : <<sent, a>> \notin DOMAIN started

Dispatcher == disp = Idle \/ JobOK(disp) \/ BroadcastOK(disp)

ConvInv == Tables /\ Past /\ Hands /\ Dispatcher
-----------------------------------------------------------------------------
(* Names, ids and grants *)

\* The names and ids that mean "none" are none of the others.
LEMMA Apart ==
    /\ NoSession \notin Names /\ Default \in Names /\ UserNames \subseteq Names
    /\ \A m \in Msg : <<"at", m>> \in Names
    /\ NotQuoted \notin Answer
    /\ NoSid \notin Msg /\ Given \notin Msg /\ NoSid \in Sid /\ Given \in Sid
    /\ Msg \subseteq Sid
<1>1. NoSession \notin Names
  BY DEF NoSession, Names, UserNames, Default
<1>2. /\ Default \in Names /\ UserNames \subseteq Names
      /\ \A m \in Msg : <<"at", m>> \in Names
  BY DEF Names, UserNames
<1>3. /\ NoSid \notin Msg /\ Given \notin Msg /\ NoSid \in Sid /\ Given \in Sid
      /\ Msg \subseteq Sid
  BY ConversationConstants DEF NoSid, Msg, Given, Sid
<1>4. NotQuoted \notin Answer
  BY ConversationConstants DEF NotQuoted, Answer, Msg
<1> QED
  BY <1>1, <1>2, <1>3, <1>4

\* A grant is renewed and slots are added: who was entitled still is.
LEMMA EntitledGrows ==
    ASSUME NEW m, m.age \in 0..GrantTtl, NEW row, NEW row2, NEW slots, NEW slots2,
           row2 = row \/ (HasRow(row2) /\ row2.age = 0), slots \subseteq slots2,
           Entitled(m, row, slots)
    PROVE  Entitled(m, row2, slots2)
<1>1. CASE row2 = row
  BY <1>1, Zenon DEF Entitled
<1>2. CASE HasRow(row2) /\ row2.age = 0
  <2>1. row2.age <= m.age
    BY <1>2, GrantTtlAssumption
  <2> QED
    BY <1>2, <2>1, Zenon DEF Entitled
<1> QED
  BY <1>1, <1>2

\* More is handed over.
LEMMA EarnedGrows ==
    ASSUME NEW a, NEW n, NEW s, NEW st, NEW st2,
           \A k \in DOMAIN st : k \in DOMAIN st2 /\ st2[k] = st[k], Earned(a, n, s, st)
    PROVE  Earned(a, n, s, st2)
  BY Zenon DEF Earned

\* What most steps do to the tables: rows are renewed, slots are added, and
\* messages are handed over.
Grows ==
    /\ \A a \in Agents : \/ active'[a] = active[a]
                         \/ HasRow(active'[a]) /\ active'[a].age = 0
    /\ \A a \in Agents : DOMAIN backend[a] \subseteq DOMAIN backend'[a]
    /\ \A k \in DOMAIN started : k \in DOMAIN started' /\ started'[k] = started[k]

\* Nothing grows, too.
LEMMA Unmoved ==
    ASSUME UNCHANGED <<active, backend, started>>
    PROVE  Grows
  BY Zenon DEF Grows

\* A message in hand.
LEMMA InHandGrows ==
    ASSUME Grows, NEW a \in Agents, NEW m,
           InHandOK(a, m, active[a], DOMAIN backend[a], started)
    PROVE  InHandOK(a, m, active'[a], DOMAIN backend'[a], started')
<1>1. m \in Message /\ m.age \in 0..GrantTtl
  BY DEF InHandOK, Message
<1>2. Entitled(m, active'[a], DOMAIN backend'[a])
  BY <1>1, EntitledGrows, Zenon DEF InHandOK, Grows
<1>3. \A n, s : Earned(a, n, s, started) => Earned(a, n, s, started')
  BY EarnedGrows, Zenon DEF Grows
<1> QED
  BY <1>1, <1>2, <1>3, Zenon DEF InHandOK

\* An answer in hand.
LEMMA HeldGrows ==
    ASSUME Grows, NEW a \in Agents, NEW h,
           HeldOK(a, h, active[a], DOMAIN backend[a], started)
    PROVE  HeldOK(a, h, active'[a], DOMAIN backend'[a], started')
  BY InHandGrows, Zenon DEF HeldOK

\* No backend does anything.
LEMMA HandsStay ==
    ASSUME Hands, Grows, UNCHANGED <<queue, hold>>
    PROVE  Hands'
<1>1. /\ queue' \in [Agents -> Seq(Message)] /\ hold' \in [Agents -> SUBSET Held]
  BY Zenon DEF Hands
<1>2. \A a \in Agents : \A i \in DOMAIN queue'[a] :
          InHandOK(a, queue'[a][i], active'[a], DOMAIN backend'[a], started')
  BY InHandGrows, Zenon DEF Hands
<1>3. \A a \in Agents : \A h \in hold'[a] :
          HeldOK(a, h, active'[a], DOMAIN backend'[a], started')
  BY HeldGrows, Zenon DEF Hands
<1> QED
  BY <1>1, <1>2, <1>3, Zenon DEF Hands

\* A message is put in a queue.
LEMMA HandsPush ==
    ASSUME Hands, Grows, UNCHANGED hold, NEW b \in Agents, NEW m,
           queue' = [queue EXCEPT ![b] = Append(@, m)],
           InHandOK(b, m, active'[b], DOMAIN backend'[b], started')
    PROVE  Hands'
<1>1. queue \in [Agents -> Seq(Message)] /\ m \in Message
  BY Zenon DEF Hands, InHandOK
<1>2. PICK q \in Seq(Message) : q = queue[b]
  BY <1>1
<1>3. /\ Append(q, m) \in Seq(Message)
      /\ \A i \in DOMAIN Append(q, m) : Append(q, m)[i] = m \/
            (i \in DOMAIN q /\ Append(q, m)[i] = q[i])
  BY <1>1, <1>2
<1>4. /\ queue' \in [Agents -> Seq(Message)] /\ queue'[b] = Append(q, m)
      /\ \A a \in Agents \ {b} : queue'[a] = queue[a]
  BY <1>1, <1>2, <1>3
<1>5. ASSUME NEW a \in Agents, NEW i \in DOMAIN queue'[a]
      PROVE  InHandOK(a, queue'[a][i], active'[a], DOMAIN backend'[a], started')
  <2>1. CASE i \in DOMAIN queue[a] /\ queue'[a][i] = queue[a][i]
    BY <2>1, InHandGrows, Zenon DEF Hands
  <2>2. CASE a = b /\ queue'[a][i] = m
    BY <2>2, Zenon
  <2> QED
    BY <1>2, <1>3, <1>4, <2>1, <2>2, Zenon
<1>6. \A a \in Agents : \A h \in hold'[a] :
          HeldOK(a, h, active'[a], DOMAIN backend'[a], started')
  BY HeldGrows, Zenon DEF Hands
<1> QED
  BY <1>4, <1>5, <1>6, Zenon DEF Hands

\* What a backend works on changes.
LEMMA HandsHold ==
    ASSUME Hands, Grows, UNCHANGED queue, NEW b \in Agents, NEW H,
           hold' = [hold EXCEPT ![b] = H],
           \A h \in H : h \in hold[b] \/ HeldOK(b, h, active'[b], DOMAIN backend'[b], started')
    PROVE  Hands'
<1>1. queue' \in [Agents -> Seq(Message)] /\ hold \in [Agents -> SUBSET Held]
  BY Zenon DEF Hands
<1>2. H \in SUBSET Held
  BY <1>1 DEF HeldOK
<1>3. /\ hold' \in [Agents -> SUBSET Held] /\ hold'[b] = H
      /\ \A a \in Agents \ {b} : hold'[a] = hold[a]
  BY <1>1, <1>2
<1>4. \A a \in Agents : \A h \in hold'[a] :
          HeldOK(a, h, active'[a], DOMAIN backend'[a], started')
  BY <1>3, HeldGrows, Zenon DEF Hands
<1>5. \A a \in Agents : \A i \in DOMAIN queue'[a] :
          InHandOK(a, queue'[a][i], active'[a], DOMAIN backend'[a], started')
  BY InHandGrows, Zenon DEF Hands
<1> QED
  BY <1>1, <1>3, <1>4, <1>5, Zenon DEF Hands
-----------------------------------------------------------------------------
(* The tables and the history *)

\* Every id in the sessions is in the session that earned it.
IdsEarned(be, st) ==
    \A a \in Agents \ Legacy : \A s \in DOMAIN be[a] : Earned(a, be[a][s], s, st)

\* backend_sessions_v2 by itself.
BackendOK(be) ==
    /\ be = [a \in Agents |-> be[a]]
    /\ \A a \in Agents : /\ DOMAIN be[a] \subseteq Names
                         /\ \A s \in DOMAIN be[a] : be[a][s] \in Sid

\* set_backend_session: an id is stored under a name that earned it.
LEMMA SetBackend ==
    ASSUME Tables, Past, NEW v \in Agents, NEW name \in Names, NEW sid \in Sid,
           v \notin Legacy => Earned(v, sid, name, started),
           backend' = set_backend_session(backend, v, name, sid)
    PROVE  /\ BackendOK(backend') /\ IdsEarned(backend', started)
           /\ \A a \in Agents : DOMAIN backend[a] \subseteq DOMAIN backend'[a]
           /\ name \in DOMAIN backend'[v]
<1>1. BackendOK(backend) /\ IdsEarned(backend, started)
  BY Zenon DEF Tables, Past, BackendOK, IdsEarned
<1> PICK f, D : f = backend[v] /\ D = DOMAIN backend[v]
  OBVIOUS
<1>2. backend' = [backend EXCEPT ![v] =
          [s \in D \cup {name} |-> IF s = name THEN sid ELSE f[s]]]
  BY Zenon DEF set_backend_session
<1>3. /\ backend'[v] = [s \in D \cup {name} |-> IF s = name THEN sid ELSE f[s]]
      /\ \A a \in Agents \ {v} : backend'[a] = backend[a]
      /\ backend' = [a \in Agents |-> backend'[a]]
  <2>1. DOMAIN backend = Agents
    BY <1>1 DEF BackendOK
  <2> QED
    BY Zenon, <1>2, <2>1
<1>4. /\ DOMAIN backend'[v] = D \cup {name} /\ backend'[v][name] = sid
      /\ \A s \in D \ {name} : backend'[v][s] = f[s]
  BY <1>3
<1>5. BackendOK(backend')
  <2>1. ASSUME NEW a \in Agents, NEW s \in DOMAIN backend'[a]
        PROVE  s \in Names /\ backend'[a][s] \in Sid
    BY <1>1, <1>3, <1>4, Zenon DEF BackendOK
  <2> QED
    BY <1>3, <2>1, Zenon DEF BackendOK
<1>6. ASSUME NEW a \in Agents \ Legacy, NEW s \in DOMAIN backend'[a]
      PROVE  Earned(a, backend'[a][s], s, started)
  <2>1. CASE a = v /\ s = name
    BY <1>4, <2>1, Zenon
  <2>2. CASE a = v /\ s # name
    <3>1. s \in D \ {name}
      BY <1>4, <2>2
    <3>2. s \in DOMAIN backend[a] /\ backend'[a][s] = backend[a][s]
      BY <1>4, <2>2, <3>1, Zenon
    <3> QED
      BY <1>1, <3>2, Zenon DEF IdsEarned
  <2>3. CASE a # v
    BY <1>1, <1>3, <2>3, Zenon DEF IdsEarned
  <2> QED
    BY <2>1, <2>2, <2>3
<1>7. \A a \in Agents : DOMAIN backend[a] \subseteq DOMAIN backend'[a]
  BY <1>3, <1>4, Zenon
<1> QED
  BY <1>4, <1>5, <1>6, <1>7, Zenon DEF IdsEarned

\* get_backend_session: what is read was earned.
LEMMA GetBackend ==
    ASSUME Tables, Past, NEW v \in Agents, NEW name
    PROVE  /\ get_backend_session(backend, v, name) \in Sid
           /\ v \notin Legacy =>
                 Earned(v, get_backend_session(backend, v, name), name, started)
<1>1. CASE name \in DOMAIN backend[v]
  BY <1>1, Zenon DEF Tables, Past, get_backend_session
<1>2. CASE name \notin DOMAIN backend[v]
  <2>1. get_backend_session(backend, v, name) = NoSid
    BY <1>2, Zenon DEF get_backend_session
  <2> QED
    BY <2>1, Apart, Zenon DEF Earned
<1> QED
  BY <1>1, <1>2

\* get_active_session_name and resolve_send_context give a session.
LEMMA ActiveName ==
    ASSUME Tables, NEW v \in Agents
    PROVE  get_active_session_name(active, v) \in Names /\ resolve_send_context(active, v) \in Names
<1>1. active[v] \in Rows
  BY DEF Tables
<1>2. HasRow(active[v]) => active[v].name \in Names
  BY <1>1 DEF Rows, HasRow, NoRow, Row
<1> QED
  BY <1>2, Apart, Zenon DEF get_active_session_name, resolve_send_context, Unexpired

\* The history when nothing is handed over and no answer is sent.
LEMMA PastStays ==
    ASSUME Past, UNCHANGED <<started, replies>>, IdsEarned(backend', started),
           sent' \in 0..MaxMsgs, sent <= sent', faults' \in 0..MaxFaults
    PROVE  Past'
<1>1. \A k \in DOMAIN started' : k[1] <= sent'
  <2>1. /\ \A k \in DOMAIN started : k[1] \in Int /\ k[1] <= sent
        /\ sent \in Int /\ sent' \in Int
    BY DEF Past, Answer, Msg
  <2> QED
    BY <2>1
<1> QED
  BY <1>1, Zenon DEF Past, IdsEarned

\* The next fault, if there is one more.
LEMMA FaultBounded ==
    ASSUME Past, Fault \/ NoFault
    PROVE  faults' \in 0..MaxFaults /\ (NoFault => ~Failed) /\ (Fault => Failed)
  BY ConversationConstants DEF Past, Fault, NoFault, Failed

\* A step that receives nothing, hands nothing over and sends no answer.
LEMMA PastQuiet ==
    ASSUME Past, UNCHANGED <<started, replies, sent>>, IdsEarned(backend', started),
           Fault \/ NoFault
    PROVE  Past'
<1>1. sent' \in 0..MaxMsgs /\ sent <= sent'
  BY DEF Past
<1> QED
  BY <1>1, PastStays, FaultBounded, Zenon

\* The tables, when active_sessions and the route stay.
LEMMA TablesStay ==
    ASSUME Tables, UNCHANGED <<active, route>>, BackendOK(backend')
    PROVE  Tables'
  BY Zenon DEF Tables, BackendOK

\* The sessions stay.
LEMMA BackendStays ==
    ASSUME Tables, Past, UNCHANGED backend
    PROVE  BackendOK(backend') /\ IdsEarned(backend', started)
  BY Zenon DEF Tables, Past, BackendOK, IdsEarned

\* The dispatcher's message while rows are renewed and slots added.
LEMMA DraftGrows ==
    ASSUME NEW m \in Draft, NEW due, NEW row, NEW row2, NEW slots, NEW slots2,
           row2 = row \/ (HasRow(row2) /\ row2.age = 0), slots \subseteq slots2,
           DraftOK(m, due, row, slots)
    PROVE  DraftOK(m, due, row2, slots2)
<1>1. m.age \in 0..GrantTtl
  BY DEF Draft
<1>2. due = "push" => Entitled(m, row2, slots2)
  BY <1>1, EntitledGrows, Zenon DEF DraftOK
<1> QED
  BY <1>2, Zenon DEF DraftOK

\* The dispatcher does nothing.
LEMMA DispatcherStays ==
    ASSUME Dispatcher, Grows, UNCHANGED <<disp, sent, started>>
    PROVE  Dispatcher'
<1>1. CASE JobOK(disp)
  <2> PICK d \in Job : d = disp
    BY <1>1, Zenon DEF JobOK
  <2>1. d.msg \in Draft /\ d.to \in Agents
    BY DEF Job
  <2>2. DraftOK(d.msg, d.pc, active'[d.to], DOMAIN backend'[d.to])
    <3> PICK m \in Draft : m = d.msg
      BY <2>1, Zenon
    <3> PICK x, x2, D, D2 :
            /\ x = active[d.to] /\ x2 = active'[d.to]
            /\ D = DOMAIN backend[d.to] /\ D2 = DOMAIN backend'[d.to]
      OBVIOUS
    <3>1. (x2 = x \/ (HasRow(x2) /\ x2.age = 0)) /\ D \subseteq D2
      BY <2>1, Zenon DEF Grows
    <3>2. DraftOK(m, d.pc, x, D)
      BY <1>1, Zenon DEF JobOK
    <3>3. DraftOK(m, d.pc, x2, D2)
      BY <3>1, <3>2, DraftGrows
    <3> QED
      BY <3>3, Zenon
  <2> QED
    BY <1>1, <2>2, Zenon DEF JobOK, Dispatcher
<1>2. CASE BroadcastOK(disp)
  BY <1>2, Zenon DEF BroadcastOK, Dispatcher
<1>3. CASE disp = Idle
  BY <1>3, Zenon DEF Dispatcher
<1> QED
  BY <1>1, <1>2, <1>3, Zenon DEF Dispatcher
-----------------------------------------------------------------------------
(* The backends *)

\* The bridge takes the next message from its queue.
LEMMA TakeKeeps ==
    ASSUME ConvInv, NEW b \in Agents, Take(b)
    PROVE  ConvInv'
<1>1. UNCHANGED <<active, backend, route, disp, replies, sent, started, faults>>
  BY Zenon DEF Take
<1>2. Grows /\ BackendOK(backend') /\ IdsEarned(backend', started)
  BY <1>1, Unmoved, BackendStays, Zenon DEF ConvInv
<1>3. Tables' /\ Past' /\ Dispatcher'
  BY <1>1, <1>2, TablesStay, PastQuiet, DispatcherStays, Zenon DEF ConvInv, NoFault
<1>4. queue \in [Agents -> Seq(Message)] /\ hold \in [Agents -> SUBSET Held]
  BY Zenon DEF ConvInv, Hands
<1> PICK q \in Seq(Message) : q = queue[b]
  BY <1>4
<1>5. q # <<>>
  BY Zenon DEF Take
<1>6. /\ Tail(q) \in Seq(Message) /\ Head(q) = q[1] /\ 1 \in DOMAIN q
      /\ \A i \in DOMAIN Tail(q) : i + 1 \in DOMAIN q /\ Tail(q)[i] = q[i + 1]
  BY <1>5
<1> PICK m : m = Head(q)
  OBVIOUS
<1>7. /\ queue' = [queue EXCEPT ![b] = Tail(q)]
      /\ hold' = [hold EXCEPT ![b] = hold[b] \cup {[msg |-> m, name |-> NoSession]}]
  BY Zenon DEF Take
<1>8. /\ queue' \in [Agents -> Seq(Message)] /\ queue'[b] = Tail(q)
      /\ \A a \in Agents \ {b} : queue'[a] = queue[a]
  BY <1>4, <1>6, <1>7
<1>9. \A i \in DOMAIN q : InHandOK(b, q[i], active[b], DOMAIN backend[b], started)
  BY Zenon DEF ConvInv, Hands
<1>10. InHandOK(b, m, active[b], DOMAIN backend[b], started) /\ m \in Message
  BY <1>6, <1>9, Zenon DEF InHandOK
<1>11. ASSUME NEW a \in Agents, NEW i \in DOMAIN queue'[a]
       PROVE  InHandOK(a, queue'[a][i], active'[a], DOMAIN backend'[a], started')
  <2>1. CASE a = b
    <3>1. InHandOK(b, Tail(q)[i], active[b], DOMAIN backend[b], started)
      BY <1>6, <1>8, <1>9, <2>1, Zenon
    <3> QED
      BY <1>1, <1>8, <2>1, <3>1, Zenon
  <2>2. CASE a # b
    BY <1>1, <1>8, <2>2, Zenon DEF ConvInv, Hands
  <2> QED
    BY <2>1, <2>2
<1>12. PICK h : h = [msg |-> m, name |-> NoSession]
  BY Zenon
<1>13. h \in Held /\ h.msg = m /\ h.name = NoSession
  BY <1>10, <1>12 DEF Held
<1>14. HeldOK(b, h, active[b], DOMAIN backend[b], started)
  BY <1>10, <1>13, Zenon DEF HeldOK
<1>15. /\ hold' \in [Agents -> SUBSET Held] /\ hold'[b] = hold[b] \cup {h}
       /\ \A a \in Agents \ {b} : hold'[a] = hold[a]
  BY <1>4, <1>7, <1>12, <1>13
<1>16. \A a \in Agents : \A g \in hold'[a] :
          HeldOK(a, g, active'[a], DOMAIN backend'[a], started')
  BY <1>1, <1>14, <1>15, Zenon DEF ConvInv, Hands
<1>17. Hands'
  BY <1>8, <1>11, <1>15, <1>16, Zenon DEF Hands
<1> QED
  BY <1>3, <1>17, Zenon DEF ConvInv

\* sendmessage looks up the context of an answer.
LEMMA SendCheckKeeps ==
    ASSUME ConvInv, NEW b \in Agents, NEW h \in hold[b], SendCheck(b, h)
    PROVE  ConvInv'
<1>1. /\ UNCHANGED <<active, backend, route, disp, queue, replies, sent, started>>
      /\ Fault \/ NoFault
  BY Zenon DEF SendCheck
<1>2. Grows /\ BackendOK(backend') /\ IdsEarned(backend', started)
  BY <1>1, Unmoved, BackendStays, Zenon DEF ConvInv
<1>3. Tables' /\ Past' /\ Dispatcher'
  BY <1>1, <1>2, TablesStay, PastQuiet, DispatcherStays, Zenon DEF ConvInv
<1>4. HeldOK(b, h, active[b], DOMAIN backend[b], started) /\ h \in Held
  BY Zenon DEF ConvInv, Hands, HeldOK
<1>5. h.msg \in Message /\ h.msg.name \in Names
  BY <1>4 DEF Held, Message
<1>6. PICK n : n = AnswerSession(b, h.msg)
  OBVIOUS
<1>7. n \in Names /\ (b \notin Legacy => n = h.msg.name)
  BY <1>5, <1>6, ActiveName, Zenon DEF AnswerSession, ConvInv
<1>8. PICK g : g = [h EXCEPT !.name = n]
  BY Zenon
<1>9. g \in Held /\ g.msg = h.msg /\ g.name = n
  BY <1>4, <1>7, <1>8 DEF Held
<1>10. HeldOK(b, g, active'[b], DOMAIN backend'[b], started')
  BY <1>1, <1>4, <1>7, <1>9, Zenon DEF HeldOK
<1>11. PICK H : hold' = [hold EXCEPT ![b] = H] /\ \A x \in H : x \in hold[b] \/ x = g
  <2>1. CASE hold' = [hold EXCEPT ![b] = (@ \ {h}) \cup (IF Owns(b, h.msg) THEN {g} ELSE {})]
    <3> WITNESS (hold[b] \ {h}) \cup (IF Owns(b, h.msg) THEN {g} ELSE {})
    <3> QED
      BY <2>1, Zenon
  <2>2. CASE hold' = [hold EXCEPT ![b] = @ \ {h}]
    <3> WITNESS hold[b] \ {h}
    <3> QED
      BY <2>2, Zenon
  <2> QED
    BY <1>6, <1>8, <2>1, <2>2, Zenon DEF SendCheck
<1>12. Hands'
  BY <1>1, <1>2, <1>10, <1>11, HandsHold, Zenon DEF ConvInv
<1> QED
  BY <1>3, <1>12, Zenon DEF ConvInv

\* The rest of sendmessage: the id is stored, the text is sent.
LEMMA SendAnswerKeeps ==
    ASSUME ConvInv, NEW b \in Agents, NEW h \in hold[b], NEW text, SendAnswer(b, h, text)
    PROVE  ConvInv'
<1>1. /\ UNCHANGED <<active, route, disp, queue, sent, started>>
      /\ Fault \/ NoFault
      /\ hold' = [hold EXCEPT ![b] = hold[b] \ {h}] /\ h.name # NoSession
  BY Zenon DEF SendAnswer
<1>2. HeldOK(b, h, active[b], DOMAIN backend[b], started) /\ h \in Held
  BY Zenon DEF ConvInv, Hands, HeldOK
<1>3. /\ h.msg \in Message /\ h.name \in Names /\ h.msg.id \in Msg /\ h.msg.sid \in Sid
  BY <1>1, <1>2 DEF Held, Message
<1>4. b \notin Legacy => /\ h.name = h.msg.name /\ Earned(b, h.msg.sid, h.name, started)
                         /\ Earned(b, h.msg.id, h.name, started)
  BY <1>1, <1>2, Zenon DEF HeldOK, InHandOK
<1>5. PICK sid : sid = CliSession(h.msg)
  OBVIOUS
<1>6. sid \in Sid /\ (b \notin Legacy => Earned(b, sid, h.name, started))
  BY <1>3, <1>4, <1>5, Apart, Zenon DEF CliSession
<1>7. /\ BackendOK(backend') /\ IdsEarned(backend', started)
      /\ \A a \in Agents : DOMAIN backend[a] \subseteq DOMAIN backend'[a]
  <2>1. CASE backend' = set_backend_session(backend, b, h.name, sid)
    BY <1>3, <1>6, <2>1, SetBackend, Zenon DEF ConvInv
  <2>2. CASE backend' = backend
    BY <2>2, BackendStays, Zenon DEF ConvInv
  <2> QED
    BY <1>5, <2>1, <2>2, Zenon DEF SendAnswer
<1>8. Grows
  BY <1>1, <1>7, Zenon DEF Grows
<1>9. Tables' /\ Dispatcher'
  BY <1>1, <1>7, <1>8, TablesStay, DispatcherStays, Zenon DEF ConvInv
<1>10. Hands'
  <2>1. \A x \in hold[b] \ {h} : x \in hold[b]
    OBVIOUS
  <2> QED
    BY <1>1, <1>8, <2>1, HandsHold, Zenon DEF ConvInv
<1>11. Past'
  <2>1. faults' \in 0..MaxFaults
    BY <1>1, FaultBounded, Zenon DEF ConvInv
  <2> PICK k : k = <<h.msg.id, b>>
    BY Zenon
  <2>2. k \in Answer /\ k[2] = b
    BY <1>3 DEF Answer
  <2>3. b \notin Legacy => k \in DOMAIN started /\ started[k] = h.name
    BY <1>3, <1>4, Zenon DEF Earned
  <2>4. PICK x : x = [name |-> h.name, row |-> "pending"]
    BY Zenon
  <2>5. x \in [name : Names, row : SavedStates] /\ x.name = h.name
    BY <1>3, <2>4 DEF SavedStates
  <2>6. \/ replies' = replies
        \/ replies' = [r \in DOMAIN replies \cup {k} |-> IF r = k THEN x ELSE replies[r]]
    BY <2>4, Zenon DEF SendAnswer
  <2>7. DOMAIN replies' \subseteq Answer
    BY <2>2, <2>6 DEF ConvInv, Past
  <2>8. \A r \in DOMAIN replies' :
           (r = k /\ replies'[r] = x) \/ (r \in DOMAIN replies /\ replies'[r] = replies[r])
    BY <2>6
  <2>9. ASSUME NEW r \in DOMAIN replies'
        PROVE  /\ replies'[r] \in [name : Names, row : SavedStates]
               /\ r[2] \notin Legacy => r \in DOMAIN started /\ started[r] = replies'[r].name
    <3>1. CASE r = k /\ replies'[r] = x
      BY <2>2, <2>3, <2>5, <3>1, Zenon
    <3>2. CASE r \in DOMAIN replies /\ replies'[r] = replies[r]
      BY <3>2, Zenon DEF ConvInv, Past
    <3> QED
      BY <2>8, <3>1, <3>2
  <2> QED
    BY <1>1, <1>7, <2>1, <2>7, <2>9, Zenon DEF ConvInv, Past, IdsEarned
<1> QED
  BY <1>9, <1>10, <1>11, Zenon DEF ConvInv

\* The history task.
LEMMA SaveReplyKeeps ==
    ASSUME ConvInv, NEW r \in DOMAIN replies, SaveReply(r)
    PROVE  ConvInv'
<1>1. UNCHANGED <<active, backend, route, disp, queue, hold, sent, started, faults>>
  BY Zenon DEF SaveReply
<1>2. Grows /\ BackendOK(backend') /\ IdsEarned(backend', started)
  BY <1>1, Unmoved, BackendStays, Zenon DEF ConvInv
<1>3. Tables' /\ Dispatcher' /\ Hands'
  BY <1>1, <1>2, TablesStay, DispatcherStays, HandsStay, Zenon DEF ConvInv
<1>4. PICK row \in {"saved", "dropped"} : replies' = [replies EXCEPT ![r].row = row]
  BY Zenon DEF SaveReply
<1> PICK x \in [name : Names, row : SavedStates] : x = replies[r]
  BY Zenon DEF ConvInv, Past
<1>5. PICK y : y = [x EXCEPT !.row = row]
  BY Zenon
<1>6. y \in [name : Names, row : SavedStates] /\ y.name = x.name
  BY <1>4, <1>5 DEF SavedStates
<1>7. replies' = [replies EXCEPT ![r] = y]
  BY <1>4, <1>5
<1>8. DOMAIN replies' = DOMAIN replies
  BY <1>7
<1>9. \A k \in DOMAIN replies : (k = r /\ replies'[k] = y) \/ replies'[k] = replies[k]
  BY <1>7
<1>10. ASSUME NEW k \in DOMAIN replies'
       PROVE  /\ replies'[k] \in [name : Names, row : SavedStates]
              /\ k[2] \notin Legacy => k \in DOMAIN started /\ started[k] = replies'[k].name
  <2>1. CASE k = r /\ replies'[k] = y
    BY <1>6, <2>1, Zenon DEF ConvInv, Past
  <2>2. CASE replies'[k] = replies[k]
    BY <1>8, <2>2, Zenon DEF ConvInv, Past
  <2> QED
    BY <1>8, <1>9, <2>1, <2>2
<1>11. Past'
  BY <1>1, <1>8, <1>10, Zenon DEF ConvInv, Past
<1> QED
  BY <1>3, <1>11, Zenon DEF ConvInv
-----------------------------------------------------------------------------
(* Time *)

\* A row and a message grow old together.
AgedRow(row) == IF Unexpired(row) THEN [row EXCEPT !.age = @ + 1] ELSE row

\* The row stays one.
LEMMA AgedRowIs ==
    ASSUME NEW row \in Rows
    PROVE  /\ AgedRow(row) \in Rows /\ AgedRow(row).name = row.name
           /\ row.age \in 0..GrantTtl
           /\ AgedRow(row).age = IF Unexpired(row) THEN row.age + 1 ELSE row.age
<1>1. row = NoRow \/ row \in [name : Names, depth : {0}, age : 0..GrantTtl]
  BY DEF Rows
<1>2. CASE row = NoRow
  <2>1. ~Unexpired(row) /\ row.age \in 0..GrantTtl
    BY <1>2, GrantTtlAssumption DEF NoRow, Row, Unexpired, HasRow
  <2> QED
    BY <2>1, Zenon DEF AgedRow
<1>3. CASE row \in [name : Names, depth : {0}, age : 0..GrantTtl]
  <2>1. CASE Unexpired(row)
    <3>1. row.age \in 0..GrantTtl /\ row.age + 1 \in 0..GrantTtl
      BY <1>3, <2>1, GrantTtlAssumption DEF Unexpired
    <3>2. PICK n : n = row.age + 1
      OBVIOUS
    <3>3. AgedRow(row) = [row EXCEPT !.age = n]
      BY <2>1, <3>2, Zenon DEF AgedRow
    <3>4. [row EXCEPT !.age = n] \in [name : Names, depth : {0}, age : 0..GrantTtl]
      BY <1>3, <3>1, <3>2
    <3>5. [row EXCEPT !.age = n].name = row.name /\ [row EXCEPT !.age = n].age = n
      BY <1>3
    <3> QED
      BY <2>1, <3>1, <3>2, <3>3, <3>4, <3>5, Zenon DEF Rows
  <2>2. CASE ~Unexpired(row)
    <3>1. row.age \in 0..GrantTtl
      BY <1>3
    <3> QED
      BY <2>2, <3>1, Zenon DEF AgedRow
  <2> QED
    BY <2>1, <2>2
<1> QED
  BY <1>1, <1>2, <1>3

\* The message stays one, but for its age.
LEMMA OlderMsgIs ==
    ASSUME NEW m, m \in Message \/ m \in Draft
    PROVE  /\ m \in Message => OlderMsg(m) \in Message
           /\ m \in Draft => OlderMsg(m) \in Draft
           /\ OlderMsg(m).id = m.id /\ OlderMsg(m).kind = m.kind
           /\ OlderMsg(m).name = m.name /\ OlderMsg(m).sid = m.sid
           /\ OlderMsg(m).ctx = m.ctx /\ OlderMsg(m).excused = m.excused
           /\ m.age \in 0..GrantTtl
           /\ OlderMsg(m).age = IF m.age < GrantTtl THEN m.age + 1 ELSE m.age
<1>1. m.age \in 0..GrantTtl
  BY DEF Message, Draft
<1>2. PICK n : n = IF m.age < GrantTtl THEN m.age + 1 ELSE m.age
  OBVIOUS
<1>3. n \in 0..GrantTtl
  BY <1>1, <1>2, GrantTtlAssumption
<1>4. OlderMsg(m) = [m EXCEPT !.age = n]
  BY <1>2, Zenon DEF OlderMsg
<1>5. CASE m \in Message
  <2>1. /\ OlderMsg(m) \in Message
        /\ OlderMsg(m).id = m.id /\ OlderMsg(m).kind = m.kind
        /\ OlderMsg(m).name = m.name /\ OlderMsg(m).sid = m.sid
        /\ OlderMsg(m).ctx = m.ctx /\ OlderMsg(m).excused = m.excused
        /\ OlderMsg(m).age = n
    BY <1>3, <1>4, <1>5 DEF Message
  <2>2. m \in Draft => OlderMsg(m) \in Draft
    BY <1>3, <1>4 DEF Draft
  <2> QED
    BY <1>1, <1>2, <2>1, <2>2
<1>6. CASE m \in Draft
  <2>1. /\ OlderMsg(m) \in Draft
        /\ OlderMsg(m).id = m.id /\ OlderMsg(m).kind = m.kind
        /\ OlderMsg(m).name = m.name /\ OlderMsg(m).sid = m.sid
        /\ OlderMsg(m).ctx = m.ctx /\ OlderMsg(m).excused = m.excused
        /\ OlderMsg(m).age = n
    BY <1>3, <1>4, <1>6 DEF Draft
  <2>2. m \in Message => OlderMsg(m) \in Message
    BY <1>3, <1>4 DEF Message
  <2> QED
    BY <1>1, <1>2, <2>1, <2>2
<1> QED
  BY <1>5, <1>6

\* So a grant does not run out before its message.
LEMMA EntitledAges ==
    ASSUME NEW m, m \in Message \/ m \in Draft, NEW row \in Rows, NEW slots,
           Entitled(m, row, slots)
    PROVE  Entitled(OlderMsg(m), AgedRow(row), slots)
<1> PICK o, x : o = OlderMsg(m) /\ x = AgedRow(row)
  OBVIOUS
<1>1. /\ o.kind = m.kind /\ o.name = m.name /\ o.ctx = m.ctx /\ o.excused = m.excused
      /\ m.age \in 0..GrantTtl /\ o.age = IF m.age < GrantTtl THEN m.age + 1 ELSE m.age
  BY OlderMsgIs
<1>2. /\ x.name = row.name /\ row.age \in 0..GrantTtl
      /\ x.age = IF Unexpired(row) THEN row.age + 1 ELSE row.age
  BY AgedRowIs, Zenon
<1>3. SUFFICES ASSUME o.kind \in {"forward", "mention"}, ~o.excused, o.age < GrantTtl
               PROVE  /\ o.ctx /\ (o.kind = "mention" => o.name \in slots)
                      /\ o.kind = "forward" => HasRow(x) /\ x.age <= o.age
  BY Zenon DEF Entitled
<1>4. m.age < GrantTtl /\ o.age = m.age + 1
  BY <1>1, <1>3, GrantTtlAssumption
<1>5. o.ctx /\ (o.kind = "mention" => o.name \in slots)
  BY <1>1, <1>3, <1>4, Zenon DEF Entitled
<1>6. ASSUME o.kind = "forward"
      PROVE  HasRow(x) /\ x.age <= o.age
  <2>1. HasRow(row) /\ row.age <= m.age
    BY <1>1, <1>3, <1>4, <1>6, Zenon DEF Entitled
  <2>2. HasRow(x)
    BY <1>2, <2>1, Zenon DEF HasRow
  <2>3. x.age <= o.age
    BY <1>1, <1>2, <1>4, <2>1, GrantTtlAssumption
  <2> QED
    BY <2>2, <2>3
<1> QED
  BY <1>5, <1>6

\* A message in hand grows old.
LEMMA InHandAges ==
    ASSUME NEW a, NEW m, NEW row \in Rows, NEW slots, NEW st,
           InHandOK(a, m, row, slots, st)
    PROVE  InHandOK(a, OlderMsg(m), AgedRow(row), slots, st)
<1>1. m \in Message /\ Entitled(m, row, slots)
  BY Zenon DEF InHandOK
<1>2. /\ OlderMsg(m) \in Message /\ OlderMsg(m).id = m.id
      /\ OlderMsg(m).name = m.name /\ OlderMsg(m).sid = m.sid
  BY <1>1, OlderMsgIs, Zenon
<1>3. Entitled(OlderMsg(m), AgedRow(row), slots)
  BY <1>1, EntitledAges, Zenon
<1> QED
  BY <1>2, <1>3, Zenon DEF InHandOK

\* So does the message of an answer.
LEMMA HeldAges ==
    ASSUME NEW a, NEW h, NEW row \in Rows, NEW slots, NEW st, HeldOK(a, h, row, slots, st)
    PROVE  HeldOK(a, [h EXCEPT !.msg = OlderMsg(@)], AgedRow(row), slots, st)
<1>1. h \in Held /\ InHandOK(a, h.msg, row, slots, st)
  BY Zenon DEF HeldOK
<1> PICK m : m = OlderMsg(h.msg)
  OBVIOUS
<1>2. InHandOK(a, m, AgedRow(row), slots, st) /\ m.name = h.msg.name /\ m \in Message
  BY <1>1, InHandAges, OlderMsgIs, Zenon DEF InHandOK
<1>3. PICK g : g = [h EXCEPT !.msg = m]
  BY Zenon
<1>4. g \in Held /\ g.msg = m /\ g.name = h.name
  BY <1>1, <1>2, <1>3 DEF Held
<1>5. HeldOK(a, g, AgedRow(row), slots, st)
  BY <1>2, <1>4, Zenon DEF HeldOK
<1> QED
  BY <1>3, <1>5, Zenon

\* Time passes for every row and every message.
LEMMA TimeKeeps ==
    ASSUME ConvInv, Tick
    PROVE  ConvInv'
<1>1. UNCHANGED <<backend, route, replies, sent, started, faults>>
  BY Zenon DEF Tick
<1>2. active \in [Agents -> Rows]
  BY Zenon DEF ConvInv, Tables
<1>3. active' = [a \in Agents |-> AgedRow(active[a])]
  <2>1. DOMAIN active = Agents
    BY <1>2
  <2> QED
    BY <2>1, Zenon DEF Tick, AgedRows, AgedRow
<1>4. \A a \in Agents : active'[a] = AgedRow(active[a]) /\ active'[a] \in Rows
  BY <1>2, <1>3, AgedRowIs, Zenon
<1>5. Tables'
  <2>1. active' \in [Agents -> Rows]
    BY <1>3, <1>4
  <2> QED
    BY <1>1, <2>1, Zenon DEF ConvInv, Tables
<1>6. Past'
  BY <1>1, Zenon DEF ConvInv, Past
<1>7. Hands'
  <2>1. queue \in [Agents -> Seq(Message)] /\ hold \in [Agents -> SUBSET Held]
    BY Zenon DEF ConvInv, Hands
  <2>2. /\ queue' = [a \in Agents |-> [i \in DOMAIN queue[a] |-> OlderMsg(queue[a][i])]]
        /\ hold' = [a \in Agents |-> {[h EXCEPT !.msg = OlderMsg(@)] : h \in hold[a]}]
    BY Zenon DEF Tick
  <2>3. ASSUME NEW a \in Agents
        PROVE  /\ queue'[a] \in Seq(Message)
               /\ \A i \in DOMAIN queue'[a] :
                     InHandOK(a, queue'[a][i], active'[a], DOMAIN backend'[a], started')
    <3> PICK q \in Seq(Message) : q = queue[a]
      BY <2>1
    <3>1. queue'[a] = [i \in DOMAIN q |-> OlderMsg(q[i])]
      BY <2>2, Zenon
    <3>2. ASSUME NEW i \in DOMAIN q
          PROVE  InHandOK(a, OlderMsg(q[i]), active'[a], DOMAIN backend'[a], started')
      <4>1. InHandOK(a, q[i], active[a], DOMAIN backend[a], started) /\ active[a] \in Rows
        BY <1>2, Zenon DEF ConvInv, Hands
      <4> QED
        BY <1>1, <1>4, <4>1, InHandAges, Zenon
    <3>3. \A i \in DOMAIN q : OlderMsg(q[i]) \in Message
      BY <3>2, Zenon DEF InHandOK
    <3>4. Len(q) \in Nat /\ DOMAIN q = 1..Len(q)
      OBVIOUS
    <3>5. queue'[a] \in Seq(Message)
      BY <3>1, <3>3, <3>4
    <3> QED
      BY <3>1, <3>2, <3>5, Zenon
  <2>4. queue' = [a \in Agents |-> queue'[a]]
    BY <2>2
  <2>5. queue' \in [Agents -> Seq(Message)]
    BY <2>3, <2>4
  <2>6. ASSUME NEW a \in Agents, NEW g \in hold'[a]
        PROVE  HeldOK(a, g, active'[a], DOMAIN backend'[a], started')
    <3>1. PICK h \in hold[a] : g = [h EXCEPT !.msg = OlderMsg(@)]
      BY <2>2, Zenon
    <3>2. HeldOK(a, h, active[a], DOMAIN backend[a], started) /\ active[a] \in Rows
      BY <1>2, Zenon DEF ConvInv, Hands
    <3>3. HeldOK(a, [h EXCEPT !.msg = OlderMsg(@)], AgedRow(active[a]), DOMAIN backend[a],
                 started)
      BY <3>2, HeldAges, Zenon
    <3> QED
      BY <1>1, <1>4, <3>1, <3>3, Zenon
  <2>7. hold' = [a \in Agents |-> hold'[a]]
    BY <2>2
  <2>8. hold' \in [Agents -> SUBSET Held]
    BY <2>6, <2>7 DEF HeldOK
  <2> QED
    BY <2>3, <2>5, <2>6, <2>8, Zenon DEF Hands
<1>8. Dispatcher'
  <2>1. CASE disp = Idle
    <3>1. disp' = Idle
      BY <2>1, Zenon DEF Tick
    <3> QED
      BY <3>1, Zenon DEF Dispatcher
  <2>2. CASE BroadcastOK(disp)
    <3>1. disp.pc # "push"
      BY <2>2 DEF BroadcastOK, Broadcast
    <3>2. disp' = disp
      BY <3>1, Zenon DEF Tick
    <3> QED
      BY <1>1, <2>2, <3>2, Zenon DEF Dispatcher, BroadcastOK
  <2>3. CASE JobOK(disp)
    <3> PICK d \in Job : d = disp
      BY <2>3, Zenon DEF JobOK
    <3> PICK m \in Draft, to \in Agents : m = d.msg /\ to = d.to
      BY DEF Job
    <3>1. /\ DraftOK(m, d.pc, active[to], DOMAIN backend[to]) /\ active[to] \in Rows
          /\ m.id = sent /\ (to \notin Legacy => Earned(to, m.sid, m.name, started))
          /\ QuoteOK(d, started) /\ \A a \in Agents : <<sent, a>> \notin DOMAIN started
      BY <1>2, <2>3, Zenon DEF JobOK
    <3>2. d # Idle
      BY DEF Job, Pcs, Idle
    <3>3. CASE d.pc = "push"
      <4> PICK o : o = OlderMsg(m)
        OBVIOUS
      <4>1. /\ o \in Draft /\ o.id = m.id /\ o.kind = m.kind /\ o.name = m.name
            /\ o.sid = m.sid /\ o.ctx = m.ctx /\ o.excused = m.excused
        BY OlderMsgIs, Zenon
      <4>2. Entitled(o, active'[to], DOMAIN backend'[to])
        <5>1. Entitled(m, active[to], DOMAIN backend[to])
          BY <3>1, <3>3, Zenon DEF DraftOK
        <5>2. Entitled(o, AgedRow(active[to]), DOMAIN backend[to])
          BY <3>1, <5>1, EntitledAges, Zenon
        <5> QED
          BY <1>1, <1>4, <5>2, Zenon
      <4>3. PICK e : e = [d EXCEPT !.msg = o]
        BY Zenon
      <4>4. e \in Job /\ e.msg = o /\ e.pc = d.pc /\ e.to = to /\ e.quoted = d.quoted
        BY <4>1, <4>3 DEF Job
      <4>5. disp' = e
        BY <3>2, <3>3, <4>3, Zenon DEF Tick
      <4>6. DraftOK(o, e.pc, active'[to], DOMAIN backend'[to])
        BY <3>1, <3>3, <4>1, <4>2, <4>4 DEF DraftOK
      <4>7. JobOK(disp)'
        BY <1>1, <3>1, <4>1, <4>4, <4>5, <4>6, Zenon DEF JobOK, QuoteOK
      <4> QED
        BY <4>7, Zenon DEF Dispatcher
    <3>4. CASE d.pc # "push"
      <4>1. disp' = d
        BY <3>4, Zenon DEF Tick
      <4>2. DraftOK(m, d.pc, active'[to], DOMAIN backend'[to])
        BY <1>1, <3>1, <3>4, Zenon DEF DraftOK
      <4>3. JobOK(disp)'
        BY <1>1, <3>1, <4>1, <4>2, Zenon DEF JobOK
      <4> QED
        BY <4>3, Zenon DEF Dispatcher
    <3> QED
      BY <3>3, <3>4
  <2> QED
    BY <2>1, <2>2, <2>3, Zenon DEF ConvInv, Dispatcher
<1> QED
  BY <1>5, <1>6, <1>7, <1>8, Zenon DEF ConvInv
-----------------------------------------------------------------------------
(* The dispatcher *)

\* A job in its parts, and what is known of them.
LEMMA JobIs ==
    ASSUME ConvInv, disp # Idle, disp.pc # "broadcast"
    PROVE  /\ disp \in Job /\ disp.msg \in Draft /\ disp.to \in Agents
           /\ DraftOK(disp.msg, disp.pc, active[disp.to], DOMAIN backend[disp.to])
           /\ disp.msg.id = sent /\ sent \in Msg
           /\ disp.to \notin Legacy =>
                 Earned(disp.to, disp.msg.sid, disp.msg.name, started)
           /\ QuoteOK(disp, started)
           /\ \A a \in Agents : <<sent, a>> \notin DOMAIN started
<1>1. JobOK(disp)
  <2>1. ~BroadcastOK(disp)
    BY DEF BroadcastOK, Broadcast
  <2> QED
    BY <2>1, Zenon DEF ConvInv, Dispatcher
<1>2. disp \in Job
  BY <1>1, Zenon DEF JobOK
<1>3. disp.msg \in Draft /\ disp.to \in Agents
  BY <1>2 DEF Job
<1>4. disp.msg.id \in Msg
  BY <1>3 DEF Draft
<1> QED
  BY <1>1, <1>2, <1>3, <1>4, Zenon DEF JobOK

\* The next statement of a job: pc and message change.
LEMMA JobMoves ==
    ASSUME ConvInv, disp # Idle, disp.pc # "broadcast",
           NEW due \in Pcs \ {"broadcast"}, NEW m \in Draft,
           disp' = [disp EXCEPT !.pc = due, !.msg = m], UNCHANGED <<sent, started>>,
           m.id = disp.msg.id, DraftOK(m, due, active'[disp.to], DOMAIN backend'[disp.to]),
           disp.to \notin Legacy => Earned(disp.to, m.sid, m.name, started),
           ~m.excused => ~disp.msg.excused,
           disp.msg.name # NoSession /\ ~m.excused => m.name = disp.msg.name
    PROVE  Dispatcher'
<1>1. /\ disp \in Job /\ disp.msg.id = sent /\ QuoteOK(disp, started)
      /\ \A a \in Agents : <<sent, a>> \notin DOMAIN started
  BY JobIs, Zenon
<1> PICK d \in Job : d = disp
  BY <1>1
<1>2. PICK e : e = [d EXCEPT !.pc = due, !.msg = m]
  OBVIOUS
<1>3. e \in Job /\ e.pc = due /\ e.msg = m /\ e.to = d.to /\ e.quoted = d.quoted
  BY Zenon, <1>2 DEF Job
<1>4. QuoteOK(e, started)
  <2>1. SUFFICES ASSUME e.quoted # NotQuoted, e.quoted[2] \notin Legacy
                 PROVE  /\ e.to = e.quoted[2] /\ e.quoted \in DOMAIN started
                        /\ m.excused \/ (m.name # NoSession /\ m.name = started[e.quoted])
    BY <1>3, Zenon DEF QuoteOK
  <2>2. /\ d.to = d.quoted[2] /\ d.quoted \in DOMAIN started
        /\ d.msg.excused \/ (d.msg.name # NoSession /\ d.msg.name = started[d.quoted])
    BY <1>1, <1>3, <2>1, Zenon DEF QuoteOK
  <2> QED
    BY <1>3, <2>2
<1>5. JobOK(e)'
  BY <1>1, <1>3, <1>4, Zenon DEF JobOK
<1> QED
  BY <1>2, <1>5, Zenon DEF Dispatcher

\* build_hub_ext_for_vctx: the message is given its session.
LEMMA HubExtKeeps ==
    ASSUME ConvInv, build_hub_ext_for_vctx
    PROVE  ConvInv'
<1>1. /\ UNCHANGED <<active, backend, route, queue, hold, replies, sent, started>>
      /\ disp # Idle /\ disp.pc = "ext"
      /\ Fault \/ NoFault
  BY Zenon DEF build_hub_ext_for_vctx
<1>2. Grows /\ BackendOK(backend') /\ IdsEarned(backend', started)
  BY <1>1, Unmoved, BackendStays, Zenon DEF ConvInv
<1>3. Tables' /\ Past' /\ Hands'
  BY <1>1, <1>2, TablesStay, PastQuiet, HandsStay, Zenon DEF ConvInv
<1>4. disp.pc # "broadcast"
  BY <1>1
<1>5. /\ disp \in Job /\ disp.msg \in Draft /\ disp.to \in Agents
      /\ DraftOK(disp.msg, "ext", active[disp.to], DOMAIN backend[disp.to])
      /\ disp.to \notin Legacy => Earned(disp.to, disp.msg.sid, disp.msg.name, started)
  BY <1>1, <1>4, JobIs, Zenon
<1> PICK d \in Job, m \in Draft, to \in Agents : d = disp /\ m = disp.msg /\ to = disp.to
  BY <1>5
<1> PICK next : next = IF m.kind = "mention" THEN "push" ELSE "grant"
  OBVIOUS
<1>6. next \in Pcs \ {"broadcast"} /\ next \in {"push", "grant"}
  BY SMTT(40) DEF Pcs
<1>7. /\ ~m.excused => m.ctx
      /\ m.age = 0 /\ m.sid = NoSid
      /\ m.kind = "mention" => m.name \in Names /\ (~m.excused => m.name \in DOMAIN backend[to])
  BY <1>5 DEF DraftOK
<1>8. ASSUME NEW e \in Draft, e.id = m.id, e.kind = m.kind, e.age = m.age, e.ctx = m.ctx,
             e.name \in Names, ~e.excused => ~m.excused,
             m.name # NoSession /\ ~e.excused => e.name = m.name,
             to \notin Legacy => Earned(to, e.sid, e.name, started),
             disp' = [disp EXCEPT !.pc = next, !.msg = e]
      PROVE  Dispatcher'
  <2>1. e.kind \in {"forward", "mention"}
    BY DEF Draft
  <2>2. next = "push" => e.kind = "mention"
    BY <1>8
  <2>3. e.kind = "mention" => next = "push" /\ m.name # NoSession
    BY <1>7, <1>8, Apart
  <2>4. next = "push" => Entitled(e, active'[to], DOMAIN backend'[to])
    <3>1. SUFFICES ASSUME next = "push", ~e.excused
                   PROVE  e.ctx /\ e.kind = "mention" /\ e.name \in DOMAIN backend[to]
      BY <1>1 DEF Entitled
    <3> QED
      BY SMTT(40), <1>7, <1>8, <2>2, <2>3, <3>1
  <2>5. DraftOK(e, next, active'[to], DOMAIN backend'[to])
    BY <1>6, <1>7, <1>8, <2>1, <2>2, <2>3, <2>4 DEF DraftOK
  <2> QED
    BY <1>1, <1>4, <1>6, <1>8, <2>5, JobMoves, Zenon
<1>9. CASE NoFault /\ disp' = [disp EXCEPT !.pc = next,
                                  !.msg.name = PinnedOrActive(disp.to, disp.msg).name,
                                  !.msg.sid = PinnedOrActive(disp.to, disp.msg).sid]
  <2>1. PICK name, sid : /\ name = PinnedOrActive(to, m).name
                         /\ sid = PinnedOrActive(to, m).sid
    BY SMTT(40)
  <2>2. /\ name \in Names /\ sid \in Sid
        /\ to \notin Legacy => Earned(to, sid, name, started)
        /\ m.ctx /\ m.name # NoSession => name = m.name
    <3>1. CASE ~m.ctx
      <4>1. PinnedOrActive(to, m) = [name |-> Default, sid |-> NoSid]
        BY <3>1 DEF PinnedOrActive
      <4>2. name = Default /\ sid = NoSid
        BY <2>1, <4>1
      <4> QED
        BY <3>1, <4>2, Apart, Zenon DEF Earned
    <3>2. CASE m.ctx /\ m.name # NoSession
      <4>1. PICK x : x = get_backend_session(backend, to, m.name)
        OBVIOUS
      <4>2. PinnedOrActive(to, m) = [name |-> m.name, sid |-> x]
        BY <3>2, <4>1 DEF PinnedOrActive
      <4>3. name = m.name /\ sid = x /\ m.name \in Names
        BY <2>1, <3>2, <4>2 DEF Draft
      <4> QED
        BY <3>2, <4>1, <4>3, GetBackend, Zenon DEF ConvInv
    <3>3. CASE m.ctx /\ m.name = NoSession
      <4>1. PICK n : n = get_active_session_name(active, to)
        OBVIOUS
      <4>2. PICK x : x = get_backend_session(backend, to, n)
        OBVIOUS
      <4>3. PinnedOrActive(to, m) = [name |-> n, sid |-> x]
        BY <3>3, <4>1, <4>2 DEF PinnedOrActive, get_hub_ext_single
      <4>4. name = n /\ sid = x
        BY <2>1, <4>3
      <4> QED
        BY <3>3, <4>1, <4>2, <4>4, GetBackend, ActiveName, Zenon DEF ConvInv
    <3> QED
      BY <3>1, <3>2, <3>3 DEF Draft
  <2>3. PICK e : e = [m EXCEPT !.name = name, !.sid = sid]
    OBVIOUS
  <2>4. /\ e \in Draft /\ e.id = m.id /\ e.kind = m.kind /\ e.age = m.age
        /\ e.ctx = m.ctx /\ e.excused = m.excused /\ e.name = name /\ e.sid = sid
    BY Zenon, <2>2, <2>3 DEF Draft
  <2>5. disp' = [disp EXCEPT !.pc = next, !.msg = e]
    BY Zenon, <1>9, <2>1, <2>3 DEF Job, Draft
  <2>6. /\ e.name \in Names /\ (~e.excused => ~m.excused)
        /\ to \notin Legacy => Earned(to, e.sid, e.name, started)
    BY <2>2, <2>4
  <2>7. m.name # NoSession /\ ~e.excused => e.name = m.name
    BY <1>7, <2>2, <2>4
  <2> QED
    BY <1>3, <1>8, <2>4, <2>5, <2>6, <2>7, Zenon DEF ConvInv
<1>10. CASE Fault /\ disp' = [disp EXCEPT !.pc = next, !.msg.excused = TRUE,
                                          !.msg.name = Fallback(disp.msg)]
  <2>1. PICK name : name = Fallback(m)
    BY SMTT(40)
  <2>2. name \in Names
    BY <2>1, Apart DEF Fallback, Draft
  <2>3. PICK e : e = [m EXCEPT !.excused = TRUE, !.name = name]
    OBVIOUS
  <2>4. /\ e \in Draft /\ e.id = m.id /\ e.kind = m.kind /\ e.age = m.age
        /\ e.ctx = m.ctx /\ e.excused /\ e.name = name /\ e.sid = m.sid
    BY Zenon, <2>2, <2>3 DEF Draft
  <2>5. disp' = [disp EXCEPT !.pc = next, !.msg = e]
    BY Zenon, <1>10, <2>1, <2>3 DEF Job, Draft
  <2>6. Earned(to, e.sid, e.name, started)
    BY <1>7, <2>4, Apart, Zenon DEF Earned
  <2>7. /\ e.name \in Names /\ (~e.excused => ~m.excused)
        /\ m.name # NoSession /\ ~e.excused => e.name = m.name
    BY <2>2, <2>4
  <2> QED
    BY <1>3, <1>8, <2>4, <2>5, <2>6, <2>7, Zenon DEF ConvInv
<1> QED
  BY <1>9, <1>10, Zenon DEF build_hub_ext_for_vctx

\* A row of active_sessions is written.
LEMMA RowSet ==
    ASSUME Tables, UNCHANGED <<backend, route>>, NEW v \in Agents, NEW name \in Names,
           \/ active' = set_active_session_with_depth(active, v, name, 0)
           \/ active' = set_active_session_name(active, v, name)
    PROVE  /\ Tables' /\ HasRow(active'[v]) /\ active'[v].age = 0
           /\ \A a \in Agents \ {v} : active'[a] = active[a]
<1>1. active \in [Agents -> Rows]
  BY Zenon DEF Tables
<1>2. PICK x \in Rows : x = active[v]
  BY <1>1
<1>3. x.depth = 0
  BY <1>2 DEF Rows, NoRow, Row
<1>4. PICK y : y = Row(name, 0, 0)
  OBVIOUS
<1>5. active' = [active EXCEPT ![v] = y]
  BY <1>2, <1>3, <1>4, Zenon DEF set_active_session_with_depth, set_active_session_name
<1>6. y \in Rows /\ y.name = name /\ y.age = 0
  BY <1>4, GrantTtlAssumption DEF Row, Rows
<1>7. /\ active' \in [Agents -> Rows] /\ active'[v] = y
      /\ \A a \in Agents \ {v} : active'[a] = active[a]
  BY <1>1, <1>5, <1>6
<1>8. HasRow(y)
  BY <1>6, Apart, Zenon DEF HasRow
<1> QED
  BY <1>6, <1>7, <1>8, Zenon DEF Tables

\* The grant of a forwarded message.
LEMMA GrantKeeps ==
    ASSUME ConvInv, Grant
    PROVE  ConvInv'
<1>1. /\ UNCHANGED <<backend, route, queue, hold, replies, sent, started>>
      /\ disp # Idle /\ disp.pc = "grant" /\ disp.pc # "broadcast"
      /\ Fault \/ NoFault
  BY Zenon DEF Grant
<1>2. /\ disp \in Job /\ disp.msg \in Draft /\ disp.to \in Agents
      /\ DraftOK(disp.msg, "grant", active[disp.to], DOMAIN backend[disp.to])
      /\ disp.to \notin Legacy => Earned(disp.to, disp.msg.sid, disp.msg.name, started)
  BY <1>1, JobIs, Zenon
<1> PICK d \in Job, m \in Draft, to \in Agents : d = disp /\ m = disp.msg /\ to = disp.to
  BY SMTT(40), <1>2
<1>3. /\ ~m.excused => m.ctx
      /\ m.age = 0 /\ m.name \in Names /\ m.kind = "forward"
  BY <1>2 DEF DraftOK, Draft
<1>4. /\ Tables'
      /\ \A a \in Agents : \/ active'[a] = active[a]
                           \/ HasRow(active'[a]) /\ active'[a].age = 0
      /\ NoFault /\ m.ctx => HasRow(active'[to]) /\ active'[to].age = 0
  <2>1. CASE active' = set_active_session_with_depth(active, to, m.name, 0)
    BY <1>1, <1>3, <2>1, RowSet, Zenon DEF ConvInv
  <2>2. CASE active' = active /\ ~(NoFault /\ m.ctx)
    BY <1>1, <2>2, Zenon DEF ConvInv, Tables
  <2> QED
    BY <2>1, <2>2, FaultBounded, Zenon DEF Grant, ConvInv, NoFault, Failed
<1>5. Grows
  BY <1>1, <1>4, Zenon DEF Grows
<1>6. Past' /\ Hands'
  BY <1>1, <1>5, BackendStays, PastQuiet, HandsStay, Zenon DEF ConvInv
<1>7. "push" \in Pcs \ {"broadcast"}
  BY DEF Pcs
<1>8. CASE NoFault /\ disp' = [disp EXCEPT !.pc = "push"]
  <2>1. disp' = [disp EXCEPT !.pc = "push", !.msg = m]
    BY Zenon, <1>8 DEF Job
  <2>2. Entitled(m, active'[to], DOMAIN backend'[to])
    BY <1>3, <1>4, <1>8 DEF Entitled
  <2>3. DraftOK(m, "push", active'[to], DOMAIN backend'[to])
    BY <1>3, <2>2 DEF DraftOK
  <2>4. Dispatcher'
    BY <1>1, <1>2, <1>7, <2>1, <2>3, JobMoves, Zenon
  <2> QED
    BY <1>4, <1>6, <2>4, Zenon DEF ConvInv
<1>9. CASE Fault /\ disp' = [disp EXCEPT !.pc = "push", !.msg.excused = TRUE]
  <2>1. PICK e : e = [m EXCEPT !.excused = TRUE]
    BY Zenon
  <2>2. /\ e \in Draft /\ e.id = m.id /\ e.kind = m.kind /\ e.age = m.age
        /\ e.ctx = m.ctx /\ e.excused /\ e.name = m.name /\ e.sid = m.sid
    BY ZenonT(40), <2>1 DEF Draft
  <2>3. disp' = [disp EXCEPT !.pc = "push", !.msg = e]
    BY <1>9, <2>1 DEF Job, Draft
  <2>4. DraftOK(e, "push", active'[to], DOMAIN backend'[to])
    BY <1>3, <2>2 DEF DraftOK, Entitled
  <2>5. Dispatcher'
    BY <1>1, <1>2, <1>7, <2>2, <2>3, <2>4, JobMoves, Zenon
  <2> QED
    BY <1>4, <1>6, <2>5, Zenon DEF ConvInv
<1> QED
  BY <1>8, <1>9, Zenon DEF Grant

\* A message is handed over: the history grows by a session.
LEMMA HandsOver ==
    ASSUME Past, UNCHANGED <<backend, replies, sent, faults>>, NEW k \in Answer, NEW s,
           k \notin DOMAIN started, k[1] = sent,
           started' = [x \in DOMAIN started \cup {k} |->
                          IF x \in DOMAIN started THEN started[x] ELSE s]
    PROVE  /\ Past' /\ k \in DOMAIN started' /\ started'[k] = s
           /\ \A x \in DOMAIN started : x \in DOMAIN started' /\ started'[x] = started[x]
           /\ \A x \in DOMAIN started' : x \in DOMAIN started \/ x = k
<1> PICK D : D = DOMAIN started
  OBVIOUS
<1>1. /\ DOMAIN started' = D \cup {k} /\ started'[k] = s
      /\ \A x \in D : started'[x] = started[x]
  <2>1. started' = [x \in D \cup {k} |-> IF x \in D THEN started[x] ELSE s]
    BY Zenon
  <2> QED
    BY <2>1
<1>2. DOMAIN started' \subseteq Answer /\ \A x \in DOMAIN started' : x[1] <= sent
  <2>1. sent <= sent
    BY DEF Past
  <2> QED
    BY <1>1, <2>1, Zenon DEF Past
<1>3. \A a, n, t : Earned(a, n, t, started) => Earned(a, n, t, started')
  BY <1>1, EarnedGrows, Zenon
<1>4. \A r \in DOMAIN replies :
          /\ replies[r] \in [name : Names, row : SavedStates]
          /\ r[2] \notin Legacy => r \in DOMAIN started' /\ started'[r] = replies[r].name
  BY <1>1, Zenon DEF Past
<1>5. Past'
  BY <1>2, <1>3, <1>4, Zenon DEF Past
<1> QED
  BY <1>1, <1>5, Zenon

\* The message is put in the backend's queue.
LEMMA PushKeeps ==
    ASSUME ConvInv, Push
    PROVE  ConvInv'
<1>1. /\ UNCHANGED <<active, backend, route, hold, replies, sent, faults>>
      /\ disp # Idle /\ disp.pc = "push" /\ disp.pc # "broadcast" /\ disp' = Idle
  BY Zenon DEF Push
<1>2. /\ disp.msg \in Draft /\ disp.to \in Agents
      /\ DraftOK(disp.msg, "push", active[disp.to], DOMAIN backend[disp.to])
      /\ disp.msg.id = sent /\ sent \in Msg
      /\ disp.to \notin Legacy => Earned(disp.to, disp.msg.sid, disp.msg.name, started)
      /\ \A a \in Agents : <<sent, a>> \notin DOMAIN started
  BY <1>1, JobIs, Zenon
<1> PICK m \in Draft, to \in Agents : m = disp.msg /\ to = disp.to
  BY <1>2
<1> PICK k : k = <<sent, to>>
  BY Zenon
<1>3. k \in Answer /\ k[1] = sent /\ k \notin DOMAIN started
  BY SMTT(40), <1>2 DEF Answer
<1>4. started' = [x \in DOMAIN started \cup {k} |->
                     IF x \in DOMAIN started THEN started[x] ELSE m.name]
  BY <1>2, Zenon DEF Push
<1>5. /\ Past' /\ k \in DOMAIN started' /\ started'[k] = m.name
      /\ \A x \in DOMAIN started : x \in DOMAIN started' /\ started'[x] = started[x]
  BY <1>1, <1>3, <1>4, HandsOver, Zenon DEF ConvInv
<1>6. Grows
  BY <1>1, <1>5, Zenon DEF Grows
<1>7. m \in Message /\ Entitled(m, active[to], DOMAIN backend[to])
  <2>1. m.name \in Names
    BY <1>2 DEF DraftOK
  <2> QED
    BY SMTT(40), <1>2, <2>1 DEF DraftOK, Draft, Message
<1>8. to \notin Legacy => Earned(to, m.sid, m.name, started') /\ Earned(to, m.id, m.name, started')
  BY <1>2, <1>5, EarnedGrows, Zenon DEF Earned
<1>9. InHandOK(to, m, active'[to], DOMAIN backend'[to], started')
  BY <1>1, <1>7, <1>8, Zenon DEF InHandOK
<1>10. Hands'
  <2>1. queue' = [queue EXCEPT ![to] = Append(@, m)]
    BY Zenon DEF Push
  <2> QED
    BY <1>1, <1>6, <1>9, <2>1, HandsPush, Zenon DEF ConvInv
<1>11. Tables' /\ Dispatcher'
  BY <1>1, Zenon DEF ConvInv, Tables, Dispatcher
<1> QED
  BY <1>5, <1>10, <1>11, Zenon DEF ConvInv

\* The @mention's session is created.
LEMMA CreateMentionSlotKeeps ==
    ASSUME ConvInv, CreateMentionSlot
    PROVE  ConvInv'
<1>1. /\ UNCHANGED <<active, route, queue, hold, replies, sent, started>>
      /\ disp # Idle /\ disp.pc = "slot" /\ disp.pc # "broadcast"
      /\ Fault \/ NoFault
  BY Zenon DEF CreateMentionSlot
<1>2. /\ disp \in Job /\ disp.msg \in Draft /\ disp.to \in Agents
      /\ DraftOK(disp.msg, "slot", active[disp.to], DOMAIN backend[disp.to])
      /\ disp.to \notin Legacy => Earned(disp.to, disp.msg.sid, disp.msg.name, started)
  BY <1>1, JobIs, Zenon
<1> PICK d \in Job, m \in Draft, to \in Agents : d = disp /\ m = disp.msg /\ to = disp.to
  BY SMTT(40), <1>2
<1>3. /\ ~m.excused => m.ctx
      /\ m.age = 0 /\ m.name \in Names /\ m.kind = "mention" /\ m.sid = NoSid
  BY <1>2 DEF DraftOK, Draft
<1>4. NoSid \in Sid /\ \A s : Earned(to, NoSid, s, started)
  BY Apart, Zenon DEF Earned
<1>5. /\ BackendOK(backend') /\ IdsEarned(backend', started)
      /\ \A a \in Agents : DOMAIN backend[a] \subseteq DOMAIN backend'[a]
      /\ NoFault /\ m.ctx => m.name \in DOMAIN backend'[to]
  <2>1. CASE backend' = set_backend_session(backend, to, m.name, NoSid)
    BY <1>3, <1>4, <2>1, SetBackend, Zenon DEF ConvInv
  <2>2. CASE backend' = backend /\ ~(NoFault /\ m.ctx)
    BY <2>2, BackendStays, Zenon DEF ConvInv
  <2> QED
    BY <2>1, <2>2, FaultBounded, Zenon DEF CreateMentionSlot, ConvInv, NoFault, Failed
<1>6. Grows
  BY <1>1, <1>5, Zenon DEF Grows
<1>7. Tables' /\ Past' /\ Hands'
  BY <1>1, <1>5, <1>6, TablesStay, PastQuiet, HandsStay, Zenon DEF ConvInv
<1>8. "ext" \in Pcs \ {"broadcast"}
  BY DEF Pcs
<1>9. CASE NoFault /\ disp' = [disp EXCEPT !.pc = "ext"]
  <2>1. disp' = [disp EXCEPT !.pc = "ext", !.msg = m]
    BY Zenon, <1>9 DEF Job
  <2>2. DraftOK(m, "ext", active'[to], DOMAIN backend'[to])
    BY <1>3, <1>5, <1>9 DEF DraftOK
  <2>3. Dispatcher'
    BY <1>1, <1>2, <1>8, <2>1, <2>2, JobMoves, Zenon
  <2> QED
    BY <1>7, <2>3, Zenon DEF ConvInv
<1>10. CASE Fault /\ disp' = [disp EXCEPT !.pc = "ext", !.msg.excused = TRUE]
  <2>1. PICK e : e = [m EXCEPT !.excused = TRUE]
    BY Zenon
  <2>2. /\ e \in Draft /\ e.id = m.id /\ e.kind = m.kind /\ e.age = m.age
        /\ e.ctx = m.ctx /\ e.excused /\ e.name = m.name /\ e.sid = m.sid
    BY Zenon, <2>1 DEF Draft
  <2>3. disp' = [disp EXCEPT !.pc = "ext", !.msg = e]
    BY SMTT(40), <1>10, <2>1 DEF Job, Draft
  <2>4. DraftOK(e, "ext", active'[to], DOMAIN backend'[to])
    BY <1>3, <2>2 DEF DraftOK
  <2>5. Dispatcher'
    BY <1>1, <1>2, <1>8, <2>2, <2>3, <2>4, JobMoves, Zenon
  <2> QED
    BY <1>7, <2>5, Zenon DEF ConvInv
<1> QED
  BY <1>9, <1>10, Zenon DEF CreateMentionSlot

\* /session use creates a session that is missing.
LEMMA CreateSlotKeeps ==
    ASSUME ConvInv, CreateSlot
    PROVE  ConvInv'
<1>1. /\ UNCHANGED <<active, route, queue, hold, replies, sent, started>>
      /\ disp # Idle /\ disp.pc = "create" /\ disp.pc # "broadcast"
      /\ Fault \/ NoFault
  BY Zenon DEF CreateSlot
<1>2. /\ disp \in Job /\ disp.msg \in Draft /\ disp.to \in Agents
      /\ DraftOK(disp.msg, "create", active[disp.to], DOMAIN backend[disp.to])
      /\ disp.to \notin Legacy => Earned(disp.to, disp.msg.sid, disp.msg.name, started)
  BY <1>1, JobIs, Zenon
<1> PICK d \in Job, m \in Draft, to \in Agents : d = disp /\ m = disp.msg /\ to = disp.to
  BY SMTT(40), <1>2
<1>3. /\ ~m.excused => m.ctx
      /\ m.age = 0 /\ m.name \in Names /\ m.kind = "forward" /\ m.sid = NoSid
  BY <1>2 DEF DraftOK, Draft
<1>4. NoSid \in Sid /\ \A s : Earned(to, NoSid, s, started)
  BY Apart, Zenon DEF Earned
<1>5. /\ BackendOK(backend') /\ IdsEarned(backend', started)
      /\ \A a \in Agents : DOMAIN backend[a] \subseteq DOMAIN backend'[a]
  <2>1. CASE backend' = set_backend_session(backend, to, m.name, NoSid)
    BY <1>3, <1>4, <2>1, SetBackend, Zenon DEF ConvInv
  <2>2. CASE backend' = backend
    BY <2>2, BackendStays, Zenon DEF ConvInv
  <2> QED
    BY <2>1, <2>2, Zenon DEF CreateSlot
<1>6. Grows
  BY <1>1, <1>5, Zenon DEF Grows
<1>7. Tables' /\ Past' /\ Hands'
  BY <1>1, <1>5, <1>6, TablesStay, PastQuiet, HandsStay, Zenon DEF ConvInv
<1>8. "switch" \in Pcs \ {"broadcast"}
  BY DEF Pcs
<1>9. CASE disp' = [disp EXCEPT !.pc = "switch"]
  <2>1. disp' = [disp EXCEPT !.pc = "switch", !.msg = m]
    BY Zenon, <1>9 DEF Job
  <2>2. DraftOK(m, "switch", active'[to], DOMAIN backend'[to])
    BY SMTT(40), <1>3 DEF DraftOK
  <2>3. Dispatcher'
    BY <1>1, <1>2, <1>8, <2>1, <2>2, JobMoves, Zenon
  <2> QED
    BY <1>7, <2>3, Zenon DEF ConvInv
<1>10. CASE disp' = Idle
  BY <1>7, <1>10, Zenon DEF ConvInv, Dispatcher
<1> QED
  BY <1>9, <1>10, Zenon DEF CreateSlot

\* /session new and /session use make the session the active one.
LEMMA SwitchSessionKeeps ==
    ASSUME ConvInv, SwitchSession
    PROVE  ConvInv'
<1>1. /\ UNCHANGED <<backend, route, queue, hold, replies, sent, started>>
      /\ disp # Idle /\ disp.pc = "switch" /\ disp.pc # "broadcast" /\ disp' = Idle
      /\ Fault \/ NoFault
  BY Zenon DEF SwitchSession
<1>2. /\ disp.msg \in Draft /\ disp.to \in Agents
      /\ DraftOK(disp.msg, "switch", active[disp.to], DOMAIN backend[disp.to])
  BY <1>1, JobIs, Zenon
<1> PICK m \in Draft, to \in Agents : m = disp.msg /\ to = disp.to
  BY <1>2
<1>3. m.name \in Names
  BY <1>2 DEF DraftOK
<1>4. /\ Tables'
      /\ \A a \in Agents : \/ active'[a] = active[a]
                           \/ HasRow(active'[a]) /\ active'[a].age = 0
  <2>1. CASE active' = set_active_session_name(active, to, m.name)
    BY <1>1, <1>3, <2>1, RowSet, Zenon DEF ConvInv
  <2>2. CASE active' = active
    BY <1>1, <2>2, Zenon DEF ConvInv, Tables
  <2> QED
    BY <2>1, <2>2, Zenon DEF SwitchSession
<1>5. Grows
  BY <1>1, <1>4, Zenon DEF Grows
<1>6. Past' /\ Hands'
  BY <1>1, <1>5, BackendStays, PastQuiet, HandsStay, Zenon DEF ConvInv
<1> QED
  BY <1>1, <1>4, <1>6, Zenon DEF ConvInv, Dispatcher

\* /broadcast hands the message to one more backend.
LEMMA BroadcastToKeeps ==
    ASSUME ConvInv, NEW to \in Agents, BroadcastTo(to)
    PROVE  ConvInv'
<1>1. /\ UNCHANGED <<active, backend, route, hold, replies, sent, faults>>
      /\ disp # Idle /\ disp.pc = "broadcast" /\ to \in disp.todo
      /\ disp' = IF disp.todo = {to} THEN Idle ELSE [disp EXCEPT !.todo = @ \ {to}]
  BY Zenon DEF BroadcastTo
<1>2. BroadcastOK(disp)
  <2>1. ~JobOK(disp)
    BY <1>1 DEF JobOK, Job
  <2> QED
    BY <1>1, <2>1, Zenon DEF ConvInv, Dispatcher
<1> PICK d \in Broadcast : d = disp
  BY <1>2, Zenon DEF BroadcastOK
<1>3. sent \in Msg /\ \A a \in d.todo : <<sent, a>> \notin DOMAIN started
  BY <1>2, Zenon DEF BroadcastOK
<1> PICK k, name, sid, m :
        /\ k = <<sent, to>> /\ name = get_active_session_name(active, to)
        /\ sid = get_backend_session(backend, to, name)
        /\ m = [id |-> sent, kind |-> "broadcast", name |-> name, sid |-> sid,
                age |-> 0, ctx |-> TRUE, excused |-> FALSE]
  BY Zenon
<1>4. name \in Names /\ sid \in Sid /\ (to \notin Legacy => Earned(to, sid, name, started))
  BY ActiveName, GetBackend, Zenon DEF ConvInv
<1>5. k \in Answer /\ k[1] = sent /\ k \notin DOMAIN started
  BY <1>1, <1>3 DEF Answer
<1>6. get_hub_ext_single(active, backend, to) = [name |-> name, sid |-> sid]
  BY Zenon DEF get_hub_ext_single
<1>7. /\ get_hub_ext_single(active, backend, to).name = name
      /\ get_hub_ext_single(active, backend, to).sid = sid
  BY SMTT(40), <1>6
<1>8. /\ started' = [x \in DOMAIN started \cup {k} |->
                        IF x \in DOMAIN started THEN started[x] ELSE name]
      /\ queue' = [queue EXCEPT ![to] = Append(@, m)]
  BY <1>7, Zenon DEF BroadcastTo
<1>9. /\ Past' /\ k \in DOMAIN started' /\ started'[k] = name
      /\ \A x \in DOMAIN started : x \in DOMAIN started' /\ started'[x] = started[x]
      /\ \A x \in DOMAIN started' : x \in DOMAIN started \/ x = k
  BY <1>1, <1>5, <1>8, HandsOver, Zenon DEF ConvInv
<1>10. Grows
  BY <1>1, <1>9, Zenon DEF Grows
<1>11. /\ m \in Message /\ m.id = sent /\ m.name = name /\ m.sid = sid
       /\ m.kind \notin {"forward", "mention"}
  <2>1. 0 \in 0..GrantTtl
    BY GrantTtlAssumption
  <2> QED
    BY Zenon, <1>3, <1>4, <2>1 DEF Message
<1>12. to \notin Legacy => Earned(to, sid, name, started') /\ Earned(to, sent, name, started')
  BY <1>4, <1>9, EarnedGrows, Zenon DEF Earned
<1>13. InHandOK(to, m, active'[to], DOMAIN backend'[to], started')
  BY <1>11, <1>12, Zenon DEF InHandOK, Entitled
<1>14. Hands'
  BY <1>1, <1>8, <1>10, <1>13, HandsPush, Zenon DEF ConvInv
<1>15. Tables'
  BY <1>1, Zenon DEF ConvInv, Tables
<1>16. Dispatcher'
  <2>1. CASE disp' = Idle
    BY <2>1, Zenon DEF Dispatcher
  <2>2. CASE disp' = [disp EXCEPT !.todo = @ \ {to}]
    <3>1. PICK e : e = [d EXCEPT !.todo = @ \ {to}]
      BY ZenonT(40)
    <3>2. e \in Broadcast /\ e.todo = d.todo \ {to}
      BY <3>1 DEF Broadcast
    <3>3. ASSUME NEW a \in e.todo
          PROVE  <<sent, a>> \notin DOMAIN started'
      <4>1. a \in d.todo /\ a # to
        BY <3>2
      <4>2. <<sent, a>> # k
        BY <4>1
      <4> QED
        BY <1>3, <1>9, <4>1, <4>2, Zenon
    <3>4. BroadcastOK(e)'
      BY <1>1, <1>3, <3>2, <3>3, Zenon DEF BroadcastOK
    <3> QED
      BY <2>2, <3>1, <3>4, Zenon DEF Dispatcher
  <2> QED
    BY <1>1, <2>1, <2>2
<1> QED
  BY <1>9, <1>14, <1>15, <1>16, Zenon DEF ConvInv
-----------------------------------------------------------------------------
(* The user *)

\* A message comes in: its number is new.
LEMMA Received ==
    ASSUME ConvInv, Receive
    PROVE  /\ disp = Idle /\ Next1 = sent' /\ sent' \in Msg /\ sent' \in 0..MaxMsgs
           /\ sent <= sent'
           /\ \A a \in Agents : <<sent', a>> \notin DOMAIN started
<1>1. /\ sent \in 0..MaxMsgs /\ \A k \in DOMAIN started : k[1] <= sent
      /\ disp = Idle /\ sent < MaxMsgs /\ sent' = sent + 1
  BY Zenon DEF ConvInv, Past, Receive, Next1
<1>2. Next1 = sent' /\ sent' \in Msg /\ sent' \in 0..MaxMsgs /\ sent <= sent'
  BY <1>1, ConversationConstants DEF Next1, Msg
<1>3. ASSUME NEW a \in Agents, <<sent', a>> \in DOMAIN started
      PROVE  FALSE
  BY <1>1, <1>3
<1> QED
  BY <1>1, <1>2, <1>3, Zenon

\* What a message that comes in leaves alone, when the tables grow at most.
LEMMA ReceivedFrame ==
    ASSUME ConvInv, Receive, Fault \/ NoFault, UNCHANGED <<queue, hold, replies, started>>,
           IdsEarned(backend', started), Grows
    PROVE  Past' /\ Hands'
  BY Received, FaultBounded, PastStays, HandsStay, Zenon DEF ConvInv

\* A message that comes in and changes no table.
LEMMA ReceivedQuiet ==
    ASSUME ConvInv, Receive, Fault \/ NoFault,
           UNCHANGED <<active, backend, route, queue, hold, replies, started>>
    PROVE  Tables' /\ Past' /\ Hands'
  BY ReceivedFrame, BackendStays, TablesStay, Unmoved, Zenon DEF ConvInv

\* The dispatcher begins to work on a new message.
LEMMA NewJob ==
    ASSUME ConvInv, Receive, UNCHANGED started,
           NEW due \in {"ext", "slot", "create", "switch"}, NEW to \in Agents,
           NEW kind \in {"forward", "mention"}, due = "slot" <=> kind = "mention",
           NEW name \in Names \cup {NoSession}, due # "ext" => name \in Names,
           NEW ctx \in BOOLEAN, Failed \/ ctx,
           NEW quoted \in Answer \cup {NotQuoted},
           quoted # NotQuoted /\ quoted[2] \notin Legacy =>
               /\ to = quoted[2] /\ quoted \in DOMAIN started
               /\ name # NoSession /\ name = started[quoted],
           disp' = Work(due, to, NewMessage(kind, name, ctx), quoted)
    PROVE  Dispatcher'
<1>1. /\ Next1 = sent' /\ sent' \in Msg
      /\ \A a \in Agents : <<sent', a>> \notin DOMAIN started
  BY Received, Zenon
<1>2. PICK bad \in BOOLEAN : bad = Failed
  BY Zenon DEF Failed
<1>3. PICK m : m = NewMessage(kind, name, ctx)
  OBVIOUS
<1>4. m = [id |-> sent', kind |-> kind, name |-> name, sid |-> NoSid, age |-> 0,
           ctx |-> ctx, excused |-> bad]
  BY <1>1, <1>2, <1>3, Zenon DEF NewMessage
<1>5. 0 \in 0..GrantTtl /\ NoSid \in Sid
  BY SMTT(40), GrantTtlAssumption, Apart
<1>6. /\ m \in Draft /\ m.id = sent' /\ m.kind = kind /\ m.name = name /\ m.sid = NoSid
      /\ m.age = 0 /\ m.ctx = ctx /\ m.excused = bad
  BY SMTT(40), <1>1, <1>4, <1>5 DEF Draft
<1>7. PICK d : d = Work(due, to, m, quoted)
  BY SMTT(40)
<1>8. d \in Job /\ d.pc = due /\ d.to = to /\ d.msg = m /\ d.quoted = quoted
  BY SMTT(40), <1>6, <1>7 DEF Work, Job, Pcs
<1>9. ~m.excused => m.ctx
  <2>1. bad \/ ctx
    BY <1>2, Zenon
  <2> QED
    BY <1>6, <2>1
<1>10. DraftOK(m, due, active'[to], DOMAIN backend'[to])
  BY Zenon, <1>6, <1>9 DEF DraftOK
<1>11. QuoteOK(d, started)
  BY <1>6, <1>8, Zenon DEF QuoteOK
<1>12. Earned(to, m.sid, m.name, started)
  BY <1>6, Apart, Zenon DEF Earned
<1>13. JobOK(d)'
  BY <1>1, <1>6, <1>8, <1>10, <1>11, <1>12, Zenon DEF JobOK
<1> QED
  BY <1>3, <1>7, <1>13, Zenon DEF Dispatcher

\* A message is forwarded to a backend.
LEMMA ForwardJob ==
    ASSUME ConvInv, Receive, Fault \/ NoFault, UNCHANGED started, NEW to \in Agents,
           NEW name \in Names \cup {NoSession}, NEW quoted \in Answer \cup {NotQuoted},
           quoted # NotQuoted /\ quoted[2] \notin Legacy =>
               /\ to = quoted[2] /\ quoted \in DOMAIN started
               /\ name # NoSession /\ name = started[quoted],
           Forward(to, name, quoted)
    PROVE  Dispatcher'
<1>1. PICK ctx \in BOOLEAN : ctx = ~Failed
  BY Zenon DEF Failed
<1>2. disp' = Work("ext", to, NewMessage("forward", name, ctx), quoted)
  BY <1>1, Zenon DEF Forward
<1>3. Failed \/ ctx
  BY <1>1, Zenon
<1> QED
  BY Zenon, <1>2, <1>3, NewJob

\* A plain message goes to the routed backend.
LEMMA PlainMessageKeeps ==
    ASSUME ConvInv, PlainMessage
    PROVE  ConvInv'
<1>1. /\ Receive /\ (Fault \/ NoFault)
      /\ UNCHANGED <<active, backend, route, queue, hold, replies, started>>
      /\ IF route = NoAgent THEN disp' = Idle ELSE Forward(route, NoSession, NotQuoted)
  BY Zenon DEF PlainMessage
<1>2. Tables' /\ Past' /\ Hands'
  BY <1>1, ReceivedQuiet, Zenon
<1>3. CASE disp' = Idle
  BY <1>2, <1>3, Zenon DEF ConvInv, Dispatcher
<1>4. CASE route # NoAgent /\ Forward(route, NoSession, NotQuoted)
  <2>1. route \in Agents
    BY <1>4, Zenon DEF ConvInv, Tables
  <2>2. Dispatcher'
    BY <1>1, <1>4, <2>1, ForwardJob, Zenon
  <2> QED
    BY <1>2, <2>2, Zenon DEF ConvInv
<1> QED
  BY <1>1, <1>3, <1>4, Zenon

\* The history rows of answers, and where a quote of one may lead.
Origins == [to : Agents, name : Names \cup {NoSession}]

\* Whatever the resolvers find is a backend and a session; an exact match is
\* the row of the quoted answer.
LEMMA OriginIs ==
    ASSUME ConvInv, NEW r \in DOMAIN replies, NEW has, NEW o \in QuoteOrigins(r, has),
           o # NoOrigin
    PROVE  /\ o \in Origins
           /\ "msg_id" \in has /\ r \in Saved => o.to = r[2] /\ o.name = replies[r].name
<1>1. \A x \in DOMAIN replies : x[2] \in Agents /\ replies[x].name \in Names
  BY Zenon DEF ConvInv, Past, Answer
<1>2. \A to, name : /\ Origin(to, name).to = to /\ Origin(to, name).name = name
                    /\ to \in Agents /\ name \in Names \cup {NoSession} =>
                          Origin(to, name) \in Origins
  BY DEF Origin, Origins
<1>3. \A x \in DOMAIN replies : /\ RowOrigin(x) \in Origins /\ RowOrigin(x).to = x[2]
                                /\ RowOrigin(x).name = replies[x].name
  BY <1>1, <1>2, Zenon DEF RowOrigin
<1>4. CASE "msg_id" \in has /\ r \in Saved
  <2>1. FromMsgId(r, has) = {RowOrigin(r)}
    BY <1>4, Zenon DEF FromMsgId
  <2>2. o = RowOrigin(r)
    BY <2>1 DEF QuoteOrigins
  <2> QED
    BY <1>3, <2>2, Zenon
<1>5. CASE ~("msg_id" \in has /\ r \in Saved)
  <2>1. FromMsgId(r, has) = {}
    BY <1>5, Zenon DEF FromMsgId
  <2>2. o \in FromNearbyRow(has) \/ o \in FromFooter(r, has)
    BY <2>1, Zenon DEF QuoteOrigins
  <2>3. CASE o \in FromNearbyRow(has)
    <3>1. PICK x \in Saved : o = RowOrigin(x)
      BY <2>3, Zenon DEF FromNearbyRow
    <3>2. x \in DOMAIN replies
      BY <3>1, Zenon DEF Saved
    <3> QED
      BY <1>3, <1>5, <3>1, <3>2, Zenon
  <2>4. CASE o \in FromFooter(r, has)
    <3>1. FooterSession(r) \in Names \cup {NoSession}
      BY <1>1, Zenon DEF FooterSession
    <3>2. PICK to \in Agents : o = Origin(to, FooterSession(r))
      BY <1>1, <2>4, Zenon DEF FromFooter
    <3> QED
      BY <1>2, <1>5, <3>1, <3>2, Zenon
  <2> QED
    BY <2>2, <2>3, <2>4, Zenon
<1> QED
  BY <1>4, <1>5, Zenon

\* A quote-reply.
LEMMA QuoteReplyKeeps ==
    ASSUME ConvInv, NEW r \in DOMAIN replies, NEW has, QuoteReply(r, has)
    PROVE  ConvInv'
<1>1. /\ Receive /\ (Fault \/ NoFault)
      /\ UNCHANGED <<active, backend, route, queue, hold, replies, started>>
  BY Zenon DEF QuoteReply
<1>2. Tables' /\ Past' /\ Hands'
  BY <1>1, ReceivedQuiet, Zenon
<1>3. PICK o \in QuoteOrigins(r, has) :
          merge_routing_with_quote(r, o, "msg_id" \in has /\ r \in Saved)
  BY Zenon DEF QuoteReply
<1>4. Dispatcher'
  <2>1. CASE disp' = Idle
    BY <2>1, Zenon DEF Dispatcher
  <2>2. CASE route # NoAgent /\ Forward(route, NoSession, NotQuoted)
    <3>1. route \in Agents
      BY <2>2, Zenon DEF ConvInv, Tables
    <3> QED
      BY <1>1, <2>2, <3>1, ForwardJob, Zenon
  <2>3. CASE /\ o # NoOrigin
             /\ Forward(o.to, o.name, IF "msg_id" \in has /\ r \in Saved
                                      THEN r ELSE NotQuoted)
    <3>1. /\ o \in Origins
          /\ "msg_id" \in has /\ r \in Saved => o.to = r[2] /\ o.name = replies[r].name
      BY <2>3, OriginIs, Zenon
    <3>2. o.to \in Agents /\ o.name \in Names \cup {NoSession}
      BY SMTT(40), <3>1 DEF Origins
    <3>3. r \in Answer /\ (r[2] \notin Legacy => r \in DOMAIN started /\ started[r] = replies[r].name)
          /\ replies[r].name \in Names
      BY DEF ConvInv, Past
    <3>4. PICK quoted : quoted = IF "msg_id" \in has /\ r \in Saved THEN r ELSE NotQuoted
      OBVIOUS
    <3>5. /\ quoted \in Answer \cup {NotQuoted}
          /\ quoted # NotQuoted /\ quoted[2] \notin Legacy =>
               /\ o.to = quoted[2] /\ quoted \in DOMAIN started
               /\ o.name # NoSession /\ o.name = started[quoted]
      BY <3>1, <3>3, <3>4, Apart, Zenon
    <3>6. Forward(o.to, o.name, quoted)
      BY <2>3, <3>4, Zenon
    <3> QED
      BY <1>1, <3>2, <3>5, <3>6, ForwardJob, Zenon
  <2> QED
    BY <1>3, <2>1, <2>2, <2>3, Zenon DEF merge_routing_with_quote
<1> QED
  BY <1>2, <1>4, Zenon DEF ConvInv

\* An @mention.
LEMMA MentionKeeps ==
    ASSUME ConvInv, NEW to \in Agents, Mention(to)
    PROVE  ConvInv'
<1>1. /\ Receive /\ (Fault \/ NoFault)
      /\ UNCHANGED <<active, backend, route, queue, hold, replies, started>>
  BY Zenon DEF Mention
<1>2. Tables' /\ Past' /\ Hands'
  BY <1>1, ReceivedQuiet, Zenon
<1>3. PICK ctx \in BOOLEAN : ctx = ~Failed
  BY Zenon DEF Failed
<1>4. PICK name : name = <<"at", Next1>>
  BY Zenon
<1>5. name \in Names
  BY <1>1, <1>4, Received, Apart, Zenon
<1>6. disp' = Work("slot", to, NewMessage("mention", name, ctx), NotQuoted)
  BY <1>3, <1>4, Zenon DEF Mention
<1>7. Failed \/ ctx
  BY <1>3, Zenon
<1>8. Dispatcher'
  BY <1>1, <1>5, <1>6, <1>7, NewJob
<1> QED
  BY <1>2, <1>8, Zenon DEF ConvInv

\* /use.
LEMMA UseKeeps ==
    ASSUME ConvInv, NEW to \in Agents, handle_cmd_use(to)
    PROVE  ConvInv'
<1>1. /\ Receive /\ (Fault \/ NoFault) /\ (route' = to \/ route' = route)
      /\ UNCHANGED <<active, backend, disp, queue, hold, replies, started>>
  BY Zenon DEF handle_cmd_use
<1>2. Past' /\ Hands'
  BY <1>1, ReceivedFrame, BackendStays, Unmoved, Zenon DEF ConvInv
<1>3. Tables'
  BY <1>1 DEF ConvInv, Tables
<1>4. Dispatcher'
  BY <1>1, Received, Zenon DEF Dispatcher
<1> QED
  BY <1>2, <1>3, <1>4, Zenon DEF ConvInv

\* /session new.
LEMMA SessionNewKeeps ==
    ASSUME ConvInv, NEW name \in UserNames, NEW uuid \in {NoSid, Given},
           handle_cmd_session_new(name, uuid)
    PROVE  ConvInv'
<1>1. /\ Receive /\ (Fault \/ NoFault) /\ route # NoAgent
      /\ UNCHANGED <<active, route, queue, hold, replies, started>>
      /\ backend' = set_backend_session(backend, route, name, uuid)
      /\ disp' = Work("switch", route, NewMessage("forward", name, TRUE), NotQuoted)
  BY Zenon DEF handle_cmd_session_new, SessionCommand, Switching
<1>2. route \in Agents /\ name \in Names
  BY <1>1, Apart, Zenon DEF ConvInv, Tables
<1>3. uuid \in Sid /\ Earned(route, uuid, name, started)
  BY Apart, Zenon DEF Earned
<1>4. /\ BackendOK(backend') /\ IdsEarned(backend', started)
      /\ \A a \in Agents : DOMAIN backend[a] \subseteq DOMAIN backend'[a]
  BY <1>1, <1>2, <1>3, SetBackend, Zenon DEF ConvInv
<1>5. Grows
  BY <1>1, <1>4, Zenon DEF Grows
<1>6. Tables' /\ Past' /\ Hands'
  BY <1>1, <1>4, <1>5, TablesStay, ReceivedFrame, Zenon DEF ConvInv
<1>7. Dispatcher'
  BY Zenon, <1>1, <1>2, NewJob
<1> QED
  BY <1>6, <1>7, Zenon DEF ConvInv

\* /session use.
LEMMA SessionUseKeeps ==
    ASSUME ConvInv, NEW name \in UserNames, handle_cmd_session_use(name)
    PROVE  ConvInv'
<1>1. /\ Receive /\ (Fault \/ NoFault) /\ route # NoAgent
      /\ UNCHANGED <<active, backend, route, queue, hold, replies, started>>
  BY Zenon DEF handle_cmd_session_use, SessionCommand
<1>2. Tables' /\ Past' /\ Hands'
  BY <1>1, ReceivedQuiet, Zenon
<1>3. route \in Agents /\ name \in Names
  BY <1>1, Apart, Zenon DEF ConvInv, Tables
<1>4. PICK due \in {"create", "switch"} :
          disp' = Work(due, route, NewMessage("forward", name, TRUE), NotQuoted)
  BY Zenon DEF handle_cmd_session_use, Switching
<1>5. Dispatcher'
  BY Zenon, <1>1, <1>3, <1>4, NewJob
<1> QED
  BY <1>2, <1>5, Zenon DEF ConvInv

\* A message whose session the user deletes is excused.
LEMMA ExcuseIs ==
    ASSUME NEW m \in Message, NEW name
    PROVE  /\ Excuse(m, name) \in Message
           /\ Excuse(m, name).id = m.id /\ Excuse(m, name).kind = m.kind
           /\ Excuse(m, name).name = m.name /\ Excuse(m, name).sid = m.sid
           /\ Excuse(m, name).age = m.age /\ Excuse(m, name).ctx = m.ctx
           /\ ~Excuse(m, name).excused => ~m.excused /\ m.name # name
<1>1. CASE m.name = name
  <2>1. PICK e : e = [m EXCEPT !.excused = TRUE]
    BY Zenon
  <2>2. /\ e \in Message /\ e.id = m.id /\ e.kind = m.kind /\ e.name = m.name
        /\ e.sid = m.sid /\ e.age = m.age /\ e.ctx = m.ctx /\ e.excused
    BY Zenon, <2>1 DEF Message
  <2>3. Excuse(m, name) = e
    BY <1>1, <2>1, Zenon DEF Excuse
  <2> QED
    BY <2>2, <2>3, Zenon
<1>2. CASE m.name # name
  <2>1. Excuse(m, name) = m
    BY <1>2, Zenon DEF Excuse
  <2> QED
    BY <1>2, <2>1, Zenon
<1> QED
  BY <1>1, <1>2, Zenon

\* The slot of the deleted session is missed by no message that is not excused.
LEMMA InHandExcused ==
    ASSUME NEW a, NEW m, NEW name, NEW row, NEW slots, NEW st,
           InHandOK(a, m, row, slots, st)
    PROVE  InHandOK(a, Excuse(m, name), row, slots \ {name}, st)
<1> PICK e : e = Excuse(m, name)
  OBVIOUS
<1>1. m \in Message
  BY Zenon DEF InHandOK
<1>2. /\ e \in Message /\ e.id = m.id /\ e.kind = m.kind /\ e.name = m.name
      /\ e.sid = m.sid /\ e.age = m.age /\ e.ctx = m.ctx
      /\ ~e.excused => ~m.excused /\ m.name # name
  BY <1>1, ExcuseIs
<1>3. Entitled(e, row, slots \ {name})
  BY <1>2, Zenon DEF InHandOK, Entitled
<1> QED
  BY <1>2, <1>3, Zenon DEF InHandOK

\* An answer in a deleted session.
LEMMA HeldExcused ==
    ASSUME NEW a, NEW h, NEW name, NEW row, NEW slots, NEW st,
           HeldOK(a, h, row, slots, st)
    PROVE  HeldOK(a, [h EXCEPT !.msg = Excuse(@, name)], row, slots \ {name}, st)
<1>1. h \in Held /\ h.msg \in Message /\ InHandOK(a, h.msg, row, slots, st)
  BY Zenon DEF HeldOK, InHandOK
<1>2. PICK e : e = Excuse(h.msg, name)
  OBVIOUS
<1>3. /\ e \in Message /\ e.name = h.msg.name
      /\ InHandOK(a, e, row, slots \ {name}, st)
  <2>1. e \in Message /\ e.name = h.msg.name
    BY <1>1, <1>2, ExcuseIs
  <2> QED
    BY <1>1, <1>2, <2>1, InHandExcused, Zenon
<1>4. PICK g : g = [h EXCEPT !.msg = e]
  BY Zenon
<1>5. g \in Held /\ g.msg = e /\ g.name = h.name
  BY <1>1, <1>3, <1>4 DEF Held
<1>6. g = [h EXCEPT !.msg = Excuse(@, name)]
  BY <1>2, <1>4, Zenon
<1>7. HeldOK(a, g, row, slots \ {name}, st)
  BY <1>3, <1>5, Zenon DEF HeldOK
<1> QED
  BY <1>6, <1>7, Zenon

\* /session delete.
LEMMA SessionDeleteKeeps ==
    ASSUME ConvInv, NEW name \in Names, handle_cmd_session_delete(name)
    PROVE  ConvInv'
<1>1. /\ Receive /\ (Fault \/ NoFault) /\ route # NoAgent
      /\ UNCHANGED <<active, route, disp, replies, started>>
  BY Zenon DEF handle_cmd_session_delete, SessionCommand
<1> PICK b \in Agents : b = route
  BY <1>1, Zenon DEF ConvInv, Tables
<1> PICK f, D : f = backend[b] /\ D = DOMAIN backend[b]
  OBVIOUS
<1>2. BackendOK(backend) /\ IdsEarned(backend, started)
  BY BackendStays, Zenon DEF ConvInv, Tables, Past, BackendOK, IdsEarned
<1>3. /\ backend'[b] = [s \in D \ {name} |-> f[s]]
      /\ \A a \in Agents \ {b} : backend'[a] = backend[a]
      /\ backend' = [a \in Agents |-> backend'[a]]
  <2>1. backend' = [backend EXCEPT ![b] = [s \in D \ {name} |-> f[s]]]
    BY Zenon DEF handle_cmd_session_delete, delete_backend_session, Restrict
  <2>2. DOMAIN backend = Agents
    BY <1>2 DEF BackendOK
  <2> QED
    BY Zenon, <2>1, <2>2
<1>4. /\ DOMAIN backend'[b] = D \ {name}
      /\ \A s \in D \ {name} : backend'[b][s] = f[s]
  BY <1>3
<1>5. ASSUME NEW a \in Agents, NEW s \in DOMAIN backend'[a]
      PROVE  s \in DOMAIN backend[a] /\ backend'[a][s] = backend[a][s]
  <2>1. CASE a = b
    <3>1. s \in D \ {name}
      BY <1>4, <2>1, Zenon
    <3> QED
      BY <1>4, <2>1, <3>1
  <2>2. CASE a # b
    BY <1>3, <2>2, Zenon
  <2> QED
    BY <2>1, <2>2
<1>6. BackendOK(backend')
  <2>1. ASSUME NEW a \in Agents, NEW s \in DOMAIN backend'[a]
        PROVE  s \in Names /\ backend'[a][s] \in Sid
    BY <1>2, <1>5, Zenon DEF BackendOK
  <2> QED
    BY <1>3, <2>1, Zenon DEF BackendOK
<1>7. IdsEarned(backend', started)
  BY <1>2, <1>5, Zenon DEF IdsEarned
<1>8. Tables'
  BY <1>1, <1>6, TablesStay, Zenon DEF ConvInv
<1>9. Past' /\ Dispatcher'
  BY <1>1, <1>7, Received, FaultBounded, PastStays, Zenon DEF ConvInv, Dispatcher
<1>10. queue \in [Agents -> Seq(Message)] /\ hold \in [Agents -> SUBSET Held]
  BY Zenon DEF ConvInv, Hands
<1> PICK q \in Seq(Message), H \in SUBSET Held : q = queue[b] /\ H = hold[b]
  BY <1>10
<1>11. /\ queue' = [queue EXCEPT ![b] = [i \in DOMAIN q |-> Excuse(q[i], name)]]
       /\ hold' = [hold EXCEPT ![b] = {[h EXCEPT !.msg = Excuse(@, name)] : h \in H}]
  BY Zenon DEF handle_cmd_session_delete
<1>12. \A i \in DOMAIN q :
          InHandOK(b, Excuse(q[i], name), active[b], D \ {name}, started)
  BY InHandExcused, Zenon DEF ConvInv, Hands
<1>13. \A h \in H :
          HeldOK(b, [h EXCEPT !.msg = Excuse(@, name)], active[b], D \ {name}, started)
  BY HeldExcused, Zenon DEF ConvInv, Hands
<1>14. PICK p : p = [i \in DOMAIN q |-> Excuse(q[i], name)]
  BY ZenonT(40)
<1>15. p \in Seq(Message) /\ DOMAIN p = DOMAIN q
  <2>1. \A i \in DOMAIN q : Excuse(q[i], name) \in Message
    BY <1>12, Zenon DEF InHandOK
  <2>2. DOMAIN q = 1..Len(q) /\ Len(q) \in Nat
    BY SMTT(40)
  <2>3. p = [i \in 1..Len(q) |-> Excuse(q[i], name)]
    BY <1>14, <2>2
  <2> QED
    BY SMTT(40), <2>1, <2>2, <2>3
<1>16. PICK G : G = {[h EXCEPT !.msg = Excuse(@, name)] : h \in H}
  BY ZenonT(40)
<1>17. \A g \in G : HeldOK(b, g, active[b], D \ {name}, started) /\ g \in Held
  BY <1>13, <1>16, Zenon DEF HeldOK
<1>18. /\ queue' \in [Agents -> Seq(Message)] /\ queue'[b] = p
       /\ hold' \in [Agents -> SUBSET Held] /\ hold'[b] = G
       /\ \A a \in Agents \ {b} : queue'[a] = queue[a] /\ hold'[a] = hold[a]
  BY <1>10, <1>11, <1>14, <1>15, <1>16, <1>17
<1>19. ASSUME NEW a \in Agents, NEW i \in DOMAIN queue'[a]
       PROVE  InHandOK(a, queue'[a][i], active'[a], DOMAIN backend'[a], started')
  <2>1. CASE a = b
    <3>1. i \in DOMAIN q /\ queue'[a][i] = Excuse(q[i], name)
      BY <1>14, <1>15, <1>18, <2>1
    <3> QED
      BY <1>1, <1>4, <1>12, <2>1, <3>1, Zenon
  <2>2. CASE a # b
    BY <1>1, <1>3, <1>18, <2>2, Zenon DEF ConvInv, Hands
  <2> QED
    BY <2>1, <2>2
<1>20. ASSUME NEW a \in Agents, NEW h \in hold'[a]
       PROVE  HeldOK(a, h, active'[a], DOMAIN backend'[a], started')
  <2>1. CASE a = b
    BY <1>1, <1>4, <1>17, <1>18, <2>1, Zenon
  <2>2. CASE a # b
    BY <1>1, <1>3, <1>18, <2>2, Zenon DEF ConvInv, Hands
  <2> QED
    BY <2>1, <2>2
<1>21. Hands'
  BY <1>18, <1>19, <1>20, Zenon DEF Hands
<1> QED
  BY <1>8, <1>9, <1>21, Zenon DEF ConvInv

\* /broadcast.
LEMMA BroadcastKeeps ==
    ASSUME ConvInv, handle_cmd_broadcast
    PROVE  ConvInv'
<1>1. /\ Receive /\ (Fault \/ NoFault)
      /\ UNCHANGED <<active, backend, route, queue, hold, replies, started>>
      /\ disp' = [pc |-> "broadcast", todo |-> Agents, quoted |-> NotQuoted]
  BY Zenon DEF handle_cmd_broadcast
<1>2. Tables' /\ Past' /\ Hands'
  BY <1>1, ReceivedQuiet, Zenon
<1>3. disp' \in Broadcast /\ disp'.todo = Agents
  BY <1>1 DEF Broadcast
<1>4. BroadcastOK(disp)'
  BY <1>1, <1>3, Received, Zenon DEF BroadcastOK
<1> QED
  BY <1>2, <1>4, Zenon DEF ConvInv, Dispatcher
-----------------------------------------------------------------------------
(* The invariant and what it implies *)

\* Nothing has happened yet.
LEMMA InitKeeps ==
    ASSUME ConversationInit
    PROVE  ConvInv
<1>1. /\ sent = 0 /\ faults = 0 /\ disp = Idle /\ route = DefaultClient
      /\ DOMAIN started = {} /\ DOMAIN replies = {}
  BY DEF ConversationInit
<1>2. /\ active = [a \in Agents |-> NoRow] /\ backend = [a \in Agents |-> <<>>]
      /\ queue = [a \in Agents |-> <<>>] /\ hold = [a \in Agents |-> {}]
  BY Zenon DEF ConversationInit
<1>3. Tables
  <2>1. active \in [Agents -> Rows]
    BY <1>2 DEF Rows
  <2>2. backend = [a \in Agents |-> backend[a]] /\ \A a \in Agents : DOMAIN backend[a] = {}
    BY <1>2
  <2>3. route \in Agents \cup {NoAgent}
    BY SMTT(40), <1>1, ConversationConstants
  <2> QED
    BY <2>1, <2>2, <2>3 DEF Tables
<1>4. Past
  <2>1. \A a \in Agents : DOMAIN backend[a] = {}
    BY <1>2
  <2>2. 0 \in 0..MaxMsgs /\ 0 \in 0..MaxFaults
    BY SMTT(40), ConversationConstants
  <2> QED
    BY <1>1, <2>1, <2>2 DEF Past
<1>5. Hands
  <2>1. /\ queue \in [Agents -> Seq(Message)] /\ hold \in [Agents -> SUBSET Held]
        /\ \A a \in Agents : DOMAIN queue[a] = {} /\ hold[a] = {}
    BY <1>2
  <2> QED
    BY <2>1 DEF Hands
<1> QED
  BY <1>1, <1>3, <1>4, <1>5, Zenon DEF ConvInv, Dispatcher

\* A stuttering step.
LEMMA StutterKeeps ==
    ASSUME ConvInv, UNCHANGED conversationVars
    PROVE  ConvInv'
<1>1. UNCHANGED <<active, backend, route, disp, queue, hold, replies, sent, started, faults>>
  BY Zenon DEF conversationVars
<1>2. Grows /\ BackendOK(backend') /\ IdsEarned(backend', started)
  BY <1>1, Unmoved, BackendStays, Zenon DEF ConvInv
<1> QED
  BY <1>1, <1>2, TablesStay, PastQuiet, HandsStay, DispatcherStays, Zenon
     DEF ConvInv, NoFault

\* Every step keeps the invariant.
LEMMA NextKeeps ==
    ASSUME ConvInv, ConversationNext
    PROVE  ConvInv'
<1>1. CASE UserStep
  BY <1>1, PlainMessageKeeps, BroadcastKeeps, QuoteReplyKeeps, MentionKeeps, UseKeeps,
     SessionNewKeeps, SessionUseKeeps, SessionDeleteKeeps, Zenon DEF UserStep
<1>2. CASE DispatcherStep
  BY <1>2, HubExtKeeps, GrantKeeps, PushKeeps, CreateMentionSlotKeeps, CreateSlotKeeps,
     SwitchSessionKeeps, BroadcastToKeeps, Zenon DEF DispatcherStep
<1>3. CASE AgentStep
  BY <1>3, TakeKeeps, SendCheckKeeps, SendAnswerKeeps, SaveReplyKeeps, Zenon DEF AgentStep
<1>4. CASE Tick
  BY <1>4, TimeKeeps, Zenon
<1> QED
  BY <1>1, <1>2, <1>3, <1>4, Zenon DEF ConversationNext

\* The inductive invariant: tables, history, messages in hand and the
\* dispatcher's message agree.
THEOREM ConversationInvariance == ConversationSpec => []ConvInv
<1>1. ConversationInit => ConvInv
  BY InitKeeps
<1>2. ConvInv /\ [ConversationNext]_conversationVars => ConvInv'
  BY NextKeeps, StutterKeeps, Zenon
<1> QED
  BY <1>1, <1>2, PTL DEF ConversationSpec

\* Whoever is handed a message may answer it until the grant runs out.
THEOREM HandedMayAnswer == ConversationSpec => []MayAnswer
<1>1. ConvInv => MayAnswer
  <2>1. SUFFICES ASSUME ConvInv, NEW a \in Agents, NEW m \in InHand(a),
                        m.kind \in {"forward", "mention"}, ~m.excused, m.age < GrantTtl
                 PROVE  Owns(a, m)
    BY Zenon DEF MayAnswer
  <2>2. InHandOK(a, m, active[a], DOMAIN backend[a], started)
    BY <2>1, Zenon DEF InHand, ConvInv, Hands, HeldOK
  <2>3. /\ m.ctx
        /\ m.kind = "forward" => HasRow(active[a]) /\ active[a].age <= m.age
        /\ m.kind = "mention" => m.name \in DOMAIN backend[a]
    BY <2>1, <2>2, Zenon DEF InHandOK, Entitled
  <2>4. CASE m.kind = "forward"
    <3>1. active[a] \in Rows /\ m.age \in 0..GrantTtl
      BY SMTT(40), <2>1, <2>2 DEF ConvInv, Tables, InHandOK, Message
    <3>2. active[a].age \in Nat
      BY <3>1, GrantTtlAssumption DEF Rows, NoRow, Row
    <3>3. active[a].age < GrantTtl
      BY <2>1, <2>3, <2>4, <3>1, <3>2, GrantTtlAssumption
    <3> QED
      BY <2>3, <2>4, <3>3, Zenon DEF Owns, vtoken_owns_vctx, Unexpired
  <2>5. CASE m.kind = "mention"
    BY <2>3, <2>5, Zenon DEF Owns, vtoken_owns_vctx
  <2> QED
    BY <2>1, <2>4, <2>5
<1> QED
  BY <1>1, ConversationInvariance, PTL

\* Every session id is stored under the session that earned it.
THEOREM SessionsAreCoherent == ConversationSpec => []SessionsCoherent
<1>1. ConvInv => ConversationTypeOK
  <2>1. SUFFICES ASSUME ConvInv
                 PROVE  ConversationTypeOK
    BY SMTT(40)
  <2>2. disp = Idle \/ (disp.pc \in Pcs /\ disp.quoted \in Answer \cup {NotQuoted})
    BY <2>1 DEF ConvInv, Dispatcher, JobOK, BroadcastOK, Job, Broadcast, Pcs
  <2>3. \A a \in Agents :
          /\ \A i \in DOMAIN queue[a] : queue[a][i] \in Message
          /\ \A h \in hold[a] : h.msg \in Message /\ h.name \in Names \cup {NoSession}
    <3>1. \A a \in Agents : \A i \in DOMAIN queue[a] : queue[a][i] \in Message
      BY <2>1, Zenon DEF ConvInv, Hands, InHandOK
    <3>2. \A a \in Agents : \A h \in hold[a] : h \in Held
      BY <2>1, Zenon DEF ConvInv, Hands, HeldOK
    <3>3. \A h \in Held : h.msg \in Message /\ h.name \in Names \cup {NoSession}
      BY DEF Held
    <3> QED
      BY <3>1, <3>2, <3>3, Zenon
  <2>4. active \in [Agents -> {NoRow} \cup [name : Names, depth : {0}, age : 0..GrantTtl]]
    BY <2>1, Zenon DEF ConvInv, Tables, Rows
  <2> QED
    BY <2>1, <2>2, <2>3, <2>4, Zenon DEF ConvInv, Tables, Past, ConversationTypeOK
<1>2. ConvInv => SidInOwnSession
  BY Zenon DEF ConvInv, Past, SidInOwnSession, Earned
<1> QED
  BY <1>1, <1>2, ConversationInvariance, PTL DEF SessionsCoherent

\* A quote-reply reaches the backend that gave the answer, in its session.
THEOREM QuotesReachTheirAuthor == ConversationSpec => []QuoteReachesAuthor
<1>1. ConvInv => QuoteReachesAuthor
  <2>1. SUFFICES ASSUME ConvInv, disp # Idle, disp.quoted # NotQuoted,
                        disp.quoted[2] \notin Legacy
                 PROVE  /\ disp.to = disp.quoted[2]
                        /\ disp.msg.excused \/ disp.msg.name = started[disp.quoted]
    BY Zenon DEF QuoteReachesAuthor
  <2>2. ~BroadcastOK(disp)
    BY <2>1 DEF BroadcastOK, Broadcast
  <2> QED
    BY <2>1, <2>2, Zenon DEF ConvInv, Dispatcher, JobOK, QuoteOK
<1> QED
  BY <1>1, ConversationInvariance, PTL
=============================================================================
