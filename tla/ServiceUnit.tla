------------------------------ MODULE ServiceUnit ------------------------------
(* `rusno service install` and `uninstall` (main.rs) against systemd: the unit *)
(* file, what systemd has loaded, the link that starts it at boot, and the     *)
(* process.  Commands are typed again with another port, may fail in every     *)
(* step, be interrupted, overlap, and meet a reboot, a process that dies and   *)
(* the restart at the end of `rusno update`.  A unit is known by its port.     *)
EXTENDS Integers, FiniteSets

CONSTANTS
  Command,      \* slots for commands at work at the same time
  Port          \* the ports an admin may ask for, positive

VARIABLES
  unit,         \* the port in /etc/systemd/system/rusno.service
  loaded,       \* the port in the unit that systemd has loaded
  enabled,      \* the link in multi-user.target.wants is there
  process,      \* the port that rusno serves or, after a failure, will again
  command,      \* the commands at work
  promised,     \* history: the port of the last install that was reported done,
                \* NoPort once another command has begun
  mixed         \* history: two commands were at work at the same time

disk == <<unit, enabled>>
systemd == <<loaded, process>>
history == <<promised, mixed>>
vars == <<disk, systemd, command, history>>

NoPort == 0
Cut == -1      \* a unit file that is not written to its end
Idle == [pc |-> "idle", port |-> NoPort]

Init ==
  /\ unit = NoPort /\ loaded = NoPort /\ enabled = FALSE /\ process = NoPort
  /\ command = [c \in Command |-> Idle]
  /\ promised = NoPort /\ mixed = FALSE

At(c, pc) == command[c].pc = pc
Goto(c, pc) == command' = [command EXCEPT ![c].pc = pc]
Done(c) == command' = [command EXCEPT ![c] = Idle]

-------------------------------------------------------------------------------
(* systemd: what its commands do, and life without commands *)

DaemonReload == loaded' = unit
EnableUnit == unit \in Port /\ enabled' = TRUE /\ loaded' = unit
StopUnit == process' = NoPort
\* Mutant of RestartUnit: a unit that runs is left alone.
StartUnit ==
  /\ loaded \in Port
  /\ process' = IF process = NoPort THEN loaded ELSE process
RestartUnit == loaded \in Port /\ process' = loaded

\* A process that fails is started again, from what is loaded by then.
Respawn ==
  /\ process # NoPort
  /\ process' = loaded
  /\ loaded \in Port
  /\ UNCHANGED <<disk, loaded, command, history>>

\* The end of `rusno update`: a restart, when the unit file is there.
UpdateRestarts ==
  /\ unit # NoPort
  /\ RestartUnit
  /\ UNCHANGED <<disk, loaded, command, history>>

Reboot ==
  /\ loaded' = unit
  /\ process' = IF enabled /\ unit \in Port THEN unit ELSE NoPort
  /\ command' = [c \in Command |-> Idle]
  /\ UNCHANGED <<disk, history>>

-------------------------------------------------------------------------------
(* The commands *)

Begin(c, pc, port) ==
  /\ command[c] = Idle
  /\ command' = [command EXCEPT ![c] = [pc |-> pc, port |-> port]]
  /\ promised' = NoPort
  /\ mixed' = (mixed \/ \E d \in Command : command[d] # Idle)
  /\ UNCHANGED <<disk, systemd>>

\* Without systemctl, without root or without a home directory for the user it
\* ends before this.
Install(c) == \E port \in Port : Begin(c, "write", port)
Uninstall(c) == Begin(c, "stop", NoPort)

\* Every error of a step is an early return, and leaves what was done; so does
\* an interrupt.
Fail(c) ==
  /\ command[c].pc \in {"write", "daemon-reload", "enable", "restart", "remove"}
  /\ unit' \in {unit} \cup (IF At(c, "write") THEN {Cut} ELSE {})
  /\ Done(c)
  /\ UNCHANGED <<enabled, systemd, history>>

WriteUnit(c) ==
  /\ At(c, "write")
  /\ unit' = command[c].port
  /\ Goto(c, "daemon-reload")
  /\ UNCHANGED <<enabled, systemd, history>>

Reload(c) ==
  /\ At(c, "daemon-reload")
  /\ DaemonReload
  /\ Goto(c, "enable")
  /\ UNCHANGED <<disk, process, history>>

Enable(c) ==
  /\ At(c, "enable")
  /\ EnableUnit
  /\ Goto(c, "restart")
  /\ UNCHANGED <<unit, process, history>>

\* Mutant of Restart: systemctl start.
StartOnly(c) ==
  /\ At(c, "restart")
  /\ StartUnit
  /\ Done(c)
  /\ promised' = command[c].port
  /\ UNCHANGED <<disk, loaded, mixed>>

Restart(c) ==
  /\ At(c, "restart")
  /\ RestartUnit
  /\ Done(c)
  /\ promised' = command[c].port
  /\ UNCHANGED <<disk, loaded, mixed>>

\* stop and disable: an error is ignored, as nothing may be installed.
Stop(c) ==
  /\ At(c, "stop")
  /\ StopUnit \/ UNCHANGED process
  /\ Goto(c, "disable")
  /\ UNCHANGED <<disk, loaded, history>>

Disable(c) ==
  /\ At(c, "disable")
  /\ \/ enabled' = FALSE /\ loaded' = unit
     \/ UNCHANGED <<enabled, loaded>>
  /\ Goto(c, "remove")
  /\ UNCHANGED <<unit, process, history>>

RemoveUnit(c) ==
  /\ At(c, "remove")
  /\ unit' = NoPort
  /\ Goto(c, "forget")
  /\ UNCHANGED <<enabled, systemd, history>>

Forget(c) ==
  /\ At(c, "forget")
  /\ DaemonReload \/ UNCHANGED loaded
  /\ Done(c)
  /\ UNCHANGED <<disk, process, history>>

Next ==
  \/ Respawn \/ UpdateRestarts \/ Reboot
  \/ \E c \in Command :
       \/ Install(c) \/ WriteUnit(c) \/ Reload(c) \/ Enable(c) \/ Restart(c)
       \/ Uninstall(c) \/ Stop(c) \/ Disable(c) \/ RemoveUnit(c) \/ Forget(c)
       \/ Fail(c)

Spec == Init /\ [][Next]_vars

-------------------------------------------------------------------------------
(* Properties *)

TypeOK ==
  /\ {unit, loaded} \subseteq Port \cup {NoPort, Cut}
  /\ enabled \in BOOLEAN /\ mixed \in BOOLEAN
  /\ {process, promised} \subseteq Port \cup {NoPort}
  /\ command \in [Command ->
       [pc : {"idle", "write", "daemon-reload", "enable", "restart",
              "stop", "disable", "remove", "forget"},
        port : Port \cup {NoPort}]]

\* "rusno service installed and started": from then on, until another command
\* begins, rusno serves the port that was asked for, across reboots, failures
\* and updates, and whatever was installed, half installed or half removed
\* before (main.rs:429-441).
InstalledStays ==
  promised # NoPort /\ ~mixed => enabled /\ {unit, loaded, process} = {promised}

===============================================================================
