--------------------------- MODULE OperationsProofs ---------------------------
(* Theorems about the components that MCOperations runs side by side, each for *)
(* every value of its constants.  A component rests while another is in focus, *)
(* so that what its own specification promises holds of the whole: each proof  *)
(* is about the component alone, and the step from one to the other is the     *)
(* same for all of them.                                                       *)
EXTENDS MCOperations, RegistryProofs

--------------------------------------------------------------------------------
(* A behaviour of the whole is one of each component                           *)

LEMMA RegistryRuns == OperationsSpec => Spec
<1>1. StartInit => Init
  BY DEF StartInit
<1>2. [AnyStep]_allVars => [Next]_vars
  BY DEF AnyStep, allVars, RegistryStep, EditorStep, UpdateStep, UnitStep, KeyStep, TuiStep,
     PagesStep
<1>. QED
  BY <1>1, <1>2, PTL DEF OperationsSpec, Spec

LEMMA KeyRuns == OperationsSpec => Key!Spec
<1>1. StartInit => Key!Init
  BY DEF StartInit
<1>2. [AnyStep]_allVars => [Key!Next]_(Key!vars)
  BY DEF AnyStep, allVars, RegistryStep, EditorStep, UpdateStep, UnitStep, KeyStep, TuiStep,
     PagesStep, keyFileVars, Key!vars, Key!keyVars
<1>. QED
  BY <1>1, <1>2, PTL DEF OperationsSpec, Key!Spec

--------------------------------------------------------------------------------
(* keys/master.key                                                             *)

\* Until two processes have met in making the file, at most one makes it, the
\* others have not looked for it yet, and who has a key has that of the file.
Making(p) == proc[p].pc \in {"create", "write"}
Holding(p) == proc[p].pc \in {"bind", "up"}

KeyInv ==
  /\ Key!TypeOK
  /\ \A p \in Request :
       /\ Making(p) => proc[p].key # Key!None
       /\ ~Making(p) /\ ~Holding(p) => proc[p].key = Key!None
       /\ proc[p].pc = "idle" => proc[p].op = "none"
  /\ overlappedKeys
     \/ /\ \A p, q \in Request : Making(p) /\ Making(q) => p = q
        /\ \A p \in Request :
             /\ proc[p].pc = "create" => file = Key!None
             /\ proc[p].pc = "write" => file = Key!Blank
             /\ Holding(p) => proc[p].key = file
             /\ Holding(p) \/ proc[p].pc = "read" =>
                  file # Key!None /\ \A q \in Request : ~Making(q)
        /\ file = Key!None \/ (\E p \in Request : Making(p)) => token = Key!None
        /\ token \in {Key!None, file}

KeyProcess ==
  [pc : {"idle", "exists", "create", "write", "read", "bind", "up"},
   op : {"none", "init", "serve"}, key : Key!Keys \cup {Key!None}]

\* The process p goes from its state to another, and the others stay.
LEMMA KeyMoves ==
  ASSUME KeyInv, NEW p \in Request, NEW new \in KeyProcess, proc' = [proc EXCEPT ![p] = new]
  PROVE  /\ proc' \in [Request -> KeyProcess]
         /\ proc'[p] = new
         /\ \A q \in Request : q # p => proc'[q] = proc[q]
BY DEF KeyInv, Key!TypeOK, KeyProcess

LEMMA KeyTyped ==
  ASSUME KeyInv
  PROVE  /\ proc \in [Request -> KeyProcess]
         /\ \A p \in Request :
              /\ proc[p] \in KeyProcess
              /\ Making(p) => proc[p].key \in 1..MaxKey \cup {Key!Blank}
BY DEF KeyInv, Key!TypeOK, KeyProcess, Making, Key!Keys, Key!None

LEMMA MaxKeyIsNat == MaxKey \in Nat
BY CountersAssumption

LEMMA KeyInit == Key!Init => KeyInv
<1>. SUFFICES ASSUME Key!Init PROVE KeyInv
  OBVIOUS
<1>1. Key!Idle \in KeyProcess
  BY DEF Key!Idle, KeyProcess, Key!None
<1>2. proc \in [Request -> KeyProcess] /\ \A p \in Request : proc[p] = Key!Idle
  BY <1>1 DEF Key!Init
<1>3. Key!TypeOK
  <2>1. {file, token} \subseteq Key!Keys \cup {Key!None} /\ overlappedKeys \in BOOLEAN
    BY DEF Key!Init
  <2>2. generated \in 0..MaxKey
    BY MaxKeyIsNat DEF Key!Init
  <2>. QED
    BY <1>2, <2>1, <2>2 DEF Key!TypeOK, KeyProcess
<1>. QED
  BY <1>2, <1>3 DEF Key!Init, KeyInv, Making, Holding, Key!Idle

\* A step that leaves the file and the token, and makes no key.
LEMMA KeyRests ==
  ASSUME KeyInv, NEW p \in Request, NEW new \in KeyProcess, proc' = [proc EXCEPT ![p] = new],
         UNCHANGED <<file, generated, token>>,
         overlappedKeys' \in BOOLEAN, overlappedKeys => overlappedKeys',
         new.pc \notin {"create", "write"},
         new.pc = "idle" => new.op = "none",
         new.pc \notin {"bind", "up"} => new.key = Key!None,
         ~overlappedKeys /\ ~overlappedKeys' /\ new.pc \in {"read", "bind", "up"} =>
           /\ file # Key!None /\ \A q \in Request : ~Making(q)
           /\ new.pc # "read" => new.key = file
  PROVE  KeyInv'
<1>1. /\ proc' \in [Request -> KeyProcess]
      /\ proc'[p] = new
      /\ \A q \in Request : q # p => proc'[q] = proc[q]
  BY KeyMoves
<1>2. Key!TypeOK'
  BY <1>1 DEF KeyInv, Key!TypeOK, KeyProcess
<1>3. \A q \in Request : Making(q)' => Making(q)
  BY <1>1 DEF Making
<1>. QED
  BY <1>1, <1>2, <1>3 DEF KeyInv, Making, Holding

LEMMA IdleProcess ==
  /\ Key!Idle \in KeyProcess
  /\ Key!Idle.pc = "idle" /\ Key!Idle.op = "none" /\ Key!Idle.key = Key!None
BY DEF KeyProcess, Key!Idle

LEMMA KeyEnds ==
  ASSUME KeyInv, NEW p \in Request, Key!Done(p), UNCHANGED <<file, generated, token>>,
         overlappedKeys' \in BOOLEAN, overlappedKeys => overlappedKeys'
  PROVE  KeyInv'
BY IdleProcess, KeyRests DEF Key!Done

LEMMA KeyStarts ==
  ASSUME KeyInv, NEW p \in Request, Key!Start(p)
  PROVE  KeyInv'
<1>1. PICK op \in {"init", "serve"} :
        proc' = [proc EXCEPT ![p] = [Key!Idle EXCEPT !.pc = "exists", !.op = op]]
  BY DEF Key!Start
<1>. DEFINE new == [Key!Idle EXCEPT !.pc = "exists", !.op = op]
<1>2. new \in KeyProcess /\ new.pc = "exists" /\ new.key = Key!None
  BY DEF KeyProcess, Key!Idle
<1>3. proc' = [proc EXCEPT ![p] = new]
  BY <1>1
<1>4. UNCHANGED <<file, generated, token, overlappedKeys>> /\ overlappedKeys \in BOOLEAN
  BY DEF Key!Start, Key!keyVars, KeyInv, Key!TypeOK
<1>. HIDE DEF new
<1>. QED
  BY <1>2, <1>3, <1>4, KeyRests

LEMMA KeyLooks ==
  ASSUME KeyInv, NEW p \in Request, Key!Exists(p)
  PROVE  KeyInv'
<1>1. /\ UNCHANGED <<file, token>>
      /\ overlappedKeys' \in BOOLEAN
      /\ overlappedKeys => overlappedKeys'
      /\ overlappedKeys' \/ \A q \in Request : ~Making(q)
  BY DEF Key!Exists, Key!Looks, Making, KeyInv, Key!TypeOK
<1>2. proc[p] \in KeyProcess /\ proc[p].key = Key!None
  BY KeyTyped DEF KeyInv, Key!Exists, Key!At, Making, Holding
<1>3. CASE file # Key!None /\ UNCHANGED generated /\ Key!Goto(p, "read")
  <2>. DEFINE new == [proc[p] EXCEPT !.pc = "read"]
  <2>1. new \in KeyProcess /\ new.pc = "read" /\ new.key = Key!None
    BY <1>2 DEF KeyProcess
  <2>2. proc' = [proc EXCEPT ![p] = new]
    BY <1>3 DEF Key!Goto
  <2>. HIDE DEF new
  <2>. QED
    BY <1>1, <1>3, <2>1, <2>2, KeyRests
<1>4. CASE UNCHANGED generated /\ Key!Done(p)
  BY <1>1, <1>4, KeyEnds
<1>5. CASE file = Key!None /\ Key!Generate(p)
  <2>. DEFINE new == [proc[p] EXCEPT !.pc = "create", !.key = generated + 1]
  <2>1. generated + 1 \in 1..MaxKey /\ generated' = generated + 1
    BY <1>5, MaxKeyIsNat DEF Key!Generate, KeyInv, Key!TypeOK
  <2>2. new \in KeyProcess /\ new.pc = "create" /\ new.key # Key!None
    <3>1. generated + 1 \in Key!Keys \cup {Key!None} /\ generated + 1 # Key!None
      BY <2>1 DEF Key!Keys, Key!None
    <3>. QED
      BY <1>2, <3>1 DEF KeyProcess
  <2>3. proc' = [proc EXCEPT ![p] = new]
    BY <1>5 DEF Key!Generate
  <2>. HIDE DEF new
  <2>4. /\ proc' \in [Request -> KeyProcess]
        /\ proc'[p] = new
        /\ \A q \in Request : q # p => proc'[q] = proc[q]
    BY <2>2, <2>3, KeyMoves
  <2>5. Key!TypeOK'
    BY <1>1, <2>1, <2>4, MaxKeyIsNat DEF KeyInv, Key!TypeOK, KeyProcess
  <2>6. overlappedKeys' \/ \A q \in Request : Making(q)' => q = p
    BY <1>1, <2>4 DEF Making
  <2>. QED
    BY <1>1, <1>5, <2>2, <2>4, <2>5, <2>6 DEF KeyInv, Making, Holding
<1>. QED
  BY <1>3, <1>4, <1>5 DEF Key!Exists

LEMMA KeyCreates ==
  ASSUME KeyInv, NEW p \in Request, Key!Create(p)
  PROVE  KeyInv'
<1>. DEFINE new == [proc[p] EXCEPT !.pc = "write"]
<1>1. proc[p] \in KeyProcess /\ Making(p) /\ proc[p].key # Key!None /\ proc[p].pc = "create"
  BY KeyTyped DEF KeyInv, Key!Create, Key!At, Making
<1>2. new \in KeyProcess /\ new.pc = "write" /\ new.key # Key!None
  BY <1>1 DEF KeyProcess
<1>3. proc' = [proc EXCEPT ![p] = new]
  BY DEF Key!Create, Key!Goto
<1>. HIDE DEF new
<1>4. /\ proc' \in [Request -> KeyProcess]
      /\ proc'[p] = new
      /\ \A q \in Request : q # p => proc'[q] = proc[q]
  BY <1>2, <1>3, KeyMoves
<1>5. file' = Key!Blank /\ UNCHANGED <<generated, token, overlappedKeys>>
  BY DEF Key!Create
<1>6. Key!TypeOK'
  BY <1>4, <1>5 DEF KeyInv, Key!TypeOK, KeyProcess, Key!Keys
<1>7. \A q \in Request : Making(q)' <=> Making(q)
  BY <1>1, <1>2, <1>4 DEF Making
<1>. QED
  BY <1>1, <1>2, <1>4, <1>5, <1>6, <1>7 DEF KeyInv, Making, Holding

\* A server goes on with its key, and init ends.
LEMMA KeyContinues ==
  ASSUME KeyInv, NEW p \in Request, NEW key \in Key!Keys \cup {Key!None}, Key!Continue(p, key)
  PROVE  \E new \in KeyProcess :
           /\ proc' = [proc EXCEPT ![p] = new]
           /\ new = Key!Idle \/ (new.pc = "bind" /\ new.key = key)
<1>. DEFINE bound == [proc[p] EXCEPT !.pc = "bind", !.key = key]
<1>1. bound \in KeyProcess /\ bound.pc = "bind" /\ bound.key = key
  BY KeyTyped DEF KeyProcess
<1>2. proc' = [proc EXCEPT ![p] = IF proc[p].op = "serve" THEN bound ELSE Key!Idle]
  BY KeyTyped DEF Key!Continue
<1>. HIDE DEF bound
<1>. QED
  BY <1>1, <1>2, IdleProcess

LEMMA KeyWrites ==
  ASSUME KeyInv, NEW p \in Request, Key!Write(p)
  PROVE  KeyInv'
<1>1. /\ proc[p] \in KeyProcess /\ Making(p) /\ proc[p].pc = "write"
      /\ proc[p].key \in Key!Keys /\ proc[p].key # Key!None
  BY KeyTyped DEF KeyInv, Key!Write, Key!At, Making, KeyProcess
<1>2. PICK new \in KeyProcess :
        /\ proc' = [proc EXCEPT ![p] = new]
        /\ new = Key!Idle \/ (new.pc = "bind" /\ new.key = proc[p].key)
  BY <1>1, KeyContinues, IdleProcess DEF Key!Write, Key!Done
<1>3. /\ proc' \in [Request -> KeyProcess]
      /\ proc'[p] = new
      /\ \A q \in Request : q # p => proc'[q] = proc[q]
  BY <1>2, KeyMoves
<1>4. file' = proc[p].key /\ UNCHANGED <<generated, token, overlappedKeys>>
  BY DEF Key!Write
<1>5. Key!TypeOK'
  BY <1>1, <1>3, <1>4 DEF KeyInv, Key!TypeOK, KeyProcess
<1>6. \A q \in Request : Making(q)' => Making(q) /\ q # p
  BY <1>2, <1>3, IdleProcess DEF Making
<1>. QED
  BY <1>1, <1>2, <1>3, <1>4, <1>5, <1>6, IdleProcess DEF KeyInv, Making, Holding

LEMMA KeyReads ==
  ASSUME KeyInv, NEW p \in Request, Key!Read(p)
  PROVE  KeyInv'
<1>1. file \in Key!Keys \cup {Key!None} /\ overlappedKeys \in BOOLEAN /\ proc[p].pc = "read"
  BY DEF KeyInv, Key!TypeOK, Key!Read, Key!At
<1>2. PICK new \in KeyProcess :
        /\ proc' = [proc EXCEPT ![p] = new]
        /\ new = Key!Idle \/ (new.pc = "bind" /\ new.key = file)
  BY <1>1, KeyContinues DEF Key!Read
<1>3. UNCHANGED <<file, generated, token, overlappedKeys>>
  BY DEF Key!Read, Key!keyVars
<1>4. overlappedKeys \/ (file # Key!None /\ \A q \in Request : ~Making(q))
  BY <1>1 DEF KeyInv
<1>. QED
  BY <1>1, <1>2, <1>3, <1>4, IdleProcess, KeyRests

LEMMA KeyBinds ==
  ASSUME KeyInv, NEW p \in Request, Key!Bind(p)
  PROVE  KeyInv'
<1>1. UNCHANGED <<file, generated, token, overlappedKeys>> /\ overlappedKeys \in BOOLEAN
  BY DEF KeyInv, Key!TypeOK, Key!Bind, Key!keyVars
<1>2. CASE Key!Done(p)
  BY <1>1, <1>2, KeyEnds
<1>3. CASE Key!Goto(p, "up")
  <2>. DEFINE new == [proc[p] EXCEPT !.pc = "up"]
  <2>1. proc[p] \in KeyProcess /\ Holding(p)
    BY KeyTyped DEF Key!Bind, Key!At, Holding
  <2>2. new \in KeyProcess /\ new.pc = "up" /\ new.key = proc[p].key
    BY <2>1 DEF KeyProcess
  <2>3. proc' = [proc EXCEPT ![p] = new]
    BY <1>3 DEF Key!Goto
  <2>. HIDE DEF new
  <2>4. overlappedKeys \/ /\ file # Key!None /\ proc[p].key = file
                          /\ \A q \in Request : ~Making(q)
    BY <2>1 DEF KeyInv
  <2>. QED
    BY <1>1, <2>2, <2>3, <2>4, KeyRests
<1>. QED
  BY <1>2, <1>3 DEF Key!Bind

LEMMA KeyTokens ==
  ASSUME KeyInv, NEW p \in Request, Key!SaveToken(p) \/ Key!RemoveToken(p)
  PROVE  KeyInv'
<1>1. /\ proc[p] \in KeyProcess /\ Holding(p)
      /\ UNCHANGED <<file, generated, proc, overlappedKeys>>
      /\ token' \in {Key!None, proc[p].key}
  BY KeyTyped DEF Key!SaveToken, Key!RemoveToken, Key!At, Holding, Key!keyVars
<1>2. Key!TypeOK'
  BY <1>1 DEF KeyInv, Key!TypeOK, KeyProcess
<1>. QED
  BY <1>1, <1>2 DEF KeyInv, Making, Holding

LEMMA KeySteps == KeyInv /\ [Key!Next]_(Key!vars) => KeyInv'
<1>. SUFFICES ASSUME KeyInv, [Key!Next]_(Key!vars)
              PROVE  KeyInv'
  OBVIOUS
<1>1. CASE UNCHANGED Key!vars
  BY <1>1 DEF Key!vars, Key!keyVars, KeyInv, Key!TypeOK, Making, Holding
<1>2. ASSUME NEW p \in Request, Key!Stop(p) PROVE KeyInv'
  BY <1>2, KeyEnds DEF Key!Stop, Key!keyVars, KeyInv, Key!TypeOK
<1>. QED
  BY <1>1, <1>2, KeyStarts, KeyLooks, KeyCreates, KeyWrites, KeyReads, KeyBinds, KeyTokens
     DEF Key!Next

\* The stored GitHub token can be decrypted with the key that the next start
\* reads, through any restarts, repeated inits and creations that were cut
\* short; only processes that met in making the file may end with different
\* keys (main.rs:153-158, main.rs:243-253).
THEOREM TokenSurvives == OperationsSpec => []TokenReadable
<1>1. KeyInv => TokenReadable
  BY DEF KeyInv, TokenReadable, Key!TokenReadable, Key!None
<1>. QED
  BY KeyRuns, KeyInit, KeySteps, <1>1, PTL DEF Key!Spec

--------------------------------------------------------------------------------
(* The unit of systemd                                                         *)

\* Until two commands have overlapped, at most one is at work, and nobody has
\* touched what the steps of a lone install leave behind.
UnitStage(c) ==
  LET port == command[c].port IN
  /\ command[c].pc \in {"write", "daemon-reload", "enable", "restart"} => port \in Port
  /\ command[c].pc \in {"daemon-reload", "enable", "restart"} => unit = port
  /\ command[c].pc \in {"enable", "restart"} => loaded = port
  /\ command[c].pc = "restart" => enabled

UnitInv ==
  /\ Unit!TypeOK
  /\ crossed
     \/ /\ \A c, d \in Request : command[c] # Unit!Idle /\ command[d] # Unit!Idle => c = d
        /\ \A c \in Request : UnitStage(c)
        /\ promised # Unit!NoPort =>
             /\ \A c \in Request : command[c] = Unit!Idle
             /\ enabled /\ unit = promised /\ loaded = promised /\ process = promised

UnitCommand ==
  [pc : {"idle", "write", "daemon-reload", "enable", "restart",
         "stop", "disable", "remove", "forget"},
   port : Port \cup {Unit!NoPort}]

LEMMA PortsArePositive == Unit!NoPort \notin Port /\ Unit!Cut \notin Port
BY PortAssumption DEF Unit!NoPort, Unit!Cut

LEMMA IdleCommand == Unit!Idle \in UnitCommand /\ Unit!Idle.pc = "idle"
BY DEF Unit!Idle, UnitCommand

LEMMA UnitTyped ==
  ASSUME UnitInv
  PROVE  /\ command \in [Request -> UnitCommand]
         /\ \A c \in Request : command[c] \in UnitCommand
BY DEF UnitInv, Unit!TypeOK, UnitCommand

\* The command c goes from its state to another, and the others stay.
LEMMA UnitMoves ==
  ASSUME UnitInv, NEW c \in Request, NEW new \in UnitCommand,
         command' = [command EXCEPT ![c] = new]
  PROVE  /\ command' \in [Request -> UnitCommand]
         /\ command'[c] = new
         /\ \A d \in Request : d # c => command'[d] = command[d]
BY UnitTyped

LEMMA UnitRuns == OperationsSpec => Unit!Spec
<1>1. StartInit => Unit!Init
  BY DEF StartInit
<1>2. [AnyStep]_allVars => [Unit!Next]_(Unit!vars)
  BY DEF AnyStep, allVars, RegistryStep, EditorStep, UpdateStep, UnitStep, KeyStep, TuiStep,
     PagesStep, unitVars, Unit!vars, Unit!disk, Unit!systemd, Unit!history
<1>. QED
  BY <1>1, <1>2, PTL DEF OperationsSpec, Unit!Spec

LEMMA UnitInit == Unit!Init => UnitInv
<1>. SUFFICES ASSUME Unit!Init PROVE UnitInv
  OBVIOUS
<1>1. command \in [Request -> UnitCommand] /\ \A c \in Request : command[c] = Unit!Idle
  BY IdleCommand DEF Unit!Init
<1>2. Unit!TypeOK
  BY <1>1 DEF Unit!Init, Unit!TypeOK, UnitCommand
<1>. QED
  BY <1>1, <1>2, IdleCommand DEF Unit!Init, UnitInv, UnitStage

\* A step of a command that has begun, and ends or goes on.
LEMMA CommandSteps ==
  ASSUME UnitInv, NEW c \in Request, command[c] # Unit!Idle,
         NEW new \in UnitCommand, command' = [command EXCEPT ![c] = new],
         unit' \in Port \cup {Unit!NoPort, Unit!Cut}, loaded' \in Port \cup {Unit!NoPort, Unit!Cut},
         enabled' \in BOOLEAN, process' \in Port \cup {Unit!NoPort},
         UNCHANGED crossed,
         promised' = promised \/ (/\ promised' \in Port \cup {Unit!NoPort} /\ new = Unit!Idle
                                  /\ crossed \/ (/\ enabled' /\ unit' = promised'
                                                 /\ loaded' = promised' /\ process' = promised')),
         crossed \/ UnitStage(c)'
  PROVE  UnitInv'
<1>1. /\ command' \in [Request -> UnitCommand]
      /\ command'[c] = new
      /\ \A d \in Request : d # c => command'[d] = command[d]
  BY UnitMoves
<1>2. Unit!TypeOK'
  BY <1>1 DEF UnitInv, Unit!TypeOK, UnitCommand
<1>3. CASE crossed
  BY <1>2, <1>3 DEF UnitInv
<1>4. CASE ~crossed
  <2>1. \A d \in Request : d # c => command'[d] = Unit!Idle
    BY <1>1, <1>4 DEF UnitInv
  <2>2. \A d \in Request : UnitStage(d)'
    BY <1>4, <2>1, IdleCommand DEF UnitStage
  <2>3. promised = Unit!NoPort
    BY <1>4 DEF UnitInv
  <2>. QED
    BY <1>1, <1>2, <1>4, <2>1, <2>2, <2>3 DEF UnitInv
<1>. QED
  BY <1>3, <1>4

LEMMA CommandBegins ==
  ASSUME UnitInv, NEW c \in Request, Unit!Install(c) \/ Unit!Uninstall(c)
  PROVE  UnitInv'
<1>1. PICK pc \in {"write", "stop"}, port \in Port \cup {Unit!NoPort} :
        Unit!Begin(c, pc, port) /\ (pc = "write" => port \in Port)
  BY DEF Unit!Install, Unit!Uninstall
<1>. DEFINE new == [pc |-> pc, port |-> port]
<1>2. new \in UnitCommand /\ new.pc = pc /\ new.port = port
  BY DEF UnitCommand
<1>3. command' = [command EXCEPT ![c] = new]
  BY <1>1 DEF Unit!Begin
<1>. HIDE DEF new
<1>4. /\ command' \in [Request -> UnitCommand]
      /\ command'[c] = new
      /\ \A d \in Request : d # c => command'[d] = command[d]
  BY <1>2, <1>3, UnitMoves
<1>5. /\ UNCHANGED <<unit, loaded, enabled, process>>
      /\ promised' = Unit!NoPort
      /\ crossed' \in BOOLEAN
      /\ crossed' \/ (~crossed /\ \A d \in Request : command[d] = Unit!Idle)
  BY <1>1 DEF Unit!Begin, Unit!disk, Unit!systemd, UnitInv, Unit!TypeOK
<1>6. Unit!TypeOK'
  BY <1>4, <1>5 DEF UnitInv, Unit!TypeOK, UnitCommand
<1>7. crossed' \/ \A d \in Request : UnitStage(d)'
  BY <1>1, <1>2, <1>4, <1>5, IdleCommand DEF UnitStage
<1>. QED
  BY <1>4, <1>5, <1>6, <1>7 DEF UnitInv

\* Without a command: systemd restarts the process, or the host.
LEMMA SystemSteps ==
  ASSUME UnitInv, Unit!Respawn \/ Unit!UpdateRestarts \/ Unit!Reboot
  PROVE  UnitInv'
<1>1. CASE Unit!Respawn \/ Unit!UpdateRestarts
  <2>1. /\ UNCHANGED <<unit, enabled, loaded, command, promised, crossed>>
        /\ process' = loaded /\ loaded \in Port
    BY <1>1 DEF Unit!Respawn, Unit!UpdateRestarts, Unit!RestartUnit, Unit!disk, Unit!history
  <2>2. Unit!TypeOK'
    BY <2>1 DEF UnitInv, Unit!TypeOK
  <2>. QED
    BY <2>1, <2>2 DEF UnitInv, UnitStage
<1>2. CASE Unit!Reboot
  <2>1. /\ UNCHANGED <<unit, enabled, promised, crossed>>
        /\ loaded' = unit
        /\ process' = IF enabled /\ unit \in Port THEN unit ELSE Unit!NoPort
        /\ command' \in [Request -> UnitCommand]
        /\ \A d \in Request : command'[d] = Unit!Idle
    BY <1>2, IdleCommand DEF Unit!Reboot, Unit!disk, Unit!history
  <2>2. Unit!TypeOK'
    BY <2>1 DEF UnitInv, Unit!TypeOK, UnitCommand
  <2>3. \A d \in Request : UnitStage(d)'
    BY <2>1, IdleCommand DEF UnitStage
  <2>4. promised \in Port \/ promised = Unit!NoPort
    BY DEF UnitInv, Unit!TypeOK
  <2>. QED
    BY <2>1, <2>2, <2>3, <2>4 DEF UnitInv
<1>. QED
  BY <1>1, <1>2

\* A step to the next one: what the command is by then.
LEMMA CommandGoes ==
  ASSUME UnitInv, NEW c \in Request, NEW from, command[c].pc = from, from # "idle",
         NEW to \in {"daemon-reload", "enable", "restart", "disable", "remove", "forget"},
         Unit!Goto(c, to)
  PROVE  /\ command[c] # Unit!Idle
         /\ command[c].port \in Port \cup {Unit!NoPort}
         /\ \E new \in UnitCommand :
              /\ command' = [command EXCEPT ![c] = new]
              /\ new.pc = to /\ new.port = command[c].port
              /\ command'[c] = new
<1>. DEFINE new == [command[c] EXCEPT !.pc = to]
<1>1. command[c] # Unit!Idle /\ command[c] \in UnitCommand
  BY UnitTyped, IdleCommand
<1>2. new \in UnitCommand /\ new.pc = to /\ new.port = command[c].port
  BY <1>1 DEF UnitCommand
<1>3. command' = [command EXCEPT ![c] = new]
  BY DEF Unit!Goto
<1>4. command[c].port \in Port \cup {Unit!NoPort}
  BY <1>1 DEF UnitCommand
<1>. HIDE DEF new
<1>. QED
  BY <1>1, <1>2, <1>3, <1>4, UnitMoves

LEMMA CommandEnds ==
  ASSUME UnitInv, NEW c \in Request, command[c].pc # "idle", Unit!Done(c)
  PROVE  /\ command[c] # Unit!Idle
         /\ command' = [command EXCEPT ![c] = Unit!Idle] /\ command'[c] = Unit!Idle
         /\ Unit!Idle \in UnitCommand
         /\ UnitStage(c)'
<1>1. command' = [command EXCEPT ![c] = Unit!Idle]
  BY DEF Unit!Done
<1>2. command'[c] = Unit!Idle
  BY <1>1, UnitMoves, IdleCommand
<1>. QED
  BY <1>1, <1>2, IdleCommand DEF UnitStage

LEMMA InstallSteps ==
  ASSUME UnitInv, NEW c \in Request,
         Unit!WriteUnit(c) \/ Unit!Reload(c) \/ Unit!Enable(c) \/ Unit!Restart(c)
  PROVE  UnitInv'
<1>. /\ unit \in Port \cup {Unit!NoPort, Unit!Cut} /\ loaded \in Port \cup {Unit!NoPort, Unit!Cut}
     /\ enabled \in BOOLEAN /\ process \in Port \cup {Unit!NoPort}
     /\ crossed \/ UnitStage(c)
  BY DEF UnitInv, Unit!TypeOK
<1>1. CASE Unit!WriteUnit(c)
  <2>1. /\ command[c].pc = "write" /\ Unit!Goto(c, "daemon-reload")
        /\ unit' = command[c].port
        /\ UNCHANGED <<enabled, loaded, process, promised, crossed>>
    BY <1>1 DEF Unit!WriteUnit, Unit!At, Unit!systemd, Unit!history
  <2>2. crossed \/ UnitStage(c)'
    BY <2>1, CommandGoes DEF UnitStage
  <2>. QED
    BY <2>1, <2>2, CommandGoes, CommandSteps
<1>2. CASE Unit!Reload(c)
  <2>1. /\ command[c].pc = "daemon-reload" /\ Unit!Goto(c, "enable")
        /\ loaded' = unit
        /\ UNCHANGED <<unit, enabled, process, promised, crossed>>
    BY <1>2 DEF Unit!Reload, Unit!DaemonReload, Unit!At, Unit!disk, Unit!history
  <2>2. crossed \/ UnitStage(c)'
    BY <2>1, CommandGoes DEF UnitStage
  <2>. QED
    BY <2>1, <2>2, CommandGoes, CommandSteps
<1>3. CASE Unit!Enable(c)
  <2>1. /\ command[c].pc = "enable" /\ Unit!Goto(c, "restart")
        /\ enabled' = TRUE /\ loaded' = unit
        /\ UNCHANGED <<unit, process, promised, crossed>>
    BY <1>3 DEF Unit!Enable, Unit!EnableUnit, Unit!At, Unit!history
  <2>2. crossed \/ UnitStage(c)'
    BY <2>1, CommandGoes DEF UnitStage
  <2>. QED
    BY <2>1, <2>2, CommandGoes, CommandSteps
<1>4. CASE Unit!Restart(c)
  <2>1. /\ command[c].pc = "restart" /\ Unit!Done(c)
        /\ loaded \in Port /\ process' = loaded /\ promised' = command[c].port
        /\ UNCHANGED <<unit, enabled, loaded, crossed>>
    BY <1>4 DEF Unit!Restart, Unit!RestartUnit, Unit!At, Unit!disk
  <2>2. crossed \/ (/\ enabled' /\ unit' = promised'
                    /\ loaded' = promised' /\ process' = promised')
    BY <2>1 DEF UnitStage
  <2>3. promised' \in Port \cup {Unit!NoPort} /\ command[c].pc # "idle"
    BY <2>1, UnitTyped DEF UnitCommand
  <2>. QED
    BY <2>1, <2>2, <2>3, CommandEnds, CommandSteps
<1>. QED
  BY <1>1, <1>2, <1>3, <1>4

LEMMA UninstallSteps ==
  ASSUME UnitInv, NEW c \in Request,
         Unit!Stop(c) \/ Unit!Disable(c) \/ Unit!RemoveUnit(c) \/ Unit!Forget(c) \/ Unit!Fail(c)
  PROVE  UnitInv'
<1>. /\ unit \in Port \cup {Unit!NoPort, Unit!Cut} /\ loaded \in Port \cup {Unit!NoPort, Unit!Cut}
     /\ enabled \in BOOLEAN /\ process \in Port \cup {Unit!NoPort}
  BY DEF UnitInv, Unit!TypeOK
<1>1. CASE Unit!Stop(c)
  <2>1. /\ command[c].pc = "stop" /\ Unit!Goto(c, "disable")
        /\ process' \in {process, Unit!NoPort}
        /\ UNCHANGED <<unit, loaded, enabled, promised, crossed>>
    BY <1>1 DEF Unit!Stop, Unit!StopUnit, Unit!At, Unit!disk, Unit!history
  <2>2. UnitStage(c)'
    BY <2>1, CommandGoes DEF UnitStage
  <2>. QED
    BY <2>1, <2>2, CommandGoes, CommandSteps
<1>2. CASE Unit!Disable(c)
  <2>1. /\ command[c].pc = "disable" /\ Unit!Goto(c, "remove")
        /\ enabled' \in {enabled, FALSE} /\ loaded' \in {loaded, unit}
        /\ UNCHANGED <<unit, process, promised, crossed>>
    BY <1>2 DEF Unit!Disable, Unit!At, Unit!history
  <2>2. UnitStage(c)'
    BY <2>1, CommandGoes DEF UnitStage
  <2>3. enabled' \in BOOLEAN /\ loaded' \in Port \cup {Unit!NoPort, Unit!Cut}
    BY <2>1
  <2>. QED
    BY <2>1, <2>2, <2>3, CommandGoes, CommandSteps
<1>3. CASE Unit!RemoveUnit(c)
  <2>1. /\ command[c].pc = "remove" /\ Unit!Goto(c, "forget")
        /\ unit' = Unit!NoPort
        /\ UNCHANGED <<loaded, enabled, process, promised, crossed>>
    BY <1>3 DEF Unit!RemoveUnit, Unit!At, Unit!systemd, Unit!history
  <2>2. UnitStage(c)'
    BY <2>1, CommandGoes DEF UnitStage
  <2>. QED
    BY <2>1, <2>2, CommandGoes, CommandSteps
<1>4. CASE Unit!Forget(c)
  <2>1. /\ command[c].pc = "forget" /\ Unit!Done(c)
        /\ loaded' \in {loaded, unit}
        /\ UNCHANGED <<unit, enabled, process, promised, crossed>>
    BY <1>4 DEF Unit!Forget, Unit!DaemonReload, Unit!At, Unit!disk, Unit!history
  <2>. QED
    BY <2>1, CommandEnds, CommandSteps
<1>5. CASE Unit!Fail(c)
  <2>1. /\ command[c].pc # "idle" /\ Unit!Done(c)
        /\ unit' \in {unit, Unit!Cut}
        /\ UNCHANGED <<enabled, loaded, process, promised, crossed>>
    BY <1>5 DEF Unit!Fail, Unit!At, Unit!systemd, Unit!history
  <2>. QED
    BY <2>1, CommandEnds, CommandSteps
<1>. QED
  BY <1>1, <1>2, <1>3, <1>4, <1>5

LEMMA UnitSteps == UnitInv /\ [Unit!Next]_(Unit!vars) => UnitInv'
<1>. SUFFICES ASSUME UnitInv, [Unit!Next]_(Unit!vars)
              PROVE  UnitInv'
  OBVIOUS
<1>1. CASE UNCHANGED Unit!vars
  BY <1>1 DEF Unit!vars, Unit!disk, Unit!systemd, Unit!history, UnitInv, Unit!TypeOK, UnitStage
<1>. QED
  BY <1>1, SystemSteps, CommandBegins, InstallSteps, UninstallSteps DEF Unit!Next

\* "rusno service installed and started": from then on, until another command
\* begins, rusno serves the port that was asked for, across reboots, failures
\* and updates, and whatever a command that failed or was interrupted left
\* behind before it, as long as two commands are not at work at the same time
\* (main.rs:429-441).
THEOREM InstalledServiceStays == OperationsSpec => []InstalledStays
<1>1. UnitInv => InstalledStays
  BY DEF UnitInv, InstalledStays, Unit!InstalledStays
<1>. QED
  BY UnitRuns, UnitInit, UnitSteps, <1>1, PTL DEF Unit!Spec

--------------------------------------------------------------------------------
(* The loop of the terminal dashboard                                          *)

\* The bound on the keys that are lost is inductive once it is known that only
\* a loop that waits has a poll with a key.
TuiInv ==
  /\ Tui!TypeOK
  /\ poll # Tui!NoKey => screen = "select"
  /\ Tui!OneKeyPerTick

\* Keys that the poll has and the loop has not, and the poll that may take one.
Held == IF poll = Tui!NoKey THEN 0 ELSE 1
Waiting == IF orphan THEN 1 ELSE 0

LEMMA TuiRuns == OperationsSpec => Tui!Spec
<1>1. StartInit => Tui!Init
  BY DEF StartInit
<1>2. [AnyStep]_allVars => [Tui!Next]_(Tui!vars)
  BY DEF AnyStep, allVars, RegistryStep, EditorStep, UpdateStep, UnitStep, KeyStep, TuiStep,
     PagesStep, tuiVars, Tui!vars, Tui!history
<1>. QED
  BY <1>1, <1>2, PTL DEF OperationsSpec, Tui!Spec

LEMMA TuiBounds == MaxKeys \in Nat /\ MaxTicks \in Nat
BY CountersAssumption

LEMMA TuiInit == Tui!Init => TuiInv
<1>. SUFFICES ASSUME Tui!Init PROVE TuiInv
  OBVIOUS
<1>1. keys \in Seq(Tui!Kinds) /\ Len(keys) = 0
  BY DEF Tui!Init
<1>2. Tui!TypeOK
  <2>1. {orphan, help} \subseteq BOOLEAN
    BY DEF Tui!Init
  <2>2. typed \in 0..MaxKeys /\ handled \in 0..MaxKeys /\ ticks \in 0..MaxTicks
    BY TuiBounds DEF Tui!Init
  <2>3. screen = "draw" /\ poll = Tui!NoKey
    BY DEF Tui!Init
  <2>. QED
    BY <1>1, <2>1, <2>2, <2>3 DEF Tui!TypeOK
<1>3. Tui!OneKeyPerTick
  BY <1>1 DEF Tui!Init, Tui!OneKeyPerTick
<1>. QED
  BY <1>2, <1>3 DEF Tui!Init, TuiInv

LEMMA TuiTyped ==
  ASSUME TuiInv
  PROVE  /\ keys \in Seq(Tui!Kinds) /\ Len(keys) \in Nat
         /\ typed \in Nat /\ handled \in Nat /\ ticks \in Nat
         /\ typed <= MaxKeys /\ handled <= MaxKeys /\ ticks <= MaxTicks
         /\ Held \in {0, 1} /\ Waiting \in {0, 1}
         /\ handled + Len(keys) + Held <= typed
         /\ typed + Waiting <= handled + Len(keys) + Held + ticks
<1>1. keys \in Seq(Tui!Kinds) /\ Len(keys) \in Nat
  BY DEF TuiInv, Tui!TypeOK
<1>2. /\ typed \in Nat /\ handled \in Nat /\ ticks \in Nat
      /\ typed <= MaxKeys /\ handled <= MaxKeys /\ ticks <= MaxTicks
  BY TuiBounds DEF TuiInv, Tui!TypeOK
<1>. QED
  BY <1>1, <1>2 DEF TuiInv, Tui!OneKeyPerTick, Held, Waiting

\* What a step has to leave: the types, and the account of the keys.
LEMMA TuiParts ==
  ASSUME screen' \in {"draw", "select", "refresh", "check", "prompt", "over"},
         poll' \in Tui!Kinds \cup {Tui!NoKey}, orphan' \in BOOLEAN, help' \in BOOLEAN,
         poll' # Tui!NoKey => screen' = "select",
         keys' \in Seq(Tui!Kinds),
         typed' \in Nat, handled' \in Nat, ticks' \in Nat,
         typed' <= MaxKeys, ticks' <= MaxTicks,
         handled' + Len(keys') + Held' <= typed',
         typed' + Waiting' <= handled' + Len(keys') + Held' + ticks'
  PROVE  TuiInv'
<1>1. Len(keys') \in Nat /\ Held' \in {0, 1} /\ Waiting' \in {0, 1}
  BY DEF Held, Waiting
<1>2. handled' <= MaxKeys
  BY <1>1, TuiBounds
<1>3. Tui!TypeOK'
  BY <1>2, TuiBounds DEF Tui!TypeOK
<1>4. Tui!OneKeyPerTick'
  BY <1>1 DEF Tui!OneKeyPerTick, Held, Waiting
<1>. QED
  BY <1>3, <1>4 DEF TuiInv

LEMMA KeyTaken ==
  ASSUME TuiInv, keys # <<>>
  PROVE  /\ Head(keys) \in Tui!Kinds /\ Head(keys) # Tui!NoKey
         /\ Tail(keys) \in Seq(Tui!Kinds) /\ Len(Tail(keys)) = Len(keys) - 1
         /\ Len(keys) > 0
<1>1. keys \in Seq(Tui!Kinds)
  BY DEF TuiInv, Tui!TypeOK
<1>2. Head(keys) \in Tui!Kinds /\ Tail(keys) \in Seq(Tui!Kinds) /\ Len(Tail(keys)) = Len(keys) - 1
  BY <1>1
<1>3. "none" \notin Tui!Kinds
  BY DEF Tui!Kinds
<1>4. Len(keys) > 0
  BY <1>1
<1>. QED
  BY <1>2, <1>3, <1>4 DEF Tui!NoKey

LEMMA TuiSteps == TuiInv /\ [Tui!Next]_(Tui!vars) => TuiInv'
<1>. SUFFICES ASSUME TuiInv, [Tui!Next]_(Tui!vars)
              PROVE  TuiInv'
  OBVIOUS
<1>. /\ screen \in {"draw", "select", "refresh", "check", "prompt", "over"}
     /\ poll \in Tui!Kinds \cup {Tui!NoKey} /\ orphan \in BOOLEAN /\ help \in BOOLEAN
     /\ poll # Tui!NoKey => screen = "select"
  BY DEF TuiInv, Tui!TypeOK
<1>. USE TuiTyped DEF Tui!history
<1>1. CASE UNCHANGED Tui!vars
  BY <1>1, TuiParts DEF Tui!vars, Held, Waiting
<1>2. CASE Tui!Type
  <2>1. PICK k \in Tui!Kinds : keys' = Append(keys, k)
    BY <1>2 DEF Tui!Type
  <2>2. keys' \in Seq(Tui!Kinds) /\ Len(keys') = Len(keys) + 1
    BY <2>1
  <2>3. typed' = typed + 1 /\ typed < MaxKeys /\ Held' = Held /\ Waiting' = Waiting
    BY <1>2 DEF Tui!Type, Held, Waiting
  <2>4. typed' \in Nat /\ typed' <= MaxKeys
    BY <2>3, TuiBounds
  <2>. QED
    BY <1>2, <2>2, <2>3, <2>4, TuiParts DEF Tui!Type
<1>3. CASE Tui!Draw
  BY <1>3, TuiParts DEF Tui!Draw, Held, Waiting
<1>4. CASE Tui!PollReads
  BY <1>4, KeyTaken, TuiParts DEF Tui!PollReads, Held, Waiting
<1>5. CASE Tui!PollTimesOut \/ Tui!Refreshed \/ Tui!Check
  BY <1>5, TuiParts DEF Tui!PollTimesOut, Tui!Refreshed, Tui!Check, Held, Waiting
<1>6. CASE Tui!Handle
  <2>1. screen' \in {"draw", "refresh", "check", "over"} /\ help' \in BOOLEAN
    BY <1>6 DEF Tui!Handle
  <2>. QED
    BY <1>6, <2>1, TuiParts DEF Tui!Handle, Held, Waiting
<1>7. CASE Tui!Tick
  BY <1>7, TuiParts, TuiBounds DEF Tui!Tick, Held, Waiting
<1>8. CASE Tui!OrphanReads
  <2>1. Held' = Held /\ Waiting = 1 /\ Waiting' = 0
    BY <1>8 DEF Tui!OrphanReads, Held, Waiting
  <2>2. keys' \in Seq(Tui!Kinds) /\ Len(keys') = Len(keys) - 1
    BY <1>8, KeyTaken DEF Tui!OrphanReads
  <2>3. orphan' \in BOOLEAN /\ UNCHANGED <<screen, poll, help, typed, handled, ticks>>
    BY <1>8 DEF Tui!OrphanReads
  <2>4. /\ handled' + Len(keys') + Held' <= typed'
        /\ typed' + Waiting' <= handled' + Len(keys') + Held' + ticks'
    BY <2>1, <2>2, <2>3
  <2>. QED
    BY <2>2, <2>3, <2>4, TuiParts
<1>9. CASE Tui!OrphanTimesOut
  <2>1. Held' = Held /\ Waiting = 1 /\ Waiting' = 0
    BY <1>9 DEF Tui!OrphanTimesOut, Held, Waiting
  <2>2. orphan' \in BOOLEAN /\ UNCHANGED <<screen, poll, keys, help, typed, handled, ticks>>
    BY <1>9 DEF Tui!OrphanTimesOut
  <2>. QED
    BY <2>1, <2>2, TuiParts, TuiBounds
<1>10. CASE Tui!Answer
  BY <1>10, KeyTaken, TuiParts DEF Tui!Answer, Held, Waiting
<1>11. CASE Tui!Reopen
  <2>1. Held' = Held /\ Waiting' = Waiting
    BY <1>11 DEF Tui!Reopen, Held, Waiting
  <2>2. keys' \in Seq(Tui!Kinds) /\ Len(keys') = 0
    BY <1>11 DEF Tui!Reopen
  <2>3. handled' = handled + Len(keys) /\ poll = Tui!NoKey /\ help' = FALSE
    BY <1>11 DEF Tui!Reopen
  <2>4. handled' \in Nat
    BY <2>3
  <2>5. screen' = "draw" /\ help' \in BOOLEAN /\ UNCHANGED <<poll, orphan, typed, ticks>>
    BY <1>11 DEF Tui!Reopen
  <2>. QED
    BY <2>1, <2>2, <2>3, <2>4, <2>5, TuiParts, TuiBounds
<1>12. CASE Tui!HangUp
  <2>1. Held' = 0 /\ Waiting' = 0
    BY <1>12 DEF Tui!HangUp, Held, Waiting
  <2>2. keys' \in Seq(Tui!Kinds) /\ Len(keys') = 0
    BY <1>12 DEF Tui!HangUp
  <2>3. /\ screen' = "over" /\ orphan' \in BOOLEAN /\ poll' = Tui!NoKey /\ help' = help
        /\ typed' = 0 /\ handled' = 0 /\ ticks' = 0
    BY <1>12 DEF Tui!HangUp
  <2>. QED
    BY <2>1, <2>2, <2>3, TuiParts, TuiBounds
<1>. QED
  BY <1>1, <1>2, <1>3, <1>4, <1>5, <1>6, <1>7, <1>8, <1>9, <1>10, <1>11, <1>12 DEF Tui!Next

\* A refresh tick of the dashboard costs one key at most, whether the poll that
\* it cancels had one already, takes one later, or the dashboard was left by
\* then (tui.rs:91-95): the keys that nobody handled are never more than the
\* ticks that won, less the polls that are still to take theirs.
THEOREM TicksCostOneKey == OperationsSpec => []OneKeyPerTick
<1>1. TuiInv => OneKeyPerTick
  BY DEF TuiInv, OneKeyPerTick
<1>. QED
  BY TuiRuns, TuiInit, TuiSteps, <1>1, PTL DEF Tui!Spec

--------------------------------------------------------------------------------
(* The compose and .env editors                                                *)

EditBlocks == [head : Content \cup {0}, tail : Content \cup {0}]
EditSlots ==
  [pc : {"idle", "open", "head", "tail", "rename", "remove"},
   value : Content \cup {0}, inode : Editor!Inodes \cup {Editor!Absent}, gone : BOOLEAN]
EditNames == [target : Editor!Inodes, tmp : Editor!Inodes \cup {Editor!Absent}]
Writes(s) == save[s].pc \in {"head", "tail", "rename", "remove"}

\* A save that has opened tmp is alone in it, and tmp is not the file.
EditStage(s) ==
  Writes(s) =>
       /\ names.tmp # Editor!Absent /\ save[s].inode = names.tmp /\ save[s].pc # "remove"
       /\ save[s].pc \in {"tail", "rename"} => data[names.tmp].head = save[s].value
       /\ save[s].pc = "rename" => data[names.tmp].tail = save[s].value

EditType ==
  /\ Editor!TypeOK /\ names \in EditNames
  /\ \A s \in Request : save[s].pc # "idle" => save[s].value \in Content

EditInv ==
  /\ EditType
  /\ mixed
     \/ /\ data[names.target] = Editor!Whole(last)
        /\ names.target # names.tmp
        /\ \A s, t \in Request : Writes(s) /\ Writes(t) => s = t
        /\ \A s \in Request : EditStage(s)

LEMMA EditRuns == OperationsSpec => Editor!Spec
<1>1. StartInit => Editor!Init
  BY DEF StartInit
<1>2. [AnyStep]_allVars => [Editor!Next]_(Editor!vars)
  BY DEF AnyStep, allVars, RegistryStep, EditorStep, UpdateStep, UnitStep, KeyStep, TuiStep,
     PagesStep, editorVars, Editor!vars
<1>. QED
  BY <1>1, <1>2, PTL DEF OperationsSpec, Editor!Spec

LEMMA InodesAreNumbers ==
  /\ Cardinality(Request) \in Nat
  /\ Editor!Inodes = 1..3 + Cardinality(Request)
  /\ 1 \in Editor!Inodes /\ Editor!Absent \notin Editor!Inodes
<1>1. Cardinality(Request) \in Nat
  BY SlotsAssumption, FS_CardinalityType
<1>2. Editor!Inodes = 1..3 + Cardinality(Request) /\ Editor!Absent = 0
  BY DEF Editor!Inodes, Editor!Absent, Editor!Cardinality, Cardinality
<1>3. \A n \in Nat : 1 \in 1..3 + n /\ 0 \notin 1..3 + n
  OBVIOUS
<1>. QED
  BY <1>1, <1>2, <1>3

\* A set with fewer than m elements leaves out one of 1..m.
LEMMA RoomLeft ==
  ASSUME NEW m \in Nat, NEW T, IsFiniteSet(T), NEW k \in Nat, Cardinality(T) <= k, k < m
  PROVE  \E i \in 1..m : i \notin T
<1>1. Cardinality(1..m) = m
  <2>1. 1 \in Int /\ m \in Int /\ ~(1 > m) /\ m - 1 + 1 = m
    OBVIOUS
  <2>. QED
    BY <2>1, FS_Interval
<1>2. SUFFICES ASSUME 1..m \subseteq T PROVE FALSE
  OBVIOUS
<1>3. Cardinality(1..m) <= Cardinality(T)
  BY <1>2, FS_Subset
<1>4. Cardinality(T) \in Nat
  BY FS_CardinalityType
<1>. QED
  BY <1>1, <1>3, <1>4

LEMMA OneMore ==
  ASSUME NEW S, IsFiniteSet(S), NEW k \in Nat, Cardinality(S) <= k, NEW x
  PROVE  IsFiniteSet(S \cup {x}) /\ Cardinality(S \cup {x}) <= k + 1
<1>1. PICK m \in Nat : m = Cardinality(S) /\ m <= k
  BY FS_CardinalityType
<1>2. IsFiniteSet(S \cup {x}) /\ Cardinality(S \cup {x}) \in {m, m + 1}
  BY <1>1, FS_AddElement
<1>. QED
  BY <1>1, <1>2

LEMMA TwoSets ==
  ASSUME NEW A, NEW B, IsFiniteSet(A), IsFiniteSet(B), NEW a \in Nat, NEW b \in Nat,
         Cardinality(A) <= a, Cardinality(B) <= b
  PROVE  IsFiniteSet(A \cup B) /\ Cardinality(A \cup B) <= a + b
<1>1. IsFiniteSet(A \cap B) /\ IsFiniteSet(A \cup B)
  BY FS_Subset, FS_Union
<1>2. PICK h \in Nat, i \in Nat, j \in Nat, k \in Nat :
        /\ h = Cardinality(A \cap B) /\ i = Cardinality(A \cup B)
        /\ j = Cardinality(A) /\ k = Cardinality(B)
  BY <1>1, FS_CardinalityType
<1>3. Cardinality(A \cup B) = Cardinality(A) + Cardinality(B) - Cardinality(A \cap B)
  BY FS_Union
<1>4. i = (j + k) - h /\ j <= a /\ k <= b
  BY <1>2, <1>3
<1>. QED
  BY <1>1, <1>2, <1>4

\* What the saves have in hand is no more than there are saves.
LEMMA HeldInodes ==
  LET held == {save[s].inode : s \in Request} IN
  IsFiniteSet(held) /\ Cardinality(held) <= Cardinality(Request)
<1>. DEFINE held == {save[s].inode : s \in Request}
            f == [s \in Request |-> save[s].inode]
<1>1. f \in Surjection(Request, held)
  BY DEF Surjection
<1>. QED
  BY <1>1, SlotsAssumption, FS_Surjection

\* There is an inode that nothing uses.
LEMMA InodeIsFree == Editor!FreshInode \in Editor!Inodes /\ Editor!FreshInode \notin Editor!Used
<1>. DEFINE held == {save[s].inode : s \in Request}
            n == Cardinality(Request)
<1>1. IsFiniteSet(held) /\ Cardinality(held) <= n
  BY HeldInodes
<1>2. Editor!Used = (held \cup {names.target}) \cup {names.tmp}
  BY DEF Editor!Used
<1>3. n \in Nat /\ Editor!Inodes = 1..3 + n
  BY InodesAreNumbers
<1>. HIDE DEF held, n
<1>4. IsFiniteSet(Editor!Used) /\ Cardinality(Editor!Used) <= n + 1 + 1
  <2>1. n + 1 \in Nat
    BY <1>3
  <2>2. /\ IsFiniteSet(held \cup {names.target})
        /\ Cardinality(held \cup {names.target}) <= n + 1
    BY <1>1, <1>3, OneMore
  <2>. QED
    BY <1>2, <2>1, <2>2, OneMore
<1>5. \E i \in Editor!Inodes : i \notin Editor!Used
  <2>1. 3 + n \in Nat /\ n + 1 + 1 \in Nat /\ n + 1 + 1 < 3 + n
    BY <1>3
  <2>. QED
    BY <1>3, <1>4, <2>1, RoomLeft
<1>. QED
  BY <1>5 DEF Editor!FreshInode

LEMMA EditTyped ==
  ASSUME EditInv
  PROVE  /\ save \in [Request -> EditSlots] /\ names \in EditNames
         /\ data \in [Editor!Inodes -> EditBlocks]
         /\ names.target \in Editor!Inodes
         /\ names.tmp \in Editor!Inodes \cup {Editor!Absent}
         /\ \A s \in Request : /\ save[s] \in EditSlots
                             /\ save[s].pc # "idle" => save[s].value \in Content
BY DEF EditInv, EditType, Editor!TypeOK, EditSlots, EditBlocks, EditNames

LEMMA IdleSave ==
  /\ Editor!Idle \in EditSlots /\ Editor!Idle.pc = "idle" /\ Editor!Idle.inode = Editor!Absent
  /\ Editor!Idle.value = 0
BY DEF Editor!Idle, EditSlots

LEMMA EmptyBlock == Editor!Empty \in EditBlocks
BY DEF Editor!Empty, EditBlocks

LEMMA WholeBlock ==
  ASSUME NEW r \in EditBlocks, NEW v, r.head = v, r.tail = v
  PROVE  r = Editor!Whole(v)
BY DEF EditBlocks, Editor!Whole

LEMMA BlocksOfWhole ==
  ASSUME NEW v \in Content
  PROVE  /\ Editor!Whole(v) \in EditBlocks
         /\ Editor!Whole(v).head = v /\ Editor!Whole(v).tail = v
BY DEF EditBlocks, Editor!Whole

\* The save s goes from its state to another, and the others stay.
LEMMA EditMoves ==
  ASSUME EditInv, NEW s \in Request, NEW new \in EditSlots, save' = [save EXCEPT ![s] = new]
  PROVE  /\ save' \in [Request -> EditSlots]
         /\ save'[s] = new
         /\ \A t \in Request : t # s => save'[t] = save[t]
BY EditTyped

\* The types after a step.
LEMMA EditTypes ==
  ASSUME save' \in [Request -> EditSlots], names' \in EditNames,
         data' \in [Editor!Inodes -> EditBlocks], mixed' \in BOOLEAN, last' \in Content,
         \A s \in Request : save'[s].pc # "idle" => save'[s].value \in Content
  PROVE  EditType'
BY DEF EditType, Editor!TypeOK, EditSlots, EditBlocks, EditNames

LEMMA EditInit == Editor!Init => EditInv
<1>. SUFFICES ASSUME Editor!Init PROVE EditInv
  OBVIOUS
<1>1. save \in [Request -> EditSlots] /\ \A s \in Request : save[s] = Editor!Idle
  BY IdleSave DEF Editor!Init
<1>2. names \in EditNames /\ names.target = 1 /\ names.tmp = Editor!Absent
  BY InodesAreNumbers DEF Editor!Init, EditNames
<1>3. last \in Content
  BY ContentAssumption DEF Editor!Init
<1>4. Editor!Whole(last) \in EditBlocks
  BY <1>3, BlocksOfWhole
<1>5. data \in [Editor!Inodes -> EditBlocks] /\ data[1] = Editor!Whole(last)
  BY <1>4, EmptyBlock, InodesAreNumbers DEF Editor!Init
<1>6. EditType
  BY <1>1, <1>2, <1>3, <1>5, IdleSave DEF Editor!Init, EditType, Editor!TypeOK, EditSlots, EditBlocks, EditNames
<1>7. names.target # names.tmp
  BY <1>2, InodesAreNumbers
<1>. QED
  BY <1>1, <1>2, <1>5, <1>6, <1>7, IdleSave DEF EditInv, EditStage, Writes

\* Inodes in use outlive a reclaim, and what is left of the others has a type.
LEMMA EditReclaims ==
  ASSUME EditInv, Editor!Reclaim
  PROVE  /\ data' \in [Editor!Inodes -> EditBlocks]
         /\ \A i \in Editor!Inodes : i \in Editor!Used' => data'[i] = data[i]
<1>1. data' = [i \in Editor!Inodes |-> IF i \in Editor!Used' THEN data[i] ELSE Editor!Empty]
  BY DEF Editor!Reclaim
<1>. QED
  BY <1>1, EditTyped, EmptyBlock

\* A step that only ends saves, or leaves them as they are but for their caller.
LEMMA EditShrinks ==
  ASSUME EditInv, save' \in [Request -> EditSlots],
         \A s \in Request : \/ save'[s] = Editor!Idle
                            \/ /\ save'[s].pc = save[s].pc /\ save'[s].value = save[s].value
                               /\ save'[s].inode = save[s].inode,
         UNCHANGED <<names, mixed, last>>, Editor!Reclaim
  PROVE  EditInv'
<1>1. /\ data' \in [Editor!Inodes -> EditBlocks]
      /\ \A i \in Editor!Inodes : i \in Editor!Used' => data'[i] = data[i]
  BY EditReclaims
<1>2. names.target \in Editor!Used' /\ names.tmp \in Editor!Used'
  BY DEF Editor!Used
<1>3. /\ names.target \in Editor!Inodes /\ names.tmp \in Editor!Inodes \cup {Editor!Absent}
      /\ data'[names.target] = data[names.target]
      /\ names.tmp # Editor!Absent => data'[names.tmp] = data[names.tmp]
  BY <1>1, <1>2, EditTyped
<1>4. EditType'
  BY <1>1, EditTypes, EditTyped, IdleSave DEF EditInv, EditType, Editor!TypeOK
<1>5. \A s \in Request : Writes(s)' => Writes(s)
  BY IdleSave DEF Writes
<1>6. ASSUME NEW s \in Request, EditStage(s) PROVE EditStage(s)'
  BY <1>3, <1>5, <1>6, IdleSave DEF EditStage, Writes
<1>. QED
  BY <1>3, <1>4, <1>5, <1>6 DEF EditInv

LEMMA EditEnds ==
  ASSUME EditInv, NEW s \in Request, Editor!Done(s),
         UNCHANGED <<names, mixed, last>>, Editor!Reclaim
  PROVE  EditInv'
<1>1. save' = [save EXCEPT ![s] = Editor!Idle]
  BY DEF Editor!Done
<1>. QED
  BY <1>1, EditMoves, IdleSave, EditShrinks

LEMMA EditLeaves ==
  ASSUME EditInv, NEW s \in Request, Editor!Leave(s)
  PROVE  EditInv'
<1>1. CASE Editor!Done(s)
  BY <1>1, EditEnds DEF Editor!Leave
<1>2. CASE save' = [save EXCEPT ![s].gone = TRUE]
  <2>. DEFINE new == [save[s] EXCEPT !.gone = TRUE]
  <2>1. /\ new \in EditSlots /\ new.pc = save[s].pc /\ new.value = save[s].value
        /\ new.inode = save[s].inode
    BY EditTyped DEF EditSlots
  <2>2. save' = [save EXCEPT ![s] = new]
    BY <1>2
  <2>. HIDE DEF new
  <2>. QED
    BY <2>1, <2>2, EditMoves, EditShrinks DEF Editor!Leave
<1>. QED
  BY <1>1, <1>2 DEF Editor!Leave

LEMMA EditStops ==
  ASSUME EditInv, Editor!Stop
  PROVE  EditInv'
<1>1. save' \in [Request -> EditSlots] /\ \A s \in Request : save'[s] = Editor!Idle
  BY IdleSave DEF Editor!Stop
<1>. QED
  BY <1>1, EditShrinks DEF Editor!Stop

LEMMA EditBegins ==
  ASSUME EditInv, NEW s \in Request, Editor!Begin(s)
  PROVE  EditInv'
<1>1. PICK v \in Content : save' = [save EXCEPT ![s] = [Editor!Idle EXCEPT !.pc = "open", !.value = v]]
  BY DEF Editor!Begin
<1>. DEFINE new == [Editor!Idle EXCEPT !.pc = "open", !.value = v]
<1>2. new \in EditSlots /\ new.pc = "open" /\ new.value = v
  BY DEF Editor!Idle, EditSlots
<1>3. save' = [save EXCEPT ![s] = new]
  BY <1>1
<1>. HIDE DEF new
<1>4. /\ save' \in [Request -> EditSlots]
      /\ save'[s] = new
      /\ \A t \in Request : t # s => save'[t] = save[t]
  BY <1>2, <1>3, EditMoves
<1>5. UNCHANGED <<names, data, mixed, last>>
  BY DEF Editor!Begin
<1>6. EditType'
  BY <1>2, <1>4, <1>5, EditTypes, EditTyped, IdleSave DEF EditInv, EditType, Editor!TypeOK
<1>7. \A t \in Request : Writes(t)' => Writes(t) /\ t # s
  BY <1>2, <1>4 DEF Writes
<1>8. ASSUME NEW t \in Request, EditStage(t) PROVE EditStage(t)'
  BY <1>2, <1>4, <1>5, <1>7, <1>8 DEF EditStage, Writes
<1>. QED
  BY <1>5, <1>6, <1>7, <1>8 DEF EditInv

LEMMA EditOpens ==
  ASSUME EditInv, NEW s \in Request, Editor!Open(s)
  PROVE  EditInv'
<1>1. PICK i \in {IF names.tmp = Editor!Absent THEN Editor!FreshInode ELSE names.tmp} :
        Editor!Opens(s, i) /\ names' = [names EXCEPT !.tmp = i]
  BY DEF Editor!Open
<1>. DEFINE new == [save[s] EXCEPT !.pc = "head", !.inode = i]
<1>2. i \in Editor!Inodes /\ (names.target # names.tmp => i # names.target)
  BY <1>1, EditTyped, InodeIsFree DEF Editor!Used
<1>3. new \in EditSlots /\ new.pc = "head" /\ new.inode = i /\ new.value = save[s].value
  BY <1>2, EditTyped DEF EditSlots
<1>4. save' = [save EXCEPT ![s] = new]
  BY <1>1 DEF Editor!Opens
<1>. HIDE DEF new
<1>5. /\ save' \in [Request -> EditSlots]
      /\ save'[s] = new
      /\ \A t \in Request : t # s => save'[t] = save[t]
  BY <1>3, <1>4, EditMoves
<1>6. /\ names' \in EditNames /\ names'.tmp = i /\ names'.target = names.target
  BY <1>1, <1>2, EditTyped DEF EditNames
<1>7. /\ data' \in [Editor!Inodes -> EditBlocks]
      /\ \A j \in Editor!Inodes : j # i => data'[j] = data[j]
  BY <1>1, EditTyped, EmptyBlock DEF Editor!Opens
<1>8. /\ last' = last /\ mixed' \in BOOLEAN
      /\ mixed' \/ (~mixed /\ \A t \in Request : ~Writes(t))
      /\ save[s].pc = "open"
  BY <1>1 DEF Editor!Open, Editor!Opens, Editor!Writing, Editor!At, Writes, EditInv, EditType, Editor!TypeOK
<1>9. EditType'
  BY <1>3, <1>5, <1>6, <1>7, <1>8, EditTypes, EditTyped DEF EditInv, EditType, Editor!TypeOK
<1>10. CASE mixed'
  BY <1>9, <1>10 DEF EditInv
<1>11. CASE ~mixed'
  <2>1. \A t \in Request : Writes(t)' => t = s
    BY <1>5, <1>8, <1>11 DEF Writes
  <2>2. i # Editor!Absent /\ i # names.target /\ data[names.target] = Editor!Whole(last)
    BY <1>2, <1>8, <1>11, InodesAreNumbers DEF EditInv
  <2>3. data'[names'.target] = Editor!Whole(last')
    BY <1>6, <1>7, <1>8, <2>2, EditTyped
  <2>4. ASSUME NEW t \in Request PROVE EditStage(t)'
    BY <1>3, <1>5, <1>6, <1>8, <2>1, <2>2 DEF EditStage, Writes
  <2>. QED
    BY <1>6, <1>9, <2>1, <2>2, <2>3, <2>4 DEF EditInv
<1>. QED
  BY <1>10, <1>11

\* A write of a half: the file is not the block that is written, unless saves
\* have met.
LEMMA EditWrites ==
  ASSUME EditInv, NEW s \in Request, save[s].pc \in {"head", "tail"},
         NEW block \in EditBlocks, data' = [data EXCEPT ![save[s].inode] = block]
  PROVE  /\ data' \in [Editor!Inodes -> EditBlocks]
         /\ ~mixed => /\ save[s].inode = names.tmp /\ names.tmp \in Editor!Inodes
                      /\ data'[names.tmp] = block
                      /\ data'[names.target] = data[names.target]
                      /\ save[s].value \in Content
                      /\ \A t \in Request : t # s => ~Writes(t) /\ EditStage(t)
                      /\ EditStage(s)
<1>1. data' \in [Editor!Inodes -> EditBlocks]
  BY EditTyped
<1>2. ASSUME ~mixed
      PROVE  /\ names.tmp \in Editor!Inodes /\ save[s].inode = names.tmp
             /\ names.target # names.tmp
             /\ save[s].value \in Content
             /\ \A t \in Request : t # s => ~Writes(t) /\ EditStage(t)
             /\ EditStage(s)
  BY <1>2, EditTyped DEF EditInv, EditStage, Writes
<1>. QED
  BY <1>1, <1>2, EditTyped

LEMMA EditWritesHead ==
  ASSUME EditInv, NEW s \in Request, Editor!WriteHead(s)
  PROVE  EditInv'
<1>. DEFINE new == [save[s] EXCEPT !.pc = "tail"]
            block == [data[save[s].inode] EXCEPT !.head = save[s].value]
<1>1. /\ save[s].pc = "head" /\ UNCHANGED <<names, mixed, last>>
      /\ save' = [save EXCEPT ![s] = new]
      /\ data' = [data EXCEPT ![save[s].inode] = block]
  BY DEF Editor!WriteHead, Editor!At, Editor!Goto
<1>2. new \in EditSlots /\ new.pc = "tail" /\ new.inode = save[s].inode /\ new.value = save[s].value
  BY EditTyped DEF EditSlots
<1>3. save[s].inode \in Editor!Inodes => block \in EditBlocks /\ block.head = save[s].value
  BY EditTyped DEF EditBlocks, EditSlots
<1>. HIDE DEF new, block
<1>4. /\ save' \in [Request -> EditSlots]
      /\ save'[s] = new
      /\ \A t \in Request : t # s => save'[t] = save[t]
  BY <1>1, <1>2, EditMoves
<1>5. data' \in [Editor!Inodes -> EditBlocks]
  BY <1>1, <1>3, EditTyped
<1>6. EditType'
  BY <1>1, <1>2, <1>4, <1>5, EditTypes, EditTyped, IdleSave DEF EditInv, EditType, Editor!TypeOK
<1>7. CASE mixed
  BY <1>1, <1>6, <1>7 DEF EditInv
<1>8. CASE ~mixed
  <2>1. save[s].inode \in Editor!Inodes
    BY <1>1, <1>8, EditTyped DEF EditInv, EditStage, Writes
  <2>2. /\ data'[names.tmp] = block /\ data'[names.target] = data[names.target]
        /\ save[s].value \in Content
        /\ \A t \in Request : t # s => ~Writes(t) /\ EditStage(t)
        /\ EditStage(s)
    BY <1>1, <1>3, <1>8, <2>1, EditWrites
  <2>3. \A t \in Request : Writes(t)' => t = s
    BY <1>4, <2>2 DEF Writes
  <2>4. EditStage(s)'
    BY <1>1, <1>2, <1>3, <1>4, <2>1, <2>2 DEF EditStage, Writes
  <2>5. ASSUME NEW t \in Request, t # s PROVE EditStage(t)'
    BY <1>4, <2>2, <2>3, <2>5 DEF EditStage
  <2>. QED
    BY <1>1, <1>6, <1>8, <2>2, <2>3, <2>4, <2>5 DEF EditInv
<1>. QED
  BY <1>7, <1>8

LEMMA EditWritesTail ==
  ASSUME EditInv, NEW s \in Request, Editor!WriteTail(s)
  PROVE  EditInv'
<1>. DEFINE new == IF save[s].gone THEN Editor!Idle ELSE [save[s] EXCEPT !.pc = "rename"]
            block == [data[save[s].inode] EXCEPT !.tail = save[s].value]
<1>1. /\ save[s].pc = "tail" /\ UNCHANGED <<names, mixed, last>>
      /\ save' = [save EXCEPT ![s] = new]
      /\ data' = [data EXCEPT ![save[s].inode] = block]
  BY DEF Editor!WriteTail, Editor!At, Editor!Goto, Editor!Done
<1>2. /\ new \in EditSlots
      /\ new = Editor!Idle \/ (/\ new.pc = "rename" /\ new.inode = save[s].inode
                               /\ new.value = save[s].value)
  BY EditTyped, IdleSave DEF EditSlots
<1>3. save[s].inode \in Editor!Inodes =>
        block \in EditBlocks /\ block.tail = save[s].value /\ block.head = data[save[s].inode].head
  BY EditTyped DEF EditBlocks, EditSlots
<1>. HIDE DEF new, block
<1>4. /\ save' \in [Request -> EditSlots]
      /\ save'[s] = new
      /\ \A t \in Request : t # s => save'[t] = save[t]
  BY <1>1, <1>2, EditMoves
<1>5. data' \in [Editor!Inodes -> EditBlocks]
  BY <1>1, <1>3, EditTyped
<1>6. EditType'
  BY <1>1, <1>2, <1>4, <1>5, EditTypes, EditTyped, IdleSave DEF EditInv, EditType, Editor!TypeOK
<1>7. CASE mixed
  BY <1>1, <1>6, <1>7 DEF EditInv
<1>8. CASE ~mixed
  <2>1. save[s].inode \in Editor!Inodes
    BY <1>1, <1>8, EditTyped DEF EditInv, EditStage, Writes
  <2>2. /\ data'[names.tmp] = block /\ data'[names.target] = data[names.target]
        /\ save[s].inode = names.tmp /\ save[s].value \in Content
        /\ \A t \in Request : t # s => ~Writes(t) /\ EditStage(t)
        /\ EditStage(s)
    BY <1>1, <1>3, <1>8, <2>1, EditWrites
  <2>3. \A t \in Request : Writes(t)' => t = s
    BY <1>4, <2>2 DEF Writes
  <2>4. EditStage(s)'
    BY <1>1, <1>2, <1>3, <1>4, <2>1, <2>2, IdleSave DEF EditStage, Writes
  <2>5. ASSUME NEW t \in Request, t # s PROVE EditStage(t)'
    BY <1>4, <2>2, <2>3, <2>5 DEF EditStage
  <2>. QED
    BY <1>1, <1>6, <1>8, <2>2, <2>3, <2>4, <2>5 DEF EditInv
<1>. QED
  BY <1>7, <1>8

\* The last save that was put in place is the file, and the others that write
\* had been the same one, unless saves have met.
LEMMA EditRenames ==
  ASSUME EditInv, NEW s \in Request, Editor!Rename(s)
  PROVE  EditInv'
<1>1. save[s].pc = "rename" /\ Writes(s) /\ mixed' = mixed /\ mixed \in BOOLEAN /\ Editor!Reclaim
  BY DEF Editor!Rename, Editor!At, Writes, EditInv, EditType, Editor!TypeOK
<1>2. /\ data' \in [Editor!Inodes -> EditBlocks]
      /\ \A i \in Editor!Inodes : i \in Editor!Used' => data'[i] = data[i]
  BY <1>1, EditReclaims
<1>3. CASE /\ names.tmp # Editor!Absent
           /\ names' = [target |-> names.tmp, tmp |-> Editor!Absent]
           /\ last' = save[s].value /\ Editor!Done(s)
  <2>1. /\ names' \in EditNames /\ names'.target = names.tmp /\ names'.tmp = Editor!Absent
        /\ names.tmp \in Editor!Inodes
    BY <1>3, EditTyped DEF EditNames
  <2>2. /\ save' \in [Request -> EditSlots]
        /\ save'[s] = Editor!Idle
        /\ \A t \in Request : t # s => save'[t] = save[t]
    BY <1>3, EditMoves, IdleSave DEF Editor!Done
  <2>3. save[s].value \in Content
    BY <1>1, EditTyped
  <2>4. EditType'
    BY <1>1, <1>2, <1>3, <2>1, <2>2, <2>3, EditTypes, EditTyped, IdleSave
  <2>5. CASE mixed
    BY <1>1, <2>4, <2>5 DEF EditInv
  <2>6. CASE ~mixed
    <3>1. \A t \in Request : ~Writes(t)'
      BY <1>1, <2>2, <2>6, IdleSave DEF EditInv, Writes
    <3>2. data[names.tmp] = Editor!Whole(save[s].value)
      BY <1>1, <2>1, <2>6, EditTyped, WholeBlock DEF EditInv, EditStage
    <3>3. names.tmp \in Editor!Used'
      BY <2>1 DEF Editor!Used
    <3>4. data'[names'.target] = Editor!Whole(last')
      BY <1>2, <1>3, <2>1, <3>2, <3>3
    <3>5. names'.target # names'.tmp
      BY <2>1, InodesAreNumbers
    <3>. QED
      BY <2>4, <3>1, <3>4, <3>5 DEF EditInv, EditStage
  <2>. QED
    BY <1>1, <2>5, <2>6
<1>4. CASE /\ names.tmp = Editor!Absent /\ Editor!Goto(s, "remove")
           /\ UNCHANGED <<names, last>>
  <2>. DEFINE new == [save[s] EXCEPT !.pc = "remove"]
  <2>1. mixed
    BY <1>1, <1>4 DEF EditInv, EditStage
  <2>2. new \in EditSlots /\ new.value = save[s].value
    BY EditTyped DEF EditSlots
  <2>3. save' = [save EXCEPT ![s] = new]
    BY <1>4 DEF Editor!Goto
  <2>. HIDE DEF new
  <2>4. /\ save' \in [Request -> EditSlots]
        /\ save'[s] = new
        /\ \A t \in Request : t # s => save'[t] = save[t]
    BY <2>2, <2>3, EditMoves
  <2>5. EditType'
    BY <1>1, <1>2, <1>4, <2>2, <2>4, EditTypes, EditTyped DEF EditInv, EditType, Editor!TypeOK
  <2>. QED
    BY <1>1, <2>1, <2>5 DEF EditInv
<1>. QED
  BY <1>3, <1>4 DEF Editor!Rename

LEMMA EditRemoves ==
  ASSUME EditInv, NEW s \in Request, Editor!RemoveTmp(s)
  PROVE  EditInv'
<1>1. /\ save[s].pc = "remove" /\ UNCHANGED <<mixed, last>> /\ Editor!Reclaim /\ Editor!Done(s)
      /\ names' = [names EXCEPT !.tmp = Editor!Absent]
  BY DEF Editor!RemoveTmp, Editor!At
<1>2. mixed
  BY <1>1 DEF EditInv, EditStage, Writes
<1>3. names' \in EditNames
  BY <1>1, EditTyped DEF EditNames
<1>4. /\ save' \in [Request -> EditSlots]
      /\ save'[s] = Editor!Idle
      /\ \A t \in Request : t # s => save'[t] = save[t]
  BY <1>1, EditMoves, IdleSave DEF Editor!Done
<1>5. data' \in [Editor!Inodes -> EditBlocks]
  BY <1>1, EditReclaims
<1>6. EditType'
  BY <1>1, <1>3, <1>4, <1>5, EditTypes, EditTyped, IdleSave DEF EditInv, EditType, Editor!TypeOK
<1>. QED
  BY <1>1, <1>2, <1>6 DEF EditInv

LEMMA EditSteps == EditInv /\ [Editor!Next]_(Editor!vars) => EditInv'
<1>. SUFFICES ASSUME EditInv, [Editor!Next]_(Editor!vars)
              PROVE  EditInv'
  OBVIOUS
<1>1. CASE UNCHANGED Editor!vars
  BY <1>1 DEF Editor!vars, EditInv, EditType, Editor!TypeOK, EditStage, Writes
<1>2. ASSUME NEW s \in Request, Editor!WriteFails(s) PROVE EditInv'
  BY <1>2, EditEnds DEF Editor!WriteFails
<1>. QED
  BY <1>1, <1>2, EditBegins, EditOpens, EditWritesHead, EditWritesTail, EditRenames, EditRemoves,
     EditLeaves, EditStops DEF Editor!Next

\* A saved file is there, and is what was put in place last, the whole of it,
\* through callers that leave in the middle, disks that are full and processes
\* that stop, for any number of saves of which no two are writing at the same
\* time (routes/projects.rs:180-215).
THEOREM SavesAreAtomic == OperationsSpec => []SavedIsThere
<1>1. EditInv => SavedIsThere
  BY DEF EditInv, SavedIsThere, Editor!SavedIsThere
<1>. QED
  BY EditRuns, EditInit, EditSteps, <1>1, PTL DEF Editor!Spec

--------------------------------------------------------------------------------
(* rusno update                                                                *)

Paths == {"exe", "exe_new", "stray", "stray_new"}
UpdateSlots ==
  [pc : {"idle", "check", "download", "sums", "create", "open", "write", "rename", "restart"},
   inode : Updating!Inodes \cup {Updating!Absent}, bytes : 0..Updating!Page,
   file : Updating!Inodes \cup {Updating!Absent}, dest : {"exe", "stray"}]
Binaries == {Updating!Partial, Updating!Page} \cup Updating!Versions

Swaps(u) == updater[u].pc \in {"write", "rename"}
SwapsExe(u) == Swaps(u) /\ updater[u].dest = "exe"
SwapsStray(u) == Swaps(u) /\ updater[u].dest = "stray"
\* From current_exe on, the swap is of rusno.
OpensExe(u) == updater[u].pc = "open" /\ updater[u].dest = "exe"
HoldsExe(u) == OpensExe(u) \/ SwapsExe(u)

\* A file is in hand from the moment that it is created.
UpdateType ==
  /\ Updating!TypeOK
  /\ \A u \in Request :
       updater[u].pc \in {"idle", "check", "download", "sums", "create", "open"} =>
         updater[u].file = Updating!Absent

\* What an updater runs is a whole release that nobody writes to, and what it has
\* fetched is newer; a lone swap of rusno is over the binary that it runs; what is
\* swapped for a "rusno (deleted)" is nobody's binary.
UpdateStage(u) ==
  LET r == updater[u] IN
  /\ r.pc # "idle" => /\ r.inode \in Updating!Inodes
                      /\ blob[r.inode] \in Updating!Versions
                      /\ r.inode # path["exe_new"] /\ r.inode # path["stray_new"]
  /\ r.pc = "download" => release > blob[r.inode]
  /\ r.pc \in {"sums", "create", "open", "write", "rename"} => r.bytes > blob[r.inode]
  /\ r.pc \in {"create", "open", "write", "rename"} => r.bytes \in Updating!Versions
  /\ HoldsExe(u) => r.inode = path["exe"]
  /\ SwapsExe(u) =>
       /\ r.file = path["exe_new"] /\ r.file # Updating!Absent
       /\ r.pc = "rename" => blob[r.file] = r.bytes
  /\ SwapsStray(u) =>
       /\ r.file \in Updating!Inodes /\ r.file # path["exe"] /\ r.file # path["exe_new"]
       /\ \A v \in Request : updater[v].pc # "idle" => r.file # updater[v].inode

PathsApart ==
  /\ path["exe"] # path["exe_new"] /\ path["exe"] # path["stray_new"]
  /\ path["exe_new"] # Updating!Absent => path["exe_new"] # path["stray_new"]

UpdateInv ==
  /\ UpdateType
  /\ raced
     \/ /\ PathsApart
        /\ blob[path["exe"]] \in Updating!Versions /\ service \in Updating!Versions
        /\ \A u, v \in Request : HoldsExe(u) /\ HoldsExe(v) => u = v
        /\ \A u \in Request : UpdateStage(u)

LEMMA UpdateRuns == OperationsSpec => Updating!Spec
<1>1. StartInit => Updating!Init
  BY DEF StartInit
<1>2. [AnyStep]_allVars => [Updating!Next]_(Updating!vars)
  BY DEF AnyStep, allVars, RegistryStep, EditorStep, UpdateStep, UnitStep, KeyStep, TuiStep,
     PagesStep, updateVars, Updating!vars
<1>. QED
  BY <1>1, <1>2, PTL DEF OperationsSpec, Updating!Spec

LEMMA UpdateNumbers ==
  /\ Cardinality(Request) \in Nat
  /\ Updating!Inodes = 1..3 + 2 * Cardinality(Request)
  /\ 1 \in Updating!Inodes /\ Updating!Absent \notin Updating!Inodes
  /\ MaxRelease \in Nat \ {0} /\ Updating!Page = MaxRelease + 1 /\ Updating!Partial = 0
  /\ Updating!Versions = 1..MaxRelease
<1>1. Cardinality(Request) \in Nat
  BY SlotsAssumption, FS_CardinalityType
<1>2. Updating!Inodes = 1..3 + 2 * Cardinality(Request) /\ Updating!Absent = 0
  BY DEF Updating!Inodes, Updating!Absent, Updating!Cardinality, Cardinality
<1>3. \A n \in Nat : 1 \in 1..3 + 2 * n /\ 0 \notin 1..3 + 2 * n
  OBVIOUS
<1>4. MaxRelease \in Nat \ {0} /\ Updating!Page = MaxRelease + 1 /\ Updating!Partial = 0
  BY ReleaseAssumption DEF Updating!Page, Updating!Partial
<1>. QED
  BY <1>1, <1>2, <1>3, <1>4 DEF Updating!Versions

LEMMA UpdateTyped ==
  ASSUME UpdateInv
  PROVE  /\ updater \in [Request -> UpdateSlots]
         /\ \A u \in Request : updater[u] \in UpdateSlots
         /\ path \in [Paths -> Updating!Inodes \cup {Updating!Absent}]
         /\ path["exe"] \in Updating!Inodes
         /\ path["exe_new"] \in Updating!Inodes \cup {Updating!Absent}
         /\ path["stray_new"] \in Updating!Inodes \cup {Updating!Absent}
         /\ blob \in [Updating!Inodes -> Binaries]
         /\ service \in Binaries /\ release \in Updating!Versions
         /\ raced \in BOOLEAN
BY DEF UpdateInv, UpdateType, Updating!TypeOK, UpdateSlots, Paths, Binaries

LEMMA IdleUpdater ==
  /\ Updating!Idle \in UpdateSlots /\ Updating!Idle.pc = "idle"
  /\ Updating!Idle.file = Updating!Absent
<1>1. 0 \in 0..Updating!Page
  BY UpdateNumbers
<1>. QED
  BY <1>1 DEF Updating!Idle, UpdateSlots

\* The updater u goes from its state to another, and the others stay.
LEMMA UpdateMoves ==
  ASSUME UpdateInv, NEW u \in Request, NEW new \in UpdateSlots,
         updater' = [updater EXCEPT ![u] = new]
  PROVE  /\ updater' \in [Request -> UpdateSlots]
         /\ updater'[u] = new
         /\ \A v \in Request : v # u => updater'[v] = updater[v]
BY UpdateTyped

\* The types after a step.
LEMMA UpdateTypes ==
  ASSUME updater' \in [Request -> UpdateSlots], release' \in Updating!Versions,
         path' \in [Paths -> Updating!Inodes \cup {Updating!Absent}],
         path'["exe"] \in Updating!Inodes, blob' \in [Updating!Inodes -> Binaries],
         service' \in Binaries, raced' \in BOOLEAN,
         \A u \in Request :
           updater'[u].pc \in {"idle", "check", "download", "sums", "create", "open"} =>
             updater'[u].file = Updating!Absent
  PROVE  UpdateType'
BY DEF UpdateType, Updating!TypeOK, UpdateSlots, Paths, Binaries

\* What rusno is stays, in a step.
BinaryStays == blob'[path'["exe"]] = blob[path["exe"]]

LEMMA UpdateInit == Updating!Init => UpdateInv
<1>. SUFFICES ASSUME Updating!Init PROVE UpdateInv
  OBVIOUS
<1>1. updater \in [Request -> UpdateSlots] /\ \A u \in Request : updater[u] = Updating!Idle
  BY IdleUpdater DEF Updating!Init
<1>2. /\ path \in [Paths -> Updating!Inodes \cup {Updating!Absent}]
      /\ path["exe"] = 1 /\ path["exe_new"] = Updating!Absent
      /\ path["stray_new"] = Updating!Absent
  BY UpdateNumbers DEF Updating!Init, Paths
<1>3. Installed \in Updating!Versions /\ 1 \in Updating!Versions
  BY ReleaseAssumption DEF Updating!Versions
<1>4. blob \in [Updating!Inodes -> Binaries] /\ blob[1] = Installed
  BY <1>3, UpdateNumbers DEF Updating!Init, Binaries
<1>5. service = Installed /\ release = 1 /\ raced = FALSE
  BY DEF Updating!Init
<1>6. UpdateType
  BY <1>1, <1>2, <1>3, <1>4, <1>5, IdleUpdater, UpdateNumbers
     DEF UpdateType, Updating!TypeOK, UpdateSlots, Paths, Binaries
<1>7. PathsApart
  BY <1>2, UpdateNumbers DEF PathsApart
<1>. QED
  BY <1>1, <1>2, <1>3, <1>4, <1>5, <1>6, <1>7, IdleUpdater
     DEF UpdateInv, UpdateStage, Swaps, HoldsExe, OpensExe, SwapsExe, SwapsStray

LEMMA UpdateReclaims ==
  ASSUME UpdateInv, Updating!Reclaim
  PROVE  /\ blob' \in [Updating!Inodes -> Binaries]
         /\ \A i \in Updating!Inodes : i \in Updating!Used' => blob'[i] = blob[i]
<1>1. blob' = [i \in Updating!Inodes |-> IF i \in Updating!Used' THEN blob[i] ELSE Updating!Partial]
  BY DEF Updating!Reclaim
<1>. QED
  BY <1>1, UpdateTyped DEF Binaries

\* There is an inode for a new file: one name is free, and the updater that
\* creates the file has none yet.
LEMMA BinaryIsFree ==
  ASSUME UpdateInv, NEW u \in Request, updater[u].file = Updating!Absent,
         NEW name \in {"exe_new", "stray_new"}, path[name] = Updating!Absent
  PROVE  Updating!FreshInode \in Updating!Inodes /\ Updating!FreshInode \notin Updating!Used
<1>. DEFINE others == Request \ {u}
            run == {updater[v].inode : v \in Request}
            made == {updater[v].file : v \in others}
            n == Cardinality(Request)
            z == path[IF name = "exe_new" THEN "stray_new" ELSE "exe_new"]
            T == ((run \cup made) \cup {path["exe"]}) \cup {path["stray"]}
<1>1. n \in Nat /\ Updating!Inodes = 1..3 + 2 * n /\ Updating!Absent \notin Updating!Inodes
  BY UpdateNumbers
<1>2. IsFiniteSet(run) /\ Cardinality(run) <= n
  <2>. DEFINE f == [v \in Request |-> updater[v].inode]
  <2>1. f \in Surjection(Request, run)
    BY DEF Surjection
  <2>. QED
    BY <2>1, SlotsAssumption, FS_Surjection
<1>3. IsFiniteSet(others) /\ Cardinality(others) = n - 1
  BY SlotsAssumption, FS_RemoveElement
<1>4. IsFiniteSet(made) /\ Cardinality(made) <= Cardinality(others)
  <2>. DEFINE f == [v \in others |-> updater[v].file]
  <2>1. f \in Surjection(others, made)
    BY DEF Surjection
  <2>. QED
    BY <1>3, <2>1, FS_Surjection
<1>5. Cardinality(made) + 1 <= n
  <2>1. PICK k \in Nat : k = Cardinality(made)
    BY <1>4, FS_CardinalityType
  <2>. QED
    BY <1>1, <1>3, <1>4, <2>1
<1>6. \A i \in Updating!Used : i \in T \cup {z} \/ i = Updating!Absent
  <2>1. ASSUME NEW k \in DOMAIN path PROVE path[k] \in T \cup {z} \/ path[k] = Updating!Absent
    BY UpdateTyped DEF Paths
  <2>2. ASSUME NEW v \in Request
        PROVE  updater[v].inode \in T /\ (updater[v].file \in T \/ updater[v].file = Updating!Absent)
    OBVIOUS
  <2>. QED
    BY <2>1, <2>2 DEF Updating!Used
<1>. HIDE DEF run, made, n, z
<1>7. IsFiniteSet(T) /\ Cardinality(T) <= n + (n - 1) + 1 + 1
  <2>1. PICK k \in Nat : k = n - 1
    BY <1>1, <1>5, <1>4, FS_CardinalityType
  <2>2. Cardinality(made) <= k
    BY <1>3, <1>4, <2>1
  <2>3. IsFiniteSet(run \cup made) /\ Cardinality(run \cup made) <= n + k
    BY <1>1, <1>2, <1>4, <2>2, TwoSets
  <2>4. n + k \in Nat /\ n + k + 1 \in Nat
    BY <1>1
  <2>. DEFINE U == (run \cup made) \cup {path["exe"]}
  <2>5. IsFiniteSet(U) /\ Cardinality(U) <= n + k + 1
    BY <2>3, <2>4, OneMore
  <2>. HIDE DEF U
  <2>6. IsFiniteSet(U \cup {path["stray"]}) /\ Cardinality(U \cup {path["stray"]}) <= n + k + 1 + 1
    BY <2>4, <2>5, OneMore
  <2>. QED
    BY <2>1, <2>6 DEF U
<1>. HIDE DEF T
<1>8. \E i \in Updating!Inodes : i \notin T \cup {z}
  <2>1. PICK k \in Nat : k = n + (n - 1) + 1 + 1
    BY <1>1
  <2>2. IsFiniteSet(T \cup {z}) /\ Cardinality(T \cup {z}) <= k + 1
    BY <1>7, <2>1, OneMore
  <2>3. 3 + 2 * n \in Nat /\ k + 1 \in Nat /\ k + 1 < 3 + 2 * n
    BY <1>1, <2>1
  <2>. QED
    BY <1>1, <2>2, <2>3, RoomLeft
<1>9. \E i \in Updating!Inodes : i \notin Updating!Used
  BY <1>1, <1>6, <1>8
<1>. QED
  BY <1>9 DEF Updating!FreshInode

\* What has a name, runs or is in hand is in use.
LEMMA InUse ==
  ASSUME path' \in [Paths -> Updating!Inodes \cup {Updating!Absent}]
  PROVE  /\ path'["exe"] \in Updating!Used' /\ path'["exe_new"] \in Updating!Used'
         /\ \A v \in Request : /\ updater'[v].inode \in Updating!Used'
                               /\ updater'[v].file \in Updating!Used'
BY DEF Updating!Used, Paths

\* What an updater that goes on between its fetches has to run and to hold.
Fetching(r, u) ==
  /\ r.inode \in Updating!Inodes /\ blob[r.inode] \in Updating!Versions
  /\ r.inode # path["exe_new"] /\ r.inode # path["stray_new"]
  /\ \A v \in Request : v # u /\ SwapsStray(v) => updater[v].file # r.inode
  /\ r.pc = "download" => release > blob[r.inode]
  /\ r.pc \in {"sums", "create", "open"} => r.bytes > blob[r.inode]
  /\ r.pc \in {"create", "open"} => r.bytes \in Updating!Versions
  /\ r.pc = "open" /\ r.dest = "exe" =>
       r.inode = path["exe"] /\ \A v \in Request : v # u => ~HoldsExe(v)

\* A step that touches no name: an updater begins, fetches or ends.
LEMMA UpdateRests ==
  ASSUME UpdateInv, NEW u \in Request, NEW new \in UpdateSlots,
         updater' = [updater EXCEPT ![u] = new],
         UNCHANGED <<path, release>>, raced' \in BOOLEAN, raced => raced',
         blob' \in [Updating!Inodes -> Binaries],
         \A i \in Updating!Inodes : i \in Updating!Used' => blob'[i] = blob[i],
         service' \in {service, blob[path["exe"]]},
         new.pc \in {"idle", "check", "download", "sums", "create", "open"},
         new.file = Updating!Absent,
         raced' \/ new.pc = "idle" \/ Fetching(new, u)
  PROVE  UpdateInv'
<1>1. /\ updater' \in [Request -> UpdateSlots]
      /\ updater'[u] = new
      /\ \A v \in Request : v # u => updater'[v] = updater[v]
  BY UpdateMoves
<1>2. UpdateType'
  <2>1. blob[path["exe"]] \in Binaries
    BY UpdateTyped
  <2>2. \A v \in Request :
          updater'[v].pc \in {"idle", "check", "download", "sums", "create", "open"} =>
            updater'[v].file = Updating!Absent
    BY <1>1 DEF UpdateInv, UpdateType
  <2>. QED
    BY <1>1, <2>1, <2>2, UpdateTypes, UpdateTyped
<1>3. CASE raced'
  BY <1>2, <1>3 DEF UpdateInv
<1>4. CASE ~raced'
  <2>1. /\ PathsApart /\ \A v \in Request : UpdateStage(v)
        /\ blob[path["exe"]] \in Updating!Versions /\ service \in Updating!Versions
    BY <1>4 DEF UpdateInv
  <2>2. blob'[path'["exe"]] \in Updating!Versions /\ service' \in Updating!Versions
    BY <2>1, UpdateTyped, InUse
  <2>3. /\ \A v \in Request : Swaps(v)' => v # u /\ Swaps(v)
        /\ \A v \in Request : v # u => (HoldsExe(v)' <=> HoldsExe(v))
    BY <1>1 DEF Swaps, HoldsExe, OpensExe, SwapsExe
  <2>4. ASSUME NEW v \in Request, v # u PROVE UpdateStage(v)'
    <3>1. updater'[v] = updater[v] /\ UpdateStage(v)
      BY <1>1, <2>1, <2>4
    <3>2. updater[v].inode \in Updating!Inodes => blob'[updater[v].inode] = blob[updater[v].inode]
      BY <3>1, UpdateTyped, InUse
    <3>3. updater[v].file \in Updating!Inodes => blob'[updater[v].file] = blob[updater[v].file]
      BY <3>1, UpdateTyped, InUse
    <3>4. updater[v].file = path["exe_new"] /\ updater[v].file # Updating!Absent =>
            updater[v].file \in Updating!Inodes
      BY UpdateTyped
    <3>5. SwapsStray(v) => \A w \in Request : updater'[w].pc # "idle" => updater[v].file # updater'[w].inode
      BY <1>1, <1>4, <2>4, <3>1 DEF UpdateStage, Fetching
    <3>. QED
      BY <3>1, <3>2, <3>3, <3>4, <3>5 DEF UpdateStage, Swaps, HoldsExe, OpensExe, SwapsExe, SwapsStray
  <2>5. UpdateStage(u)'
    <3>1. new.pc # "idle" => blob'[new.inode] = blob[new.inode]
      BY <1>1, <1>4, UpdateTyped, InUse DEF Fetching
    <3>. QED
      BY <1>1, <1>4, <2>3, <3>1 DEF UpdateStage, Fetching, HoldsExe, OpensExe, SwapsExe, SwapsStray
  <2>6. PathsApart'
    BY <2>1 DEF PathsApart
  <2>7. \A v, w \in Request : HoldsExe(v)' /\ HoldsExe(w)' => v = w
    <3>1. HoldsExe(u)' => \A v \in Request : v # u => ~HoldsExe(v)
      BY <1>1, <1>4, <2>3 DEF HoldsExe, OpensExe, SwapsExe, Fetching
    <3>. QED
      BY <1>4, <2>3, <3>1 DEF UpdateInv
  <2>. QED
    BY <1>2, <2>2, <2>4, <2>5, <2>6, <2>7 DEF UpdateInv
<1>. QED
  BY <1>3, <1>4

LEMMA UpdateEnds ==
  ASSUME UpdateInv, NEW u \in Request, Updating!Done(u),
         UNCHANGED <<path, release, raced>>, service' \in {service, blob[path["exe"]]},
         Updating!Reclaim
  PROVE  UpdateInv'
<1>1. updater' = [updater EXCEPT ![u] = Updating!Idle]
  BY DEF Updating!Done
<1>. QED
  BY <1>1, IdleUpdater, UpdateTyped, UpdateReclaims, UpdateRests

LEMMA UpdateStarts ==
  ASSUME UpdateInv, NEW u \in Request, Updating!Start(u)
  PROVE  UpdateInv'
<1>. DEFINE new == [Updating!Idle EXCEPT !.pc = "check", !.inode = path["exe"]]
<1>1. /\ updater' = [updater EXCEPT ![u] = new] /\ blob[path["exe"]] \in Updating!Versions
      /\ UNCHANGED <<release, path, blob, service, raced>>
  BY DEF Updating!Start
<1>2. /\ new \in UpdateSlots /\ new.pc = "check" /\ new.inode = path["exe"]
      /\ new.file = Updating!Absent
  <2>1. 0 \in 0..Updating!Page
    BY UpdateNumbers
  <2>. QED
    BY <2>1, UpdateTyped DEF Updating!Idle, UpdateSlots
<1>. HIDE DEF new
<1>3. raced \/ Fetching(new, u)
  BY <1>1, <1>2, UpdateTyped DEF Fetching, UpdateInv, UpdateStage, PathsApart
<1>. QED
  BY <1>1, <1>2, <1>3, UpdateTyped, UpdateRests

\* The check, the download and the checksum: a release that went by is newer.
LEMMA UpdateFetches ==
  ASSUME UpdateInv, NEW u \in Request,
         Updating!Check(u) \/ Updating!Download(u) \/ Updating!Verify(u)
  PROVE  UpdateInv'
<1>1. /\ UNCHANGED <<release, path, service, raced>> /\ Updating!Reclaim
      /\ updater[u].pc \in {"check", "download", "sums"}
  BY DEF Updating!Check, Updating!Download, Updating!Verify, Updating!At
<1>2. /\ updater[u] \in UpdateSlots /\ updater[u].file = Updating!Absent
      /\ updater[u].pc # "idle"
  BY <1>1, UpdateTyped DEF UpdateInv, UpdateType
<1>3. ASSUME ~raced
      PROVE  /\ UpdateStage(u)
             /\ \A v \in Request : SwapsStray(v) => updater[v].file # updater[u].inode
  BY <1>2, <1>3 DEF UpdateInv, UpdateStage
<1>4. CASE Updating!Done(u)
  BY <1>1, <1>4, UpdateEnds
<1>5. CASE /\ updater[u].pc = "check" /\ release > blob[updater[u].inode]
           /\ updater' = [updater EXCEPT ![u].pc = "download"]
  <2>. DEFINE new == [updater[u] EXCEPT !.pc = "download"]
  <2>1. /\ new \in UpdateSlots /\ new.pc = "download" /\ new.file = Updating!Absent
        /\ new.inode = updater[u].inode
    BY <1>2 DEF UpdateSlots
  <2>2. updater' = [updater EXCEPT ![u] = new]
    BY <1>5
  <2>. HIDE DEF new
  <2>3. raced \/ Fetching(new, u)
    BY <1>2, <1>3, <1>5, <2>1 DEF Fetching, UpdateStage
  <2>. QED
    BY <1>1, <2>1, <2>2, <2>3, UpdateTyped, UpdateReclaims, UpdateRests
<1>6. ASSUME NEW b \in {release, Updating!Page}, updater[u].pc = "download",
             updater' = [updater EXCEPT ![u].pc = "sums", ![u].bytes = b]
      PROVE  UpdateInv'
  <2>. DEFINE new == [updater[u] EXCEPT !.pc = "sums", !.bytes = b]
  <2>1. b \in 0..Updating!Page
    BY UpdateTyped, UpdateNumbers
  <2>2. /\ new \in UpdateSlots /\ new.pc = "sums" /\ new.file = Updating!Absent
        /\ new.inode = updater[u].inode /\ new.bytes = b
    BY <1>2, <2>1 DEF UpdateSlots
  <2>3. updater' = [updater EXCEPT ![u] = new]
    BY <1>6
  <2>. HIDE DEF new
  <2>4. raced \/ b > blob[updater[u].inode]
    <3>. SUFFICES ASSUME ~raced PROVE b > blob[updater[u].inode]
      OBVIOUS
    <3>1. release > blob[updater[u].inode] /\ blob[updater[u].inode] \in Updating!Versions
      BY <1>3, <1>6 DEF UpdateStage
    <3>. QED
      BY <3>1, UpdateNumbers
  <2>5. raced \/ Fetching(new, u)
    BY <1>2, <1>3, <2>2, <2>4 DEF Fetching, UpdateStage
  <2>. QED
    BY <1>1, <2>2, <2>3, <2>5, UpdateTyped, UpdateReclaims, UpdateRests
<1>7. CASE /\ updater[u].pc = "sums" /\ updater[u].bytes = release
           /\ updater' = [updater EXCEPT ![u].pc = "create"]
  <2>. DEFINE new == [updater[u] EXCEPT !.pc = "create"]
  <2>1. /\ new \in UpdateSlots /\ new.pc = "create" /\ new.file = Updating!Absent
        /\ new.inode = updater[u].inode /\ new.bytes = release
    BY <1>2, <1>7 DEF UpdateSlots
  <2>2. updater' = [updater EXCEPT ![u] = new]
    BY <1>7
  <2>. HIDE DEF new
  <2>3. raced \/ Fetching(new, u)
    BY <1>2, <1>3, <1>7, <2>1, UpdateTyped DEF Fetching, UpdateStage
  <2>. QED
    BY <1>1, <2>1, <2>2, <2>3, UpdateTyped, UpdateReclaims, UpdateRests
<1>. QED
  BY <1>4, <1>5, <1>6, <1>7 DEF Updating!Check, Updating!Download, Updating!Verify, Updating!At,
     Updating!Newer, Updating!Current, Updating!Goto

\* A step that touches no updater.
LEMMA UpdateQuiet ==
  ASSUME UpdateInv, Updating!Publish \/ Updating!ServiceRestarts
  PROVE  UpdateInv'
<1>1. /\ UNCHANGED <<path, blob, updater, raced>> /\ service' \in {service, blob[path["exe"]]}
      /\ release' \in {release, release + 1} /\ (release' = release \/ release < MaxRelease)
  BY DEF Updating!Publish, Updating!ServiceRestarts
<1>2. /\ release' \in Updating!Versions /\ release' >= release
      /\ blob[path["exe"]] \in Binaries
  BY <1>1, UpdateTyped, UpdateNumbers
<1>3. UpdateType'
  BY <1>1, <1>2, UpdateTypes, UpdateTyped DEF UpdateInv, UpdateType
<1>4. ASSUME NEW u \in Request, UpdateStage(u) PROVE UpdateStage(u)'
  <2>1. updater[u].pc = "download" => release' > blob[updater[u].inode]
    <3>. SUFFICES ASSUME updater[u].pc = "download" PROVE release' > blob[updater[u].inode]
      OBVIOUS
    <3>1. release > blob[updater[u].inode] /\ blob[updater[u].inode] \in Updating!Versions
      BY <1>4 DEF UpdateStage
    <3>. QED
      BY <1>2, <3>1, UpdateTyped, UpdateNumbers
  <2>. QED
    BY <1>1, <1>4, <2>1 DEF UpdateStage, Swaps, HoldsExe, OpensExe, SwapsExe, SwapsStray
<1>. QED
  BY <1>1, <1>3, <1>4 DEF UpdateInv, PathsApart, Swaps, HoldsExe, OpensExe, SwapsExe

\* A swap begins: of rusno, when that is still the binary that runs, and then it
\* is the only one, unless two swap rusno at the same time.
LEMMA UpdateResolves ==
  ASSUME UpdateInv, NEW u \in Request, Updating!Resolve(u)
  PROVE  UpdateInv'
<1>1. PICK dest \in {"exe", "stray"} :
        /\ dest = IF updater[u].inode = path["exe"] THEN "exe" ELSE "stray"
        /\ updater' = [updater EXCEPT ![u].pc = "open", ![u].dest = dest]
        /\ raced' = (raced \/ (dest = "exe" /\ Updating!Swapping # {}))
  BY DEF Updating!Resolve
<1>2. updater[u].pc = "create" /\ UNCHANGED <<release, path, blob, service>>
  BY DEF Updating!Resolve, Updating!At
<1>3. updater[u] \in UpdateSlots /\ updater[u].file = Updating!Absent
  BY <1>2, UpdateTyped DEF UpdateInv, UpdateType
<1>. DEFINE new == [updater[u] EXCEPT !.pc = "open", !.dest = dest]
<1>4. /\ new \in UpdateSlots /\ new.pc = "open" /\ new.dest = dest
      /\ new.file = Updating!Absent
      /\ new.inode = updater[u].inode /\ new.bytes = updater[u].bytes
  BY <1>3 DEF UpdateSlots
<1>5. updater' = [updater EXCEPT ![u] = new]
  BY <1>1
<1>. HIDE DEF new
<1>6. raced' \in BOOLEAN /\ (raced => raced')
  BY <1>1, UpdateTyped
<1>7. raced' \/ Fetching(new, u)
  <2>. SUFFICES ASSUME ~raced' PROVE Fetching(new, u)
    OBVIOUS
  <2>1. /\ UpdateStage(u) /\ \A v \in Request : UpdateStage(v)
        /\ dest = "exe" => Updating!Swapping = {}
    BY <1>1, <1>6 DEF UpdateInv
  <2>2. dest = "exe" => \A v \in Request : ~HoldsExe(v)
    BY <2>1 DEF Updating!Swapping, HoldsExe, OpensExe, SwapsExe, Swaps
  <2>3. \A v \in Request : SwapsStray(v) => updater[v].file # updater[u].inode
    BY <1>2, <2>1 DEF UpdateStage
  <2>. QED
    BY <1>1, <1>2, <1>4, <2>1, <2>2, <2>3 DEF Fetching, UpdateStage
<1>. QED
  BY <1>2, <1>4, <1>5, <1>6, <1>7, UpdateTyped, UpdateRests

\* The temp file is created, and no other updater that swaps the same has it in
\* hand.
LEMMA UpdateCreates ==
  ASSUME UpdateInv, NEW u \in Request, Updating!Create(u)
  PROVE  UpdateInv' /\ (raced' \/ BinaryStays)
<1>1. PICK dest \in {"exe", "stray"}, name \in {"exe_new", "stray_new"} :
        /\ dest = updater[u].dest
        /\ name = IF dest = "exe" THEN "exe_new" ELSE "stray_new"
        /\ name = Updating!NewOf(dest)
  BY UpdateTyped DEF Updating!NewOf, UpdateSlots
<1>2. updater[u].pc = "open" /\ UNCHANGED <<release, service, raced>>
  BY DEF Updating!Create, Updating!At
<1>3. PICK i \in {IF path[name] = Updating!Absent THEN Updating!FreshInode ELSE path[name]} :
        /\ path' = [path EXCEPT ![name] = i]
        /\ blob' = [blob EXCEPT ![i] = Updating!Partial]
        /\ updater' = [updater EXCEPT ![u].pc = "write", ![u].file = i]
  BY <1>1 DEF Updating!Create
<1>4. updater[u] \in UpdateSlots /\ updater[u].file = Updating!Absent
  BY <1>2, UpdateTyped DEF UpdateInv, UpdateType
<1>5. /\ i \in Updating!Inodes /\ i # Updating!Absent
      /\ i = path[name] \/ i \notin Updating!Used
  BY <1>3, <1>4, BinaryIsFree, UpdateTyped, UpdateNumbers DEF Paths
<1>. DEFINE new == [updater[u] EXCEPT !.pc = "write", !.file = i]
<1>6. /\ new \in UpdateSlots /\ new.pc = "write" /\ new.dest = dest /\ new.file = i
      /\ new.inode = updater[u].inode /\ new.bytes = updater[u].bytes
  BY <1>1, <1>4, <1>5 DEF UpdateSlots
<1>7. updater' = [updater EXCEPT ![u] = new]
  BY <1>3
<1>. HIDE DEF new
<1>8. /\ updater' \in [Request -> UpdateSlots]
      /\ updater'[u] = new
      /\ \A v \in Request : v # u => updater'[v] = updater[v]
  BY <1>6, <1>7, UpdateMoves
<1>9. /\ path' \in [Paths -> Updating!Inodes \cup {Updating!Absent}]
      /\ path'["exe"] = path["exe"] /\ path'[name] = i
      /\ \A n \in {"exe_new", "stray_new"} : n # name => path'[n] = path[n]
  BY <1>3, <1>5, UpdateTyped DEF Paths
<1>10. /\ blob' \in [Updating!Inodes -> Binaries]
       /\ \A j \in Updating!Inodes : j # i => blob'[j] = blob[j]
  BY <1>3, UpdateTyped DEF Binaries
<1>11. raced' \in BOOLEAN /\ (raced => raced')
  BY <1>2, UpdateTyped
<1>12. UpdateType'
  <2>1. \A v \in Request :
          updater'[v].pc \in {"idle", "check", "download", "sums", "create", "open"} =>
            updater'[v].file = Updating!Absent
    BY <1>6, <1>8 DEF UpdateInv, UpdateType
  <2>. QED
    BY <1>2, <1>8, <1>9, <1>10, <1>11, <2>1, UpdateTypes, UpdateTyped
<1>13. CASE raced'
  BY <1>12, <1>13 DEF UpdateInv
<1>14. CASE ~raced'
  <2>1. /\ ~raced /\ PathsApart /\ \A v \in Request : UpdateStage(v)
        /\ blob[path["exe"]] \in Updating!Versions /\ service \in Updating!Versions
    BY <1>11, <1>14 DEF UpdateInv
  <2>2. dest = "exe" => HoldsExe(u) /\ \A v \in Request : ~SwapsExe(v)
    BY <1>1, <1>2, <1>14 DEF UpdateInv, HoldsExe, OpensExe, SwapsExe, Swaps
  <2>3. \A v \in Request : path["exe"] \in Updating!Used /\ path["exe_new"] \in Updating!Used
          /\ path["stray_new"] \in Updating!Used /\ updater[v].inode \in Updating!Used
          /\ updater[v].file \in Updating!Used
    BY UpdateTyped DEF Updating!Used, Paths
  <2>4. /\ i # path["exe"]
        /\ \A v \in Request : updater[v].pc # "idle" => i # updater[v].inode
    BY <1>5, <2>1, <2>3 DEF PathsApart, UpdateStage
  <2>5. \A n \in {"exe_new", "stray_new"} : n # name => i # path[n]
    BY <1>5, <2>1, <2>3 DEF PathsApart
  <2>6. PathsApart'
    BY <1>5, <1>9, <2>1, <2>4, <2>5 DEF PathsApart
  <2>7. blob'[path'["exe"]] \in Updating!Versions /\ service' \in Updating!Versions
    BY <1>2, <1>9, <1>10, <2>1, <2>4, UpdateTyped
  <2>14. \A v \in Request : v # u => (SwapsExe(v)' <=> SwapsExe(v)) /\ (SwapsStray(v)' <=> SwapsStray(v))
    BY <1>8 DEF SwapsExe, SwapsStray, Swaps
  <2>15. \A v \in Request : v # u => (OpensExe(v)' <=> OpensExe(v))
    BY <1>8 DEF OpensExe
  <2>8. \A v \in Request : v # u => (HoldsExe(v)' <=> HoldsExe(v))
    BY <2>14, <2>15 DEF HoldsExe
  <2>13. HoldsExe(u)' => HoldsExe(u)
    BY <1>6, <1>8, <2>2 DEF HoldsExe, OpensExe, SwapsExe
  <2>9. \A v, w \in Request : HoldsExe(v)' /\ HoldsExe(w)' => v = w
    BY <2>1, <2>8, <2>13 DEF UpdateInv
  <2>10. \A v \in Request : /\ updater'[v].pc # "idle" <=> updater[v].pc # "idle"
                            /\ updater'[v].inode = updater[v].inode
    BY <1>2, <1>6, <1>8
  <2>11. UpdateStage(u)'
    <3>1. UpdateStage(u) /\ updater[u].pc = "open" /\ updater[u].inode # i
      BY <1>2, <2>1, <2>4
    <3>2. blob'[updater[u].inode] = blob[updater[u].inode]
      BY <1>2, <1>10, <3>1 DEF UpdateStage
    <3>3. updater[u].inode # path'["exe_new"] /\ updater[u].inode # path'["stray_new"]
      BY <1>2, <1>9, <3>1 DEF UpdateStage
    <3>4. dest = "stray" => i # path'["exe"] /\ i # path'["exe_new"]
      BY <1>1, <1>9, <2>4, <2>5
    <3>5. dest = "exe" => updater[u].inode = path'["exe"] /\ i = path'["exe_new"]
      BY <1>1, <1>9, <2>2, <3>1 DEF UpdateStage
    <3>. QED
      BY <1>5, <1>6, <1>8, <2>4, <2>10, <3>1, <3>2, <3>3, <3>4, <3>5
         DEF UpdateStage, HoldsExe, OpensExe, SwapsExe, SwapsStray, Swaps
  <2>12. ASSUME NEW v \in Request, v # u PROVE UpdateStage(v)'
    <3>1. updater'[v] = updater[v] /\ UpdateStage(v)
      BY <1>8, <2>1, <2>12
    <3>2. updater[v].pc # "idle" => /\ blob'[updater[v].inode] = blob[updater[v].inode]
                                    /\ updater[v].inode # path'["exe_new"]
                                    /\ updater[v].inode # path'["stray_new"]
      BY <1>9, <1>10, <2>4, <3>1 DEF UpdateStage
    <3>3. SwapsExe(v) => /\ name = "stray_new" /\ path'["exe_new"] = path["exe_new"]
                         /\ updater[v].file # i /\ updater[v].file \in Updating!Inodes
      BY <1>1, <1>9, <2>2, <2>5, <3>1, UpdateTyped DEF UpdateStage
    <3>4. SwapsExe(v) => blob'[updater[v].file] = blob[updater[v].file]
      BY <1>10, <3>3
    <3>5. SwapsStray(v) => updater[v].file # path'["exe_new"]
      BY <1>1, <1>5, <1>9, <2>3, <3>1 DEF UpdateStage
    <3>. QED
      BY <1>2, <1>9, <2>8, <2>10, <2>12, <2>14, <3>1, <3>2, <3>3, <3>4, <3>5 DEF UpdateStage, Swaps
  <2>. QED
    BY <1>9, <1>10, <1>12, <2>4, <2>6, <2>7, <2>9, <2>11, <2>12, UpdateTyped
       DEF UpdateInv, BinaryStays
<1>. QED
  BY <1>13, <1>14

LEMMA UpdateWrites ==
  ASSUME UpdateInv, NEW u \in Request, Updating!Write(u)
  PROVE  UpdateInv' /\ (raced' \/ BinaryStays)
<1>. DEFINE new == [updater[u] EXCEPT !.pc = "rename"]
            i == updater[u].file
            b == updater[u].bytes
<1>1. /\ updater[u].pc = "write" /\ UNCHANGED <<release, path, service, raced>>
      /\ updater' = [updater EXCEPT ![u] = new] /\ blob' = [blob EXCEPT ![i] = b]
  BY DEF Updating!Write, Updating!At, Updating!Goto
<1>2. /\ new \in UpdateSlots /\ new.pc = "rename" /\ new.dest = updater[u].dest
      /\ new.file = i /\ new.inode = updater[u].inode /\ new.bytes = b
      /\ updater[u].dest \in {"exe", "stray"} /\ b \in 0..Updating!Page
  BY UpdateTyped DEF UpdateSlots
<1>. HIDE DEF new
<1>3. /\ updater' \in [Request -> UpdateSlots]
      /\ updater'[u] = new
      /\ \A v \in Request : v # u => updater'[v] = updater[v]
  BY <1>1, <1>2, UpdateMoves
<1>4. b \in Binaries
  BY <1>2, UpdateNumbers DEF Binaries
<1>. HIDE DEF b, i
<1>5. /\ blob' \in [Updating!Inodes -> Binaries]
      /\ \A j \in Updating!Inodes : j # i => blob'[j] = blob[j]
      /\ i \in Updating!Inodes => blob'[i] = b
  BY <1>1, <1>4, UpdateTyped
<1>6. UpdateType'
  <2>1. \A v \in Request :
          updater'[v].pc \in {"idle", "check", "download", "sums", "create", "open"} =>
            updater'[v].file = Updating!Absent
    BY <1>2, <1>3 DEF UpdateInv, UpdateType
  <2>. QED
    BY <1>1, <1>3, <1>5, <2>1, UpdateTypes, UpdateTyped
<1>7. CASE raced
  BY <1>1, <1>6, <1>7 DEF UpdateInv
<1>8. CASE ~raced
  <2>1. /\ PathsApart /\ \A v \in Request : UpdateStage(v)
        /\ blob[path["exe"]] \in Updating!Versions /\ service \in Updating!Versions
    BY <1>8 DEF UpdateInv
  <2>2. SwapsExe(u) \/ SwapsStray(u)
    BY <1>1, <1>2 DEF SwapsExe, SwapsStray, Swaps
  <2>3. /\ i \in Updating!Inodes /\ i # path["exe"]
        /\ SwapsExe(u) => i = path["exe_new"]
        /\ SwapsStray(u) => i # path["exe_new"]
        /\ \A v \in Request : updater[v].pc # "idle" => i # updater[v].inode
    BY <2>1, <2>2, UpdateTyped DEF UpdateStage, PathsApart, i
  <2>4. \A v \in Request : /\ SwapsExe(v)' <=> SwapsExe(v)
                           /\ SwapsStray(v)' <=> SwapsStray(v)
                           /\ HoldsExe(v)' <=> HoldsExe(v)
    BY <1>1, <1>2, <1>3 DEF HoldsExe, OpensExe, SwapsExe, SwapsStray, Swaps
  <2>5. \A v \in Request : /\ updater'[v].pc # "idle" <=> updater[v].pc # "idle"
                           /\ updater'[v].inode = updater[v].inode
                           /\ updater[v].pc # "idle" =>
                                blob'[updater[v].inode] = blob[updater[v].inode]
    BY <1>1, <1>2, <1>3, <1>5, <2>1, <2>3 DEF UpdateStage
  <2>6. UpdateStage(u)'
    BY <1>1, <1>2, <1>3, <1>5, <2>1, <2>3, <2>4, <2>5 DEF UpdateStage, i, b
  <2>7. ASSUME NEW v \in Request, v # u PROVE UpdateStage(v)'
    <3>1. updater'[v] = updater[v] /\ UpdateStage(v)
      BY <1>3, <2>1, <2>7
    <3>2. SwapsExe(v) => updater[v].file # i /\ updater[v].file \in Updating!Inodes
      BY <1>8, <2>1, <2>2, <2>3, <2>7, UpdateTyped DEF UpdateStage, UpdateInv, HoldsExe
    <3>3. SwapsExe(v) => blob'[updater[v].file] = blob[updater[v].file]
      BY <1>5, <3>2
    <3>. QED
      BY <1>1, <2>4, <2>5, <2>7, <3>1, <3>3 DEF UpdateStage
  <2>8. blob'[path'["exe"]] \in Updating!Versions /\ service' \in Updating!Versions
    BY <1>1, <1>5, <2>1, <2>3, UpdateTyped
  <2>9. \A v, w \in Request : HoldsExe(v)' /\ HoldsExe(w)' => v = w
    BY <1>8, <2>4 DEF UpdateInv
  <2>. QED
    BY <1>1, <1>5, <1>6, <2>1, <2>3, <2>6, <2>7, <2>8, <2>9, UpdateTyped
       DEF UpdateInv, PathsApart, BinaryStays
<1>. QED
  BY <1>7, <1>8

LEMMA ReclaimKeepsBinary ==
  ASSUME UpdateInv, Updating!Reclaim, path'["exe"] = path["exe"],
         path' \in [Paths -> Updating!Inodes \cup {Updating!Absent}]
  PROVE  BinaryStays
BY InUse, UpdateReclaims, UpdateTyped DEF BinaryStays

LEMMA SwapEnds ==
  ASSUME UpdateInv, NEW u \in Request, Updating!SwapFails(u)
  PROVE  UpdateInv'
<1>1. /\ updater[u].pc = "open" \/ Swaps(u)
      /\ UNCHANGED <<release, service, raced>> /\ Updating!Reclaim
      /\ updater' = [updater EXCEPT ![u] = Updating!Idle]
  BY DEF Updating!SwapFails, Updating!Done, Swaps
<1>2. PICK name \in {"exe_new", "stray_new"} :
        /\ path' = [path EXCEPT ![name] = Updating!Absent]
        /\ HoldsExe(u) <=> name = "exe_new"
  BY <1>1, UpdateTyped
     DEF Updating!SwapFails, Updating!NewOf, HoldsExe, OpensExe, SwapsExe, UpdateSlots
<1>3. /\ updater' \in [Request -> UpdateSlots]
      /\ updater'[u] = Updating!Idle
      /\ \A v \in Request : v # u => updater'[v] = updater[v]
  BY <1>1, UpdateMoves, IdleUpdater
<1>4. /\ path' \in [Paths -> Updating!Inodes \cup {Updating!Absent}]
      /\ path'["exe"] = path["exe"] /\ path'[name] = Updating!Absent
      /\ \A n \in {"exe_new", "stray_new"} : n # name => path'[n] = path[n]
  BY <1>2, UpdateTyped DEF Paths
<1>5. blob' \in [Updating!Inodes -> Binaries]
  BY <1>1, UpdateReclaims
<1>6. UpdateType'
  <2>1. \A v \in Request :
          updater'[v].pc \in {"idle", "check", "download", "sums", "create", "open"} =>
            updater'[v].file = Updating!Absent
    BY <1>3, IdleUpdater DEF UpdateInv, UpdateType
  <2>. QED
    BY <1>1, <1>3, <1>4, <1>5, <2>1, UpdateTypes, UpdateTyped
<1>7. CASE raced
  BY <1>1, <1>6, <1>7 DEF UpdateInv
<1>8. CASE ~raced
  <2>1. /\ PathsApart /\ \A v \in Request : UpdateStage(v)
        /\ blob[path["exe"]] \in Updating!Versions /\ service \in Updating!Versions
    BY <1>8 DEF UpdateInv
  <2>2. BinaryStays
    BY <1>1, <1>4, ReclaimKeepsBinary
  <2>3. PathsApart'
    BY <1>4, <2>1, UpdateTyped, UpdateNumbers DEF PathsApart
  <2>4. \A v \in Request : HoldsExe(v)' => v # u /\ HoldsExe(v)
    BY <1>3, IdleUpdater DEF HoldsExe, OpensExe, SwapsExe, Swaps
  <2>5. UpdateStage(u)'
    BY <1>3, IdleUpdater DEF UpdateStage, Swaps, HoldsExe, OpensExe, SwapsExe, SwapsStray
  <2>6. ASSUME NEW v \in Request, v # u PROVE UpdateStage(v)'
    <3>1. updater'[v] = updater[v] /\ UpdateStage(v)
      BY <1>3, <2>1, <2>6
    <3>2. SwapsExe(v) => name = "stray_new"
      BY <1>2, <1>8, <2>6 DEF UpdateInv, HoldsExe
    <3>3. updater[v].inode \in Updating!Inodes => blob'[updater[v].inode] = blob[updater[v].inode]
      BY <1>1, <1>4, <3>1, InUse, UpdateReclaims
    <3>4. updater[v].file \in Updating!Inodes => blob'[updater[v].file] = blob[updater[v].file]
      BY <1>1, <1>4, <3>1, InUse, UpdateReclaims
    <3>5. updater[v].pc # "idle" => /\ updater[v].inode # path'["exe_new"]
                                    /\ updater[v].inode # path'["stray_new"]
      BY <1>4, <3>1, UpdateNumbers DEF UpdateStage
    <3>6. SwapsExe(v) => path'["exe_new"] = path["exe_new"] /\ updater[v].file \in Updating!Inodes
      BY <1>4, <3>1, <3>2, UpdateTyped DEF UpdateStage
    <3>7. SwapsStray(v) => updater[v].file # path'["exe_new"]
      BY <1>4, <3>1, UpdateNumbers DEF UpdateStage
    <3>8. SwapsStray(v) => \A w \in Request : updater'[w].pc # "idle" => updater[v].file # updater'[w].inode
      BY <1>3, <3>1, IdleUpdater DEF UpdateStage
    <3>. QED
      BY <1>1, <1>4, <3>1, <3>3, <3>4, <3>5, <3>6, <3>7, <3>8
         DEF UpdateStage, Swaps, HoldsExe, OpensExe, SwapsExe, SwapsStray
  <2>7. \A v, w \in Request : HoldsExe(v)' /\ HoldsExe(w)' => v = w
    BY <1>3, <1>8, <2>4 DEF UpdateInv, HoldsExe, OpensExe, SwapsExe
  <2>. QED
    BY <1>1, <1>6, <2>1, <2>2, <2>3, <2>5, <2>6, <2>7 DEF UpdateInv, BinaryStays
<1>. QED
  BY <1>7, <1>8

\* The file is put in place: rusno becomes a newer release than it was.
LEMMA SwapRenames ==
  ASSUME UpdateInv, NEW u \in Request, Updating!Rename(u)
  PROVE  UpdateInv' /\ (raced' \/ blob'[path'["exe"]] >= blob[path["exe"]])
<1>. DEFINE new == [updater[u] EXCEPT !.pc = "restart"]
<1>1. /\ updater[u].pc = "rename" /\ Swaps(u) /\ UNCHANGED <<release, service, raced>>
      /\ Updating!Reclaim /\ updater' = [updater EXCEPT ![u] = new]
  BY DEF Updating!Rename, Updating!At, Updating!Goto, Swaps
<1>2. PICK dest \in {"exe", "stray"}, name \in {"exe_new", "stray_new"} :
        /\ dest = updater[u].dest /\ name = IF dest = "exe" THEN "exe_new" ELSE "stray_new"
        /\ path[name] # Updating!Absent
        /\ path' = [path EXCEPT ![dest] = path[name], ![name] = Updating!Absent]
  BY UpdateTyped DEF Updating!Rename, Updating!NewOf, UpdateSlots
<1>3. /\ new \in UpdateSlots /\ new.pc = "restart" /\ new.inode = updater[u].inode
  BY UpdateTyped DEF UpdateSlots
<1>. HIDE DEF new
<1>4. /\ updater' \in [Request -> UpdateSlots]
      /\ updater'[u] = new
      /\ \A v \in Request : v # u => updater'[v] = updater[v]
  BY <1>1, <1>3, UpdateMoves
<1>5. /\ path' \in [Paths -> Updating!Inodes \cup {Updating!Absent}]
      /\ path'[name] = Updating!Absent
      /\ path'["exe"] = IF dest = "exe" THEN path["exe_new"] ELSE path["exe"]
      /\ path'["exe"] \in Updating!Inodes
      /\ \A n \in {"exe_new", "stray_new"} : n # name => path'[n] = path[n]
  BY <1>2, UpdateTyped DEF Paths
<1>6. blob' \in [Updating!Inodes -> Binaries]
  BY <1>1, UpdateReclaims
<1>7. UpdateType'
  <2>1. \A v \in Request :
          updater'[v].pc \in {"idle", "check", "download", "sums", "create", "open"} =>
            updater'[v].file = Updating!Absent
    BY <1>3, <1>4 DEF UpdateInv, UpdateType
  <2>. QED
    BY <1>1, <1>4, <1>5, <1>6, <2>1, UpdateTypes, UpdateTyped
<1>8. CASE raced
  BY <1>1, <1>7, <1>8 DEF UpdateInv
<1>9. CASE ~raced
  <2>1. /\ PathsApart /\ \A v \in Request : UpdateStage(v)
        /\ blob[path["exe"]] \in Updating!Versions /\ service \in Updating!Versions
    BY <1>9 DEF UpdateInv
  <2>2. blob'[path'["exe"]] = blob[path'["exe"]]
    BY <1>1, <1>5, InUse, UpdateReclaims
  <2>3. dest = "exe" => /\ SwapsExe(u) /\ blob[path["exe_new"]] = updater[u].bytes
                        /\ updater[u].bytes \in Updating!Versions
                        /\ updater[u].bytes > blob[path["exe"]]
    BY <1>1, <1>2, <2>1 DEF UpdateStage, HoldsExe, SwapsExe
  <2>4. /\ blob'[path'["exe"]] \in Updating!Versions
        /\ blob'[path'["exe"]] >= blob[path["exe"]]
    BY <1>5, <2>1, <2>2, <2>3, UpdateNumbers
  <2>5. PathsApart'
    BY <1>2, <1>5, <2>1, UpdateTyped, UpdateNumbers DEF PathsApart
  <2>6. /\ \A v \in Request : Swaps(v)' => v # u /\ Swaps(v)
        /\ \A v \in Request : HoldsExe(v)' => v # u /\ HoldsExe(v)
    BY <1>3, <1>4 DEF Swaps, HoldsExe, OpensExe, SwapsExe
  <2>7. \A v \in Request : /\ updater'[v].pc # "idle" <=> updater[v].pc # "idle"
                           /\ updater'[v].inode = updater[v].inode
    BY <1>1, <1>3, <1>4
  <2>8. ASSUME NEW v \in Request, updater[v].pc # "idle"
        PROVE  /\ updater[v].inode \in Updating!Inodes
               /\ blob'[updater[v].inode] = blob[updater[v].inode]
               /\ updater[v].inode # path'["exe_new"] /\ updater[v].inode # path'["stray_new"]
    BY <1>1, <1>5, <2>1, <2>7, <2>8, InUse, UpdateReclaims, UpdateNumbers DEF UpdateStage
  <2>9. UpdateStage(u)'
    BY <1>1, <1>3, <1>4, <2>1, <2>6, <2>8 DEF UpdateStage, HoldsExe, OpensExe, SwapsExe, SwapsStray
  <2>10. ASSUME NEW v \in Request, v # u PROVE UpdateStage(v)'
    <3>1. updater'[v] = updater[v] /\ UpdateStage(v)
      BY <1>4, <2>1, <2>10
    <3>2. HoldsExe(v) => dest = "stray" /\ name = "stray_new"
      BY <1>1, <1>2, <1>9, <2>10 DEF UpdateInv, HoldsExe, SwapsExe
    <3>3. updater[v].file \in Updating!Inodes => blob'[updater[v].file] = blob[updater[v].file]
      BY <1>1, <1>5, <3>1, InUse, UpdateReclaims
    <3>4. SwapsExe(v) => /\ path'["exe_new"] = path["exe_new"] /\ path'["exe"] = path["exe"]
                         /\ updater[v].file \in Updating!Inodes
      BY <1>5, <3>1, <3>2, UpdateTyped DEF UpdateStage, HoldsExe
    <3>7. HoldsExe(v) => path'["exe"] = path["exe"]
      BY <1>5, <3>2
    <3>5. SwapsStray(v) => updater[v].file # path'["exe"] /\ updater[v].file # path'["exe_new"]
      BY <1>2, <1>5, <3>1, UpdateNumbers DEF UpdateStage
    <3>6. SwapsStray(v) => \A w \in Request : updater'[w].pc # "idle" => updater[v].file # updater'[w].inode
      BY <2>7, <3>1 DEF UpdateStage
    <3>. QED
      BY <1>1, <2>8, <3>1, <3>3, <3>4, <3>5, <3>6, <3>7 DEF UpdateStage, Swaps, HoldsExe, OpensExe, SwapsExe, SwapsStray
  <2>11. \A v, w \in Request : HoldsExe(v)' /\ HoldsExe(w)' => v = w
    BY <1>9, <2>6 DEF UpdateInv
  <2>. QED
    BY <1>1, <1>7, <2>1, <2>4, <2>5, <2>9, <2>10, <2>11 DEF UpdateInv
<1>. QED
  BY <1>8, <1>9

LEMMA UpdateSteps ==
  UpdateInv /\ [Updating!Next]_(Updating!vars) => UpdateInv'
<1>. SUFFICES ASSUME UpdateInv, [Updating!Next]_(Updating!vars)
              PROVE  UpdateInv'
  OBVIOUS
<1>1. CASE UNCHANGED Updating!vars
  BY <1>1 DEF Updating!vars, UpdateInv, UpdateType, Updating!TypeOK, UpdateStage, PathsApart,
     Swaps, HoldsExe, OpensExe, SwapsExe, SwapsStray
<1>2. ASSUME NEW u \in Request, Updating!Restart(u) \/ Updating!Kill(u) PROVE UpdateInv'
  BY <1>2, UpdateEnds DEF Updating!Restart, Updating!Kill
<1>. QED
  BY <1>1, <1>2, UpdateStarts, UpdateFetches, UpdateQuiet, UpdateResolves, UpdateCreates,
     UpdateWrites, SwapEnds, SwapRenames DEF Updating!Next

LEMMA UpdateUpgrades ==
  UpdateInv /\ [Updating!Next]_(Updating!vars) => [Updating!Upgrades]_updateVars
<1>. SUFFICES ASSUME UpdateInv, [Updating!Next]_(Updating!vars)
              PROVE  [Updating!Upgrades]_updateVars
  OBVIOUS
<1>1. raced \/ blob[path["exe"]] \in Updating!Versions
  BY DEF UpdateInv
<1>2. ASSUME raced' \/ BinaryStays, raced => raced' PROVE Updating!Upgrades
  BY <1>1, <1>2, UpdateNumbers DEF BinaryStays, Updating!Upgrades
<1>3. CASE UNCHANGED Updating!vars
  BY <1>3 DEF Updating!vars, updateVars
<1>4. CASE Updating!Publish \/ Updating!ServiceRestarts
  BY <1>2, <1>4 DEF Updating!Publish, Updating!ServiceRestarts, BinaryStays
<1>5. ASSUME NEW u \in Request,
             \/ Updating!Start(u) \/ Updating!Check(u) \/ Updating!Download(u)
             \/ Updating!Verify(u) \/ Updating!Restart(u) \/ Updating!Kill(u)
             \/ Updating!SwapFails(u)
      PROVE  Updating!Upgrades
  <2>1. CASE Updating!Start(u)
    BY <1>2, <2>1 DEF Updating!Start, BinaryStays
  <2>2. CASE ~Updating!Start(u)
    <3>1. Updating!Reclaim /\ raced' = raced
      BY <1>5, <2>2 DEF Updating!Check, Updating!Download, Updating!Verify, Updating!Restart,
         Updating!Kill, Updating!SwapFails
    <3>2. /\ path'["exe"] = path["exe"]
          /\ path' \in [Paths -> Updating!Inodes \cup {Updating!Absent}]
      BY <1>5, <2>2, UpdateTyped DEF Updating!Check, Updating!Download, Updating!Verify,
         Updating!Restart, Updating!Kill, Updating!SwapFails, Updating!NewOf, Paths
    <3>. QED
      BY <1>2, <3>1, <3>2, ReclaimKeepsBinary
  <2>. QED
    BY <2>1, <2>2
<1>6. ASSUME NEW u \in Request, Updating!Create(u) \/ Updating!Write(u)
      PROVE  Updating!Upgrades
  <2>1. raced => raced'
    BY <1>6 DEF Updating!Create, Updating!Write
  <2>. QED
    BY <1>2, <1>6, <2>1, UpdateCreates, UpdateWrites
<1>7. ASSUME NEW u \in Request, Updating!Rename(u) PROVE Updating!Upgrades
  BY <1>7, SwapRenames DEF Updating!Upgrades
<1>8. ASSUME NEW u \in Request, Updating!Resolve(u) PROVE Updating!Upgrades
  BY <1>2, <1>8 DEF Updating!Resolve, BinaryStays
<1>. QED
  BY <1>3, <1>4, <1>5, <1>6, <1>7, <1>8 DEF Updating!Next

\* rusno on disk is a whole release that was published, and so is what a restart
\* makes the service run, although the release may change between the fetches
\* and an updater may be killed in any step, for any number of updaters of which
\* no two swap rusno at the same time (update.rs:124-164, update.rs:194).
THEOREM UpdatesAreWhole == OperationsSpec => []BinaryIsWhole
<1>1. UpdateInv => BinaryIsWhole
  BY DEF UpdateInv, BinaryIsWhole, Updating!BinaryIsWhole
<1>. QED
  BY UpdateRuns, UpdateInit, UpdateSteps, <1>1, PTL DEF Updating!Spec

\* No step puts an older version in the place of rusno, whoever else updates and
\* however far the installed version is ahead of the releases (update.rs:73,
\* update.rs:152), unless two updaters swap rusno at the same time: from the
\* current_exe of the one to its rename lies the current_exe of the other.
THEOREM UpdatesGoForward == OperationsSpec => NoDowngrade
BY UpdateRuns, UpdateInit, UpdateSteps, UpdateUpgrades, PTL DEF Updating!Spec, NoDowngrade

--------------------------------------------------------------------------------
(* The pages of the deployments                                                *)

\* What the pages so far have shown of the rows there were at the start: all
\* that stand before an offset.
Covered(n) == \A i \in DOMAIN rows : i <= n /\ rows[i] \in walk.start => rows[i] \in walk.seen
PageEnd == Pages!Offset(walk.page) + PerPage

WalkType ==
  [pc : {"idle", "list", "count", "page"}, page : 1..(MaxDeploy + 1), total : 0..MaxDeploy,
   seen : SUBSET (1..MaxDeploy), start : SUBSET (1..MaxDeploy)]

PagesType ==
  /\ rows \in Seq(1..MaxDeploy) /\ \A i \in DOMAIN rows : rows[i] <= inserted
  /\ Len(rows) <= inserted /\ inserted \in 0..MaxDeploy
  /\ walk \in WalkType /\ gaps \in BOOLEAN
  /\ \A d \in walk.start : d <= inserted

PagesInv ==
  /\ PagesType
  /\ gaps \/ /\ walk.start \subseteq Pages!RowsIn(rows)
             /\ walk.pc = "list" => Covered(Pages!Offset(walk.page))
             /\ walk.pc \in {"count", "page"} => Covered(PageEnd)
             /\ walk.pc = "page" /\ walk.total <= PageEnd => walk.start \subseteq walk.seen

LEMMA PagesRun == OperationsSpec => Pages!Spec
<1>1. StartInit => Pages!Init
  BY DEF StartInit
<1>2. [AnyStep]_allVars => [Pages!Next]_(Pages!vars)
  BY DEF AnyStep, allVars, RegistryStep, EditorStep, UpdateStep, UnitStep, KeyStep, TuiStep,
     PagesStep, pagesVars, Pages!vars, Pages!table
<1>. QED
  BY <1>1, <1>2, PTL DEF OperationsSpec, Pages!Spec

LEMMA PageBounds == MaxDeploy \in Nat /\ PerPage \in Nat /\ PerPage > 0
BY CountersAssumption

LEMMA CountsPages == \A S : Pages!Cardinality(S) = Cardinality(S)
BY DEF Pages!Cardinality, Cardinality

\* An insertion shifts what is behind it by one.
InsertedAt(s, i, x) == SubSeq(s, 1, i) \o <<x>> \o SubSeq(s, i + 1, Len(s))

LEMMA Inserting ==
  ASSUME NEW T, NEW s \in Seq(T), NEW i \in 0..Len(s), NEW x \in T
  PROVE  /\ InsertedAt(s, i, x) \in Seq(T) /\ Len(InsertedAt(s, i, x)) = Len(s) + 1
         /\ \A j \in 1..i : InsertedAt(s, i, x)[j] = s[j]
         /\ InsertedAt(s, i, x)[i + 1] = x
         /\ \A j \in (i + 2)..(Len(s) + 1) : InsertedAt(s, i, x)[j] = s[j - 1]
<1>. DEFINE a == SubSeq(s, 1, i)
            b == SubSeq(s, i + 1, Len(s))
            r == InsertedAt(s, i, x)
<1>1. i \in Nat /\ Len(s) \in Nat /\ i <= Len(s)
  OBVIOUS
<1>2. a \in Seq(T) /\ Len(a) = i /\ \A j \in 1..i : a[j] = s[j]
  BY <1>1
<1>3. b \in Seq(T) /\ Len(b) = Len(s) - i /\ \A j \in 1..(Len(s) - i) : b[j] = s[i + j]
  BY <1>1
<1>4. r = a \o <<x>> \o b
  BY DEF InsertedAt
<1>. HIDE DEF a, b, r
<1>5. /\ a \o <<x>> \in Seq(T) /\ Len(a \o <<x>>) = i + 1
      /\ \A j \in 1..i : (a \o <<x>>)[j] = a[j]
      /\ (a \o <<x>>)[i + 1] = x
  BY <1>1, <1>2
<1>. DEFINE c == a \o <<x>>
<1>. HIDE DEF c
<1>6. c \in Seq(T) /\ Len(c) = i + 1
  BY <1>5 DEF c
<1>7. r = c \o b /\ Len(c) = i + 1 /\ Len(b) = Len(s) - i
  BY <1>3, <1>4, <1>6 DEF c
<1>8. /\ r \in Seq(T) /\ Len(r) = Len(c) + Len(b)
      /\ \A j \in 1..Len(c) + Len(b) : r[j] = IF j <= Len(c) THEN c[j] ELSE b[j - Len(c)]
  <2>1. c \in Seq(T) /\ b \in Seq(T)
    BY <1>3, <1>6
  <2>2. /\ c \o b \in Seq(T) /\ Len(c \o b) = Len(c) + Len(b)
        /\ \A j \in 1..Len(c) + Len(b) : (c \o b)[j] = IF j <= Len(c) THEN c[j] ELSE b[j - Len(c)]
    BY <2>1, ConcatProperties
  <2>. QED
    BY <1>7, <2>2
<1>9. /\ r \in Seq(T) /\ Len(r) = Len(s) + 1
      /\ \A j \in 1..(i + 1) : r[j] = c[j]
      /\ \A j \in (i + 2)..(Len(s) + 1) : r[j] = b[j - (i + 1)]
  <2>1. PICK m \in Nat : m = Len(s) /\ i <= m
    BY <1>1
  <2>2. Len(c) = i + 1 /\ Len(b) = m - i /\ Len(c) + Len(b) = m + 1
    BY <1>1, <1>7, <2>1
  <2>3. \A j \in 1..(m + 1) : r[j] = IF j <= i + 1 THEN c[j] ELSE b[j - (i + 1)]
    BY <1>8, <2>2
  <2>. HIDE DEF c
  <2>4. \A j \in 1..(i + 1) : j \in 1..(m + 1) /\ j <= i + 1
    BY <1>1, <2>1
  <2>5. \A j \in (i + 2)..(m + 1) : j \in 1..(m + 1) /\ ~(j <= i + 1)
    BY <1>1, <2>1
  <2>. QED
    BY <1>8, <2>1, <2>2, <2>3, <2>4, <2>5
<1>10. /\ \A j \in 1..i : r[j] = s[j]
       /\ r[i + 1] = x
  <2>1. \A j \in 1..i : c[j] = s[j]
    BY <1>2, <1>5 DEF c
  <2>2. c[i + 1] = x /\ i + 1 \in 1..(i + 1) /\ \A j \in 1..i : j \in 1..(i + 1)
    BY <1>1, <1>5 DEF c
  <2>. QED
    BY <1>9, <2>1, <2>2
<1>11. ASSUME NEW j \in (i + 2)..(Len(s) + 1) PROVE r[j] = s[j - 1]
  <2>1. r[j] = b[j - (i + 1)]
    BY <1>9
  <2>2. j - (i + 1) \in 1..(Len(s) - i) /\ i + (j - (i + 1)) = j - 1
    BY <1>1
  <2>3. b[j - (i + 1)] = s[i + (j - (i + 1))]
    BY <1>3, <2>2
  <2>. QED
    BY <2>1, <2>2, <2>3
<1>. QED
  BY <1>9, <1>10, <1>11 DEF r

\* The i-th of a finite set of numbers is one of them: the elements have
\* different ranks, as many as there are places.
LEMMA NthIsThere ==
  ASSUME NEW n \in Nat, NEW kept \in SUBSET (1..n), NEW i \in 1..Cardinality(kept)
  PROVE  \E j \in kept : Cardinality({k \in kept : k <= j}) = i
<1>. DEFINE upto(j) == {k \in kept : k <= j}
            m == Cardinality(kept)
            rank == [j \in kept |-> Cardinality(upto(j))]
<1>1. IsFiniteSet(kept) /\ m \in Nat
  <2>1. IsFiniteSet(1..n)
    BY FS_Interval
  <2>. QED
    BY <2>1, FS_Subset, FS_CardinalityType
<1>2. ASSUME NEW j \in kept
      PROVE  /\ IsFiniteSet(upto(j)) /\ Cardinality(upto(j)) \in 1..m
  <2>1. upto(j) \subseteq kept /\ j \in upto(j)
    OBVIOUS
  <2>2. IsFiniteSet(upto(j)) /\ Cardinality(upto(j)) <= m
    BY <1>1, <2>1, FS_Subset
  <2>3. Cardinality(upto(j)) \in Nat /\ Cardinality(upto(j)) # 0
    BY <2>1, <2>2, FS_CardinalityType, FS_EmptySet
  <2>. QED
    BY <1>1, <2>2, <2>3
<1>3. ASSUME NEW j \in kept, NEW l \in kept, rank[j] = rank[l], j < l PROVE FALSE
  <2>1. upto(j) \subseteq upto(l) /\ l \in upto(l) /\ l \notin upto(j)
    <3>1. /\ j \in Int /\ l \in Int /\ j < l /\ l <= l /\ ~(l <= j)
          /\ \A k \in kept : k \in Int /\ (k <= j => k <= l)
      BY <1>3
    <3>. QED
      BY <3>1
  <2>2. upto(j) = upto(l)
    BY <1>2, <1>3, <2>1, FS_Subset
  <2>. QED
    BY <2>1, <2>2
<1>4. \A j \in kept, l \in kept : rank[j] = rank[l] => j = l
  <2>. SUFFICES ASSUME NEW j \in kept, NEW l \in kept, rank[j] = rank[l], j # l PROVE FALSE
    OBVIOUS
  <2>1. j < l \/ l < j
    OBVIOUS
  <2>. QED
    BY <1>3, <2>1
<1>5. rank \in [kept -> 1..m]
  BY <1>2
<1>6. rank \in Injection(kept, 1..m)
  BY <1>4, <1>5 DEF Injection, IsInjective
<1>7. IsFiniteSet(1..m) /\ Cardinality(1..m) = Cardinality(kept)
  <2>1. 1 \in Int /\ m \in Int /\ (1 > m => m = 0) /\ m - 1 + 1 = m
    BY <1>1
  <2>. QED
    BY <2>1, FS_Interval
<1>8. rank \in Surjection(kept, 1..m)
  BY <1>6, <1>7, FS_Injection
<1>9. PICK j \in kept : rank[j] = i
  BY <1>8 DEF Surjection
<1>. QED
  BY <1>9

LEMMA PagesTyped ==
  ASSUME PagesInv
  PROVE  /\ rows \in Seq(1..MaxDeploy) /\ Len(rows) \in Nat /\ DOMAIN rows = 1..Len(rows)
         /\ \A i \in 1..Len(rows) : rows[i] \in 1..MaxDeploy /\ rows[i] <= inserted
         /\ inserted \in Nat /\ inserted <= MaxDeploy /\ Len(rows) <= inserted
         /\ walk \in WalkType /\ gaps \in BOOLEAN
         /\ \A d \in walk.start : d \in Nat /\ d <= inserted
<1>1. rows \in Seq(1..MaxDeploy) /\ Len(rows) \in Nat /\ DOMAIN rows = 1..Len(rows)
  BY DEF PagesInv, PagesType
<1>2. \A i \in 1..Len(rows) : rows[i] \in 1..MaxDeploy /\ rows[i] <= inserted
  BY <1>1, ElementOfSeq DEF PagesInv, PagesType
<1>3. inserted \in Nat /\ inserted <= MaxDeploy /\ Len(rows) <= inserted
  BY PageBounds DEF PagesInv, PagesType
<1>4. walk \in WalkType /\ gaps \in BOOLEAN /\ \A d \in walk.start : d \in Nat /\ d <= inserted
  BY DEF PagesInv, PagesType, WalkType
<1>. QED
  BY <1>1, <1>2, <1>3, <1>4

LEMMA IdleWalk ==
  /\ Pages!Idle \in WalkType /\ Pages!Idle.pc = "idle" /\ Pages!Idle.page = 1
  /\ Pages!Idle.seen = {} /\ Pages!Idle.start = {}
<1>1. 1 \in 1..(MaxDeploy + 1) /\ 0 \in 0..MaxDeploy
  BY PageBounds
<1>. QED
  BY <1>1 DEF Pages!Idle, WalkType

LEMMA PagesInit == Pages!Init => PagesInv
<1>. SUFFICES ASSUME Pages!Init PROVE PagesInv
  OBVIOUS
<1>1. rows \in Seq(1..MaxDeploy) /\ Len(rows) = 0 /\ DOMAIN rows = {}
  BY DEF Pages!Init
<1>2. inserted \in 0..MaxDeploy /\ inserted = 0
  BY PageBounds DEF Pages!Init
<1>3. walk = Pages!Idle /\ gaps \in BOOLEAN
  BY DEF Pages!Init
<1>4. PagesType
  BY <1>1, <1>2, <1>3, IdleWalk DEF PagesType
<1>. QED
  BY <1>3, <1>4, IdleWalk DEF PagesInv

LEMMA OffsetType ==
  ASSUME NEW page \in 1..(MaxDeploy + 1)
  PROVE  /\ Pages!Offset(page) \in Nat
         /\ Pages!Offset(page) + PerPage = page * PerPage
         /\ Pages!Offset(page + 1) = page * PerPage
         /\ Pages!Offset(1) = 0
<1>1. page \in Nat /\ page >= 1 /\ PerPage \in Nat
  BY PageBounds
<1>2. \A p \in Nat, q \in Nat : p >= 1 => /\ (p - 1) * q \in Nat /\ (p - 1) * q + q = p * q
                                          /\ (p + 1 - 1) * q = p * q /\ (1 - 1) * q = 0
  OBVIOUS
<1>. QED
  BY <1>1, <1>2 DEF Pages!Offset

\* A page without an older one reaches to the end of what was counted.
LEMMA LastPage ==
  ASSUME NEW total \in 0..MaxDeploy, NEW page \in 1..(MaxDeploy + 1)
  PROVE  /\ Pages!TotalPages(total) \in Nat /\ Pages!TotalPages(total) <= MaxDeploy
         /\ ~(page < Pages!TotalPages(total)) => total <= page * PerPage
<1>. DEFINE q == (total + PerPage - 1) \div PerPage
<1>1. total \in Nat /\ page \in Nat /\ PerPage \in Nat /\ PerPage > 0 /\ MaxDeploy \in Nat
      /\ total <= MaxDeploy
  BY PageBounds
<1>2. q \in Nat /\ PerPage * q <= total + PerPage - 1 /\ total + PerPage - 1 < PerPage * (q + 1)
  <2>1. \A a \in Nat, b \in Nat : b > 0 =>
          /\ (a + b - 1) \div b \in Nat
          /\ b * ((a + b - 1) \div b) <= a + b - 1
          /\ a + b - 1 < b * (((a + b - 1) \div b) + 1)
    OBVIOUS
  <2>. QED
    BY <1>1, <2>1
<1>. HIDE DEF q
<1>3. q <= total
  <2>. SUFFICES ASSUME q > total PROVE FALSE
    BY <1>1, <1>2
  <2>1. PerPage * q >= PerPage * (total + 1)
    <3>1. \A a \in Nat, b \in Nat, c \in Nat : a >= b => c * a >= c * b
      OBVIOUS
    <3>2. total + 1 \in Nat /\ q >= total + 1
      BY <1>1, <1>2
    <3>. QED
      BY <1>1, <1>2, <3>1, <3>2
  <2>2. PerPage * (total + 1) >= total + PerPage
    <3>1. \A a \in Nat, b \in Nat : b > 0 => b * (a + 1) >= a + b
      OBVIOUS
    <3>. QED
      BY <1>1, <3>1
  <2>3. PerPage * q \in Nat /\ PerPage * (total + 1) \in Nat
    BY <1>1, <1>2
  <2>. QED
    BY <1>1, <1>2, <2>1, <2>2, <2>3
<1>4. ASSUME q <= page PROVE total <= page * PerPage
  <2>1. PerPage * q <= page * PerPage
    <3>1. \A a \in Nat, b \in Nat, c \in Nat : a <= b => c * a <= b * c
      OBVIOUS
    <3>. QED
      BY <1>1, <1>2, <1>4, <3>1
  <2>2. PerPage * (q + 1) = PerPage * q + PerPage
    BY <1>1, <1>2
  <2>3. PerPage * q \in Nat /\ page * PerPage \in Nat
    BY <1>1, <1>2
  <2>. QED
    BY <1>1, <1>2, <2>1, <2>2, <2>3
<1>5. Pages!TotalPages(total) = q
  BY DEF Pages!TotalPages, q
<1>. QED
  BY <1>1, <1>2, <1>3, <1>4, <1>5

\* A new deploy is none of those of the walk, and pushes the others behind the
\* offset only.
LEMMA PagesQueue ==
  ASSUME PagesInv, Pages!Queue
  PROVE  PagesInv'
<1>. DEFINE x == inserted + 1
            n == Len(rows)
<1>1. /\ inserted < MaxDeploy /\ inserted' = x /\ UNCHANGED <<walk, gaps>>
      /\ x \in 1..MaxDeploy /\ x \in 0..MaxDeploy
  BY PagesTyped, PageBounds DEF Pages!Queue
<1>2. PICK i \in 0..n : rows' = SubSeq(rows, 1, i) \o <<x>> \o SubSeq(rows, i + 1, n)
  BY <1>1 DEF Pages!Queue
<1>3. n \in Nat /\ rows \in Seq(1..MaxDeploy) /\ DOMAIN rows = 1..n
  BY PagesTyped
<1>4. /\ rows' \in Seq(1..MaxDeploy) /\ Len(rows') = n + 1
      /\ \A j \in 1..i : rows'[j] = rows[j]
      /\ rows'[i + 1] = x
      /\ \A j \in (i + 2)..(n + 1) : rows'[j] = rows[j - 1]
  <2>. DEFINE T == 1..MaxDeploy
  <2>1. PICK s : s = rows /\ s \in Seq(T)
    BY <1>3
  <2>2. PICK y : y = x /\ y \in T
    BY <1>1
  <2>3. rows' = InsertedAt(s, i, y)
    BY <1>2, <2>1, <2>2 DEF InsertedAt
  <2>4. i \in 0..Len(s) /\ n = Len(s)
    BY <2>1
  <2>. HIDE DEF x, n, T
  <2>5. s \in Seq(T) /\ y \in T /\ i \in 0..Len(s)
    BY <2>1, <2>2, <2>4
  <2>6. /\ InsertedAt(s, i, y) \in Seq(T) /\ Len(InsertedAt(s, i, y)) = Len(s) + 1
    BY <2>5, Inserting
  <2>7. \A j \in 1..i : InsertedAt(s, i, y)[j] = s[j]
    BY <2>5, Inserting
  <2>8. InsertedAt(s, i, y)[i + 1] = y
    BY <2>5, Inserting
  <2>9. \A j \in (i + 2)..(Len(s) + 1) : InsertedAt(s, i, y)[j] = s[j - 1]
    BY <2>5, Inserting
  <2>. QED
    BY <2>1, <2>2, <2>3, <2>4, <2>6, <2>7, <2>8, <2>9 DEF T
<1>5. DOMAIN rows' = 1..(n + 1)
  BY <1>4
<1>6. ASSUME NEW j \in 1..(n + 1)
      PROVE  \/ rows'[j] = x
             \/ \E k \in 1..n : k <= j /\ rows'[j] = rows[k]
  <2>1. i \in Nat /\ i <= n /\ j \in Nat
    BY <1>3
  <2>2. CASE j <= i
    <3>1. j \in 1..i /\ j \in 1..n /\ j <= j
      BY <1>3, <2>1, <2>2
    <3>. QED
      BY <1>4, <3>1
  <2>3. CASE j = i + 1
    BY <1>4, <2>3
  <2>4. CASE j > i + 1
    <3>1. j \in (i + 2)..(n + 1) /\ j - 1 \in 1..n /\ j - 1 <= j
      BY <1>3, <2>1, <2>4
    <3>. QED
      BY <1>4, <3>1
  <2>. QED
    BY <2>1, <2>2, <2>3, <2>4
<1>7. ASSUME NEW k \in 1..n PROVE \E j \in 1..(n + 1) : rows'[j] = rows[k]
  <2>1. i \in Nat /\ i <= n /\ k \in Nat
    BY <1>3
  <2>2. CASE k <= i
    <3>1. k \in 1..i /\ k \in 1..(n + 1)
      BY <1>3, <2>1, <2>2
    <3>. QED
      BY <1>4, <3>1
  <2>3. CASE k > i
    <3>1. k + 1 \in (i + 2)..(n + 1) /\ k + 1 \in 1..(n + 1) /\ (k + 1) - 1 = k
      BY <1>3, <2>1, <2>3
    <3>2. rows'[k + 1] = rows[(k + 1) - 1]
      BY <1>4, <3>1
    <3>. QED
      BY <3>1, <3>2
  <2>. QED
    BY <2>1, <2>2, <2>3
<1>8. PagesType'
  <2>1. \A j \in 1..(n + 1) : rows'[j] <= x
    BY <1>1, <1>6, PagesTyped
  <2>2. Len(rows') <= x
    BY <1>4, PagesTyped
  <2>3. \A d \in walk.start : d <= x
    BY PagesTyped
  <2>. HIDE DEF x
  <2>. QED
    BY <1>1, <1>4, <1>5, <2>1, <2>2, <2>3, PagesTyped DEF PagesType
<1>9. x \notin walk.start
  BY PagesTyped
<1>10. ASSUME NEW m \in Nat, Covered(m) PROVE Covered(m)'
  <2>. SUFFICES ASSUME NEW j \in 1..(n + 1), j <= m, rows'[j] \in walk.start
                PROVE  rows'[j] \in walk.seen
    BY <1>1, <1>5 DEF Covered
  <2>1. PICK k \in 1..n : k <= j /\ rows'[j] = rows[k]
    BY <1>6, <1>9
  <2>2. k <= m /\ k \in DOMAIN rows
    BY <1>3, <2>1
  <2>. QED
    BY <1>10, <2>1, <2>2 DEF Covered
<1>11. Pages!RowsIn(rows) \subseteq Pages!RowsIn(rows)'
  BY <1>3, <1>5, <1>7 DEF Pages!RowsIn
<1>12. Pages!Offset(walk.page) \in Nat /\ PageEnd \in Nat /\ PageEnd' = PageEnd
  <2>1. walk.page \in 1..(MaxDeploy + 1)
    BY PagesTyped DEF WalkType
  <2>2. Pages!Offset(walk.page) \in Nat
    BY <2>1, OffsetType
  <2>3. PageEnd \in Nat
    BY <2>2, PageBounds DEF PageEnd
  <2>4. PageEnd' = PageEnd
    BY <1>1 DEF PageEnd, Pages!Offset
  <2>. QED
    BY <2>2, <2>3, <2>4
<1>13. Covered(Pages!Offset(walk.page)) => Covered(Pages!Offset(walk.page))'
  <2>1. \A m \in Nat : (\A j \in DOMAIN rows' : j <= m /\ rows'[j] \in walk'.start => rows'[j] \in walk'.seen)
                       \/ ~Covered(m)
    BY <1>10 DEF Covered
  <2>. QED
    BY <1>1, <1>12, <2>1 DEF Covered, Pages!Offset
<1>14. Covered(PageEnd) => Covered(PageEnd)'
  <2>1. \A m \in Nat : (\A j \in DOMAIN rows' : j <= m /\ rows'[j] \in walk'.start => rows'[j] \in walk'.seen)
                       \/ ~Covered(m)
    BY <1>10 DEF Covered
  <2>. QED
    BY <1>1, <1>12, <2>1 DEF Covered
<1>. QED
  BY <1>1, <1>8, <1>11, <1>12, <1>13, <1>14 DEF PagesInv

LEMMA PagesRemove ==
  ASSUME PagesInv, Pages!RemoveProject
  PROVE  PagesInv'
<1>. DEFINE n == Len(rows)
<1>1. n \in Nat /\ DOMAIN rows = 1..n
  BY PagesTyped
<1>2. PICK kept \in SUBSET DOMAIN rows :
        rows' = [i \in 1..Pages!Cardinality(kept) |->
                   rows[CHOOSE j \in kept : Pages!Cardinality({k \in kept : k <= j}) = i]]
  BY DEF Pages!RemoveProject
<1>3. Cardinality(kept) \in Nat /\ Cardinality(kept) <= n
  <2>1. IsFiniteSet(1..n)
    BY <1>1, FS_Interval
  <2>2. Cardinality(1..n) = n
    <3>1. 1 \in Int /\ n \in Int /\ (1 > n => n = 0) /\ n - 1 + 1 = n
      BY <1>1
    <3>. QED
      BY <3>1, FS_Interval
  <2>. QED
    BY <2>1, <2>2, FS_Subset, FS_CardinalityType
<1>. DEFINE m == Cardinality(kept)
<1>4. ASSUME NEW i \in 1..m
      PROVE  \E j \in 1..n : rows'[i] = rows[j]
  <2>1. \E j \in kept : Cardinality({k \in kept : k <= j}) = i
    BY <1>1, NthIsThere
  <2>2. \E j \in kept : Pages!Cardinality({k \in kept : k <= j}) = i
    BY <2>1, CountsPages
  <2>3. (CHOOSE j \in kept : Pages!Cardinality({k \in kept : k <= j}) = i) \in kept
    BY <2>2
  <2>4. i \in 1..Pages!Cardinality(kept)
    BY CountsPages
  <2>5. rows'[i] = rows[CHOOSE j \in kept : Pages!Cardinality({k \in kept : k <= j}) = i]
    BY <1>2, <2>4
  <2>. QED
    BY <1>1, <2>3, <2>5
<1>5. /\ DOMAIN rows' = 1..m /\ rows' = [i \in 1..m |-> rows'[i]]
      /\ \A i \in 1..m : rows'[i] \in 1..MaxDeploy /\ rows'[i] <= inserted
  <2>1. 1..Pages!Cardinality(kept) = 1..m
    BY CountsPages
  <2>2. DOMAIN rows' = 1..m /\ rows' = [i \in 1..m |-> rows'[i]]
    BY <1>2, <2>1
  <2>. QED
    BY <1>4, <2>2, PagesTyped
<1>. HIDE DEF m
<1>7. rows' \in Seq(1..MaxDeploy) /\ Len(rows') = m
  <2>1. m \in Nat
    BY <1>3 DEF m
  <2>2. PICK f \in [1..m -> 1..MaxDeploy] : f = rows'
    BY <1>5
  <2>3. f \in Seq(1..MaxDeploy)
    BY <2>1, SeqDef
  <2>4. Len(f) = m
    BY <2>1, <2>2, <2>3
  <2>. QED
    BY <2>2, <2>3, <2>4
<1>8. gaps' = TRUE /\ UNCHANGED <<inserted, walk>>
  BY DEF Pages!RemoveProject
<1>9. Len(rows') <= inserted
  BY <1>1, <1>3, <1>7, PagesTyped DEF m
<1>10. PagesType'
  BY <1>5, <1>7, <1>8, <1>9 DEF PagesInv, PagesType
<1>. QED
  BY <1>8, <1>10 DEF PagesInv

LEMMA PagesOpen ==
  ASSUME PagesInv, Pages!Open
  PROVE  PagesInv'
<1>. DEFINE new == [Pages!Idle EXCEPT !.pc = "list", !.start = Pages!RowsIn(rows)]
<1>1. /\ walk' = new /\ gaps' = FALSE /\ UNCHANGED <<rows, inserted>>
  BY DEF Pages!Open, Pages!table
<1>2. /\ Pages!RowsIn(rows) \in SUBSET (1..MaxDeploy)
      /\ \A d \in Pages!RowsIn(rows) : d <= inserted
  BY PagesTyped DEF Pages!RowsIn
<1>3. /\ new \in WalkType /\ new.pc = "list" /\ new.page = 1 /\ new.start = Pages!RowsIn(rows)
  BY <1>2, IdleWalk DEF WalkType
<1>. HIDE DEF new
<1>4. gaps' \in BOOLEAN
  BY <1>1
<1>5. PagesType'
  BY <1>1, <1>2, <1>3, <1>4 DEF PagesInv, PagesType
<1>6. Covered(Pages!Offset(walk.page))'
  <2>1. \A i \in DOMAIN rows : ~(i <= 0)
    BY PagesTyped
  <2>2. Pages!Offset(walk.page)' = 0
    BY <1>1, <1>3, OffsetType, PageBounds DEF Pages!Offset
  <2>. QED
    BY <1>1, <2>1, <2>2 DEF Covered
<1>7. (walk.start \subseteq Pages!RowsIn(rows))'
  BY <1>1, <1>3 DEF Pages!RowsIn
<1>. QED
  BY <1>1, <1>3, <1>5, <1>6, <1>7 DEF PagesInv

\* What a page shows is what stands between its offset and its end.
LEMMA PagesList ==
  ASSUME PagesInv, Pages!List
  PROVE  PagesInv'
<1>. DEFINE shown == walk.seen \cup Pages!PageRows(walk.page)
<1>1. walk.pc = "list" /\ UNCHANGED <<rows, inserted>> /\ walk \in WalkType
  BY PagesTyped DEF Pages!List, Pages!table
<1>2. Pages!PageRows(walk.page) \in SUBSET (1..MaxDeploy)
  BY PagesTyped DEF Pages!PageRows
<1>3. /\ walk' \in WalkType /\ walk'.pc = "count" /\ walk'.start = walk.start
      /\ walk'.page = walk.page
  BY <1>1, <1>2 DEF Pages!List, WalkType
<1>4. gaps' = TRUE \/ (gaps' = gaps /\ walk'.seen = shown)
  BY <1>1 DEF Pages!List, WalkType
<1>5. gaps' \in BOOLEAN
  BY <1>4, PagesTyped
<1>6. PagesType'
  BY <1>1, <1>3, <1>5 DEF PagesInv, PagesType
<1>7. Pages!Offset(walk.page) \in Nat /\ PageEnd \in Nat
  <2>1. walk.page \in 1..(MaxDeploy + 1)
    BY PagesTyped DEF WalkType
  <2>. QED
    BY <2>1, OffsetType, PageBounds DEF PageEnd
<1>8. PageEnd' = PageEnd
  BY <1>3 DEF PageEnd, Pages!Offset
<1>9. ASSUME walk'.seen = shown, Covered(Pages!Offset(walk.page)) PROVE Covered(PageEnd)'
  <2>. SUFFICES ASSUME NEW i \in DOMAIN rows, i <= PageEnd, rows[i] \in walk.start
                PROVE  rows[i] \in shown
    BY <1>1, <1>3, <1>8, <1>9 DEF Covered
  <2>1. i \in Nat
    BY PagesTyped
  <2>2. CASE i <= Pages!Offset(walk.page)
    BY <1>9, <2>2 DEF Covered
  <2>3. CASE Pages!Offset(walk.page) < i
    BY <2>3 DEF Pages!PageRows, PageEnd
  <2>. QED
    BY <1>7, <2>1, <2>2, <2>3
<1>10. (walk.start \subseteq Pages!RowsIn(rows))' <=> walk.start \subseteq Pages!RowsIn(rows)
  BY <1>1, <1>3 DEF Pages!RowsIn
<1>. QED
  BY <1>1, <1>3, <1>4, <1>6, <1>9, <1>10 DEF PagesInv

\* The count says how far the rows reach at that moment: when that is not past
\* the end of the page, everything has been shown.
LEMMA PagesCount ==
  ASSUME PagesInv, Pages!Count
  PROVE  PagesInv'
<1>1. walk.pc = "count" /\ UNCHANGED <<rows, inserted>> /\ walk \in WalkType
  BY PagesTyped DEF Pages!Count, Pages!table
<1>2. Len(rows) \in 0..MaxDeploy /\ 0 \in 0..MaxDeploy
  BY PagesTyped, PageBounds
<1>3. /\ walk' \in WalkType /\ walk'.pc = "page" /\ walk'.start = walk.start
      /\ walk'.page = walk.page /\ walk'.seen = walk.seen
  BY <1>1, <1>2 DEF Pages!Count, WalkType
<1>4. gaps' = TRUE \/ (gaps' = gaps /\ walk'.total = Len(rows))
  BY <1>1 DEF Pages!Count, WalkType
<1>5. gaps' \in BOOLEAN
  BY <1>4, PagesTyped
<1>6. PagesType'
  BY <1>1, <1>3, <1>5 DEF PagesInv, PagesType
<1>7. PageEnd' = PageEnd /\ PageEnd \in Nat
  <2>1. walk.page \in 1..(MaxDeploy + 1)
    BY PagesTyped DEF WalkType
  <2>2. Pages!Offset(walk.page) \in Nat
    BY <2>1, OffsetType
  <2>3. PageEnd' = PageEnd
    BY <1>3 DEF PageEnd, Pages!Offset
  <2>. QED
    BY <2>2, <2>3, PageBounds DEF PageEnd
<1>8. Covered(PageEnd) => Covered(PageEnd)'
  BY <1>1, <1>3, <1>7 DEF Covered
<1>9. ASSUME Covered(PageEnd), Len(rows) <= PageEnd, walk.start \subseteq Pages!RowsIn(rows)
      PROVE  walk.start \subseteq walk.seen
  <2>. SUFFICES ASSUME NEW d \in walk.start PROVE d \in walk.seen
    OBVIOUS
  <2>1. PICK i \in DOMAIN rows : rows[i] = d
    BY <1>9 DEF Pages!RowsIn
  <2>2. i \in Nat /\ i <= Len(rows) /\ Len(rows) \in Nat
    BY PagesTyped
  <2>3. i <= PageEnd
    BY <1>7, <1>9, <2>2
  <2>. QED
    BY <1>9, <2>1, <2>3 DEF Covered
<1>10. (walk.start \subseteq Pages!RowsIn(rows))' <=> walk.start \subseteq Pages!RowsIn(rows)
  BY <1>1, <1>3 DEF Pages!RowsIn
<1>. QED
  BY <1>1, <1>3, <1>4, <1>6, <1>7, <1>8, <1>9, <1>10 DEF PagesInv

\* The next page begins where this one ends.
LEMMA PagesOlder ==
  ASSUME PagesInv, Pages!Older
  PROVE  PagesInv'
<1>1. /\ walk.pc = "page" /\ UNCHANGED <<rows, inserted, gaps>> /\ walk \in WalkType
      /\ walk' = [walk EXCEPT !.pc = "list", !.page = @ + 1]
      /\ walk.page < Pages!TotalPages(walk.total)
  BY PagesTyped DEF Pages!Older, Pages!table, Pages!HasOlder
<1>2. walk.page \in 1..(MaxDeploy + 1) /\ walk.total \in 0..MaxDeploy
  BY <1>1 DEF WalkType
<1>3. walk.page + 1 \in 1..(MaxDeploy + 1)
  <2>1. Pages!TotalPages(walk.total) \in Nat /\ Pages!TotalPages(walk.total) <= MaxDeploy
    BY <1>2, LastPage
  <2>. QED
    BY <1>1, <1>2, <2>1, PageBounds
<1>4. /\ walk' \in WalkType /\ walk'.pc = "list" /\ walk'.start = walk.start
      /\ walk'.page = walk.page + 1 /\ walk'.seen = walk.seen
  BY <1>1, <1>3 DEF WalkType
<1>5. PagesType'
  BY <1>1, <1>4 DEF PagesInv, PagesType
<1>6. Pages!Offset(walk.page)' = PageEnd
  <2>1. Pages!Offset(walk.page + 1) = PageEnd
    BY <1>2, OffsetType DEF PageEnd
  <2>. QED
    BY <1>4, <2>1 DEF Pages!Offset
<1>7. Covered(PageEnd) => Covered(Pages!Offset(walk.page))'
  BY <1>1, <1>4, <1>6 DEF Covered
<1>8. (walk.start \subseteq Pages!RowsIn(rows))' <=> walk.start \subseteq Pages!RowsIn(rows)
  BY <1>1, <1>4 DEF Pages!RowsIn
<1>. QED
  BY <1>1, <1>4, <1>5, <1>7, <1>8 DEF PagesInv

LEMMA PagesSteps == PagesInv /\ [Pages!Next]_(Pages!vars) => PagesInv'
<1>. SUFFICES ASSUME PagesInv, [Pages!Next]_(Pages!vars) PROVE PagesInv'
  OBVIOUS
<1>1. ASSUME UNCHANGED Pages!vars PROVE PagesInv'
  BY <1>1 DEF Pages!vars, Pages!table, PagesInv, PagesType, Covered, PageEnd, Pages!RowsIn,
     Pages!Offset
<1>. QED
  BY <1>1, PagesQueue, PagesRemove, PagesOpen, PagesList, PagesCount, PagesOlder DEF Pages!Next

\* A walk to the page without an "older" link shows every deploy that was there
\* when it began, however many are queued between its queries, for any size of
\* the pages and any number of deploys (routes/deployments.rs:33-40).
THEOREM WalksShowAll == OperationsSpec => []WalkSeesAll
<1>1. PagesInv => WalkSeesAll
  <2>. SUFFICES ASSUME PagesInv, walk.pc = "page", ~Pages!HasOlder, ~gaps
                PROVE  walk.start \subseteq walk.seen
    BY DEF WalkSeesAll, Pages!WalkSeesAll
  <2>1. walk.page \in 1..(MaxDeploy + 1) /\ walk.total \in 0..MaxDeploy
    BY PagesTyped DEF WalkType
  <2>2. walk.total <= walk.page * PerPage
    BY <2>1, LastPage DEF Pages!HasOlder
  <2>3. PageEnd = walk.page * PerPage
    BY <2>1, OffsetType DEF PageEnd
  <2>. QED
    BY <2>2, <2>3 DEF PagesInv
<1>. QED
  BY PagesRun, PagesInit, PagesSteps, <1>1, PTL DEF Pages!Spec

--------------------------------------------------------------------------------
(* All of them                                                                 *)

\* Every variable of the registry and of the components beside it keeps its
\* type, for any sets of requests, projects, contents and ports and any bounds
\* (routes/projects.rs, update.rs, main.rs, tui.rs, routes/deployments.rs).
THEOREM EveryTypeIsRight == OperationsSpec => []AllTypesOK
<1>1. OperationsSpec => []TypeOK
  BY RegistryRuns, TypeCorrect
<1>2. OperationsSpec => []EditInv
  BY EditRuns, EditInit, EditSteps, PTL DEF Editor!Spec
<1>3. OperationsSpec => []UpdateInv
  BY UpdateRuns, UpdateInit, UpdateSteps, PTL DEF Updating!Spec
<1>4. OperationsSpec => []UnitInv
  BY UnitRuns, UnitInit, UnitSteps, PTL DEF Unit!Spec
<1>5. OperationsSpec => []KeyInv
  BY KeyRuns, KeyInit, KeySteps, PTL DEF Key!Spec
<1>6. OperationsSpec => []TuiInv
  BY TuiRuns, TuiInit, TuiSteps, PTL DEF Tui!Spec
<1>7. OperationsSpec => []PagesInv
  BY PagesRun, PagesInit, PagesSteps, PTL DEF Pages!Spec
<1>8. PagesInv => Pages!TypeOK
  <2>. SUFFICES ASSUME PagesInv PROVE Pages!TypeOK
    OBVIOUS
  <2>1. rows \in Seq(1..MaxDeploy) /\ inserted \in 0..MaxDeploy /\ gaps \in BOOLEAN
    BY DEF PagesInv, PagesType
  <2>2. /\ walk.pc \in {"idle", "list", "count", "page"} /\ walk.page \in 1..(MaxDeploy + 1)
        /\ walk.total \in 0..MaxDeploy
        /\ walk.seen \cup walk.start \subseteq 1..MaxDeploy
    BY DEF PagesInv, PagesType, WalkType
  <2>. QED
    BY <2>1, <2>2 DEF Pages!TypeOK
<1>9. TypeOK /\ EditInv /\ UpdateInv /\ UnitInv /\ KeyInv /\ TuiInv /\ PagesInv => AllTypesOK
  BY <1>8 DEF EditInv, EditType, UpdateInv, UpdateType, UnitInv, KeyInv, TuiInv, AllTypesOK
<1>. QED
  BY <1>1, <1>2, <1>3, <1>4, <1>5, <1>6, <1>7, <1>9, PTL

===============================================================================
