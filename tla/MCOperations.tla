---------------------------- MODULE MCOperations ------------------------------
(* One instance for TLC of Registry and of the components beside it that share *)
(* no state with it or with each other: FileEditor, SelfUpdate, ServiceUnit,   *)
(* KeyFile, TuiLoop and DeployPages.  A behaviour is of one of them, focus,    *)
(* while the others rest: what each does alone is all that it can do.          *)
EXTENDS MCRegistry

CONSTANTS Content, MaxRelease, Installed, Port, MaxKey, MaxKeys, MaxTicks, PerPage, MaxDeploy

VARIABLES
  focus,
  names, data, save, mixed, last,                               \* FileEditor
  release, path, blob, updater, service, raced,                 \* SelfUpdate
  unit, loaded, enabled, process, command, promised, crossed,   \* ServiceUnit
  file, generated, proc, token, overlappedKeys,                 \* KeyFile
  screen, poll, orphan, keys, help, typed, handled, ticks,      \* TuiLoop
  rows, inserted, walk, gaps                                    \* DeployPages

editorVars == <<names, data, save, mixed, last>>
updateVars == <<release, path, blob, updater, service, raced>>
unitVars == <<unit, loaded, enabled, process, command, promised, crossed>>
keyFileVars == <<file, generated, proc, token, overlappedKeys>>
tuiVars == <<screen, poll, orphan, keys, help, typed, handled, ticks>>
pagesVars == <<rows, inserted, walk, gaps>>

Editor == INSTANCE FileEditor WITH Save <- Request
Updating == INSTANCE SelfUpdate WITH Updater <- Request
Unit == INSTANCE ServiceUnit WITH Command <- Request, mixed <- crossed
Key == INSTANCE KeyFile WITH Process <- Request, overlapped <- overlappedKeys
Tui == INSTANCE TuiLoop
Pages == INSTANCE DeployPages

ASSUME SlotsAssumption == IsFiniteSet(Request)
ASSUME ContentAssumption == Content \subseteq Nat \ {0} /\ Content # {}
ASSUME ReleaseAssumption == MaxRelease \in Nat \ {0} /\ Installed \in 1..MaxRelease
ASSUME PortAssumption == Port \subseteq Nat \ {0}
ASSUME CountersAssumption ==
  {MaxKey, MaxKeys, MaxTicks, MaxDeploy} \subseteq Nat /\ PerPage \in Nat \ {0}

-------------------------------------------------------------------------------

StartInit ==
  /\ Init
  /\ Editor!Init /\ Updating!Init /\ Unit!Init /\ Key!Init /\ Tui!Init /\ Pages!Init
  /\ focus \in {"registry", "editor", "update", "unit", "key", "tui", "pages"}

RegistryStep ==
  /\ focus = "registry"
  /\ Next
  /\ UNCHANGED <<focus, editorVars, updateVars, unitVars, keyFileVars, tuiVars, pagesVars>>

EditorStep ==
  /\ focus = "editor"
  /\ Editor!Next
  /\ UNCHANGED <<focus, vars, updateVars, unitVars, keyFileVars, tuiVars, pagesVars>>

UpdateStep ==
  /\ focus = "update"
  /\ Updating!Next
  /\ UNCHANGED <<focus, vars, editorVars, unitVars, keyFileVars, tuiVars, pagesVars>>

UnitStep ==
  /\ focus = "unit"
  /\ Unit!Next
  /\ UNCHANGED <<focus, vars, editorVars, updateVars, keyFileVars, tuiVars, pagesVars>>

KeyStep ==
  /\ focus = "key"
  /\ Key!Next
  /\ UNCHANGED <<focus, vars, editorVars, updateVars, unitVars, tuiVars, pagesVars>>

TuiStep ==
  /\ focus = "tui"
  /\ Tui!Next
  /\ UNCHANGED <<focus, vars, editorVars, updateVars, unitVars, keyFileVars, pagesVars>>

PagesStep ==
  /\ focus = "pages"
  /\ Pages!Next
  /\ UNCHANGED <<focus, vars, editorVars, updateVars, unitVars, keyFileVars, tuiVars>>

AnyStep ==
  \/ RegistryStep \/ EditorStep \/ UpdateStep \/ UnitStep \/ KeyStep \/ TuiStep \/ PagesStep

allVars == <<vars, editorVars, updateVars, unitVars, keyFileVars, tuiVars, pagesVars, focus>>

OperationsSpec == StartInit /\ [][AnyStep]_allVars

-------------------------------------------------------------------------------
(* Properties *)

\* The type invariants of all of them.
AllTypesOK ==
  /\ focus = "registry" => TypeOK
  /\ focus = "editor" => Editor!TypeOK
  /\ focus = "update" => Updating!TypeOK
  /\ focus = "unit" => Unit!TypeOK
  /\ focus = "key" => Key!TypeOK
  /\ focus = "tui" => Tui!TypeOK
  /\ focus = "pages" => Pages!TypeOK

\* A file that is saved by one admin at a time is whole (routes/projects.rs:180-215).
SavedIsThere == focus = "editor" => Editor!SavedIsThere

\* The binary on disk and the service are whole (update.rs:124-164).
BinaryIsWhole == focus = "update" => Updating!BinaryIsWhole

\* An update never installs an older version (update.rs:73, update.rs:152).
NoDowngrade == [][Updating!Upgrades]_updateVars

\* What `service install` reported stays true (main.rs:429-441).
InstalledStays == focus = "unit" => Unit!InstalledStays

\* The stored token can be decrypted after a restart (main.rs:243-253).
TokenReadable == focus = "key" => Key!TokenReadable

\* A tick of the dashboard costs one key at most (tui.rs:91-95).
OneKeyPerTick == focus = "tui" => Tui!OneKeyPerTick

\* The pages of the deployments leave nothing out (routes/deployments.rs:33-40).
WalkSeesAll == focus = "pages" => Pages!WalkSeesAll

===============================================================================
