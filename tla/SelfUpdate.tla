------------------------------ MODULE SelfUpdate ------------------------------
(* `rusno update` (update.rs): the check against the latest release, download, *)
(* checksum, the swap of the binary on disk and the restart of the service.    *)
(* Releases are published while it runs, each of its fetches sees the latest,  *)
(* and several updaters may run at once (the CLI, and the TUI's key u).        *)
EXTENDS Integers, FiniteSets

CONSTANTS
  Updater,      \* processes that run run_update
  MaxRelease,   \* bound: versions ever published
  Installed     \* the version at first: it may be ahead, when built from source

Versions == 1..MaxRelease
Partial == 0          \* a file that is not written to its end
Page == MaxRelease + 1 \* an error page: reqwest::get does not look at the status
Inodes == 1..3 + 2 * Cardinality(Updater)

VARIABLES
  release,      \* the version the release URL leads to
  path,         \* inodes: of rusno, of its sibling .new, and of the same pair for
                \* the name "rusno (deleted)", 0 for a name that is not there
  blob,         \* what is in each inode
  updater,      \* the updaters
  service,      \* the version the service runs
  raced         \* history: two updaters were swapping rusno at the same time,
                \* from current_exe to the rename

vars == <<release, path, blob, updater, service, raced>>

Absent == 0
\* inode: of the binary it runs (CARGO_PKG_VERSION is what that one is).
Idle == [pc |-> "idle", inode |-> Absent, bytes |-> 0, file |-> Absent,
         dest |-> "exe"]

Current(u) == blob[updater[u].inode]
Used == {path[n] : n \in DOMAIN path}
  \cup (UNION {{updater[u].inode, updater[u].file} : u \in Updater})
FreshInode == CHOOSE i \in Inodes : i \notin Used
\* An inode without a name, and that nothing runs or writes, is gone.
Reclaim == blob' = [i \in Inodes |-> IF i \in Used' THEN blob[i] ELSE Partial]

Init ==
  /\ release = 1
  /\ path = [exe |-> 1, exe_new |-> Absent, stray |-> Absent, stray_new |-> Absent]
  /\ blob = [i \in Inodes |-> IF i = 1 THEN Installed ELSE Partial]
  /\ updater = [u \in Updater |-> Idle]
  /\ service = Installed
  /\ raced = FALSE

At(u, pc) == updater[u].pc = pc
Goto(u, pc) == updater' = [updater EXCEPT ![u].pc = pc]
Done(u) == updater' = [updater EXCEPT ![u] = Idle]

-------------------------------------------------------------------------------

Publish ==
  /\ release < MaxRelease
  /\ release' = release + 1
  /\ UNCHANGED <<path, blob, updater, service, raced>>

\* systemd or the host starts the service again.
ServiceRestarts ==
  /\ service' = blob[path.exe]
  /\ UNCHANGED <<release, path, blob, updater, raced>>

Start(u) ==
  /\ updater[u] = Idle
  /\ blob[path.exe] \in Versions
  /\ updater' = [updater EXCEPT ![u] = [Idle EXCEPT !.pc = "check", !.inode = path.exe]]
  /\ UNCHANGED <<release, path, blob, service, raced>>

Newer(latest, current) == latest > current

\* check_for_update and the prompt: nothing newer, no network, a VERSION that
\* does not parse and an answer other than y end it.
Check(u) ==
  /\ At(u, "check")
  /\ \/ Newer(release, Current(u))
        /\ updater' = [updater EXCEPT ![u].pc = "download"]
     \/ Done(u)
  /\ UNCHANGED <<release, path, service, raced>>
  /\ Reclaim

Download(u) ==
  /\ At(u, "download")
  /\ \/ \E b \in {release, Page} :
          updater' = [updater EXCEPT ![u].pc = "sums", ![u].bytes = b]
     \/ Done(u)
  /\ UNCHANGED <<release, path, service, raced>>
  /\ Reclaim

\* Mutant of Verify: the checksum is fetched and not compared.
VerifyNothing(u) ==
  /\ At(u, "sums")
  /\ Goto(u, "create") \/ Done(u)
  /\ UNCHANGED <<release, path, service, raced>>
  /\ Reclaim

\* SHA256SUMS is of the release there is by now; a mismatch, a page without an
\* entry and a fetch that fails end it before anything is touched.
Verify(u) ==
  /\ At(u, "sums")
  /\ \/ updater[u].bytes = release /\ Goto(u, "create")
     \/ Done(u)
  /\ UNCHANGED <<release, path, service, raced>>
  /\ Reclaim

NewOf(dest) == IF dest = "exe" THEN "exe_new" ELSE "stray_new"
Swapping ==
  {u \in Updater : updater[u].pc \in {"open", "write", "rename"} /\ updater[u].dest = "exe"}

\* Mutant of Resolve: the path as it is called, whatever has replaced it.
ResolveByName(u) ==
  /\ At(u, "create")
  /\ updater' = [updater EXCEPT ![u].pc = "open"]
  /\ raced' = (raced \/ Swapping # {})
  /\ UNCHANGED <<release, path, blob, service>>

\* current_exe: the link to a binary that was replaced reads "(deleted)", and
\* the swap is done beside the real one.  A swap of rusno begins here: what
\* replaces the binary from now on is replaced in its turn.
Resolve(u) ==
  LET dest == IF updater[u].inode = path.exe THEN "exe" ELSE "stray" IN
  /\ At(u, "create")
  /\ updater' = [updater EXCEPT ![u].pc = "open", ![u].dest = dest]
  /\ raced' = (raced \/ (dest = "exe" /\ Swapping # {}))
  /\ UNCHANGED <<release, path, blob, service>>

\* The sibling .new is created, or truncated.
Create(u) ==
  LET new == NewOf(updater[u].dest) IN
  /\ At(u, "open")
  /\ \E i \in {IF path[new] = Absent THEN FreshInode ELSE path[new]} :
       /\ path' = [path EXCEPT ![new] = i]
       /\ blob' = [blob EXCEPT ![i] = Partial]
       /\ updater' = [updater EXCEPT ![u].pc = "write", ![u].file = i]
  /\ UNCHANGED <<release, service, raced>>

Write(u) ==
  /\ At(u, "write")
  /\ blob' = [blob EXCEPT ![updater[u].file] = updater[u].bytes]
  /\ Goto(u, "rename")
  /\ UNCHANGED <<release, path, service, raced>>

\* A step of replace_binary fails: the temp file is removed, whoever's it is.
SwapFails(u) ==
  /\ updater[u].pc \in {"open", "write", "rename"}
  /\ path' = [path EXCEPT ![NewOf(updater[u].dest)] = Absent]
  /\ Done(u)
  /\ UNCHANGED <<release, service, raced>>
  /\ Reclaim

Rename(u) ==
  LET dest == updater[u].dest IN
  /\ At(u, "rename")
  /\ path[NewOf(dest)] # Absent
  /\ path' = [path EXCEPT ![dest] = path[NewOf(dest)], ![NewOf(dest)] = Absent]
  /\ Goto(u, "restart")
  /\ UNCHANGED <<release, service, raced>>
  /\ Reclaim

\* try_restart_systemd, when the unit is there and the restart succeeds.
Restart(u) ==
  /\ At(u, "restart")
  /\ service' \in {service, blob[path.exe]}
  /\ Done(u)
  /\ UNCHANGED <<release, path, raced>>
  /\ Reclaim

\* The updater is interrupted; its file stays.
Kill(u) ==
  /\ updater[u] # Idle
  /\ Done(u)
  /\ UNCHANGED <<release, path, service, raced>>
  /\ Reclaim

Next ==
  \/ Publish \/ ServiceRestarts
  \/ \E u \in Updater :
       \/ Start(u) \/ Check(u) \/ Download(u) \/ Verify(u) \/ Resolve(u) \/ Create(u)
       \/ Write(u) \/ SwapFails(u) \/ Rename(u) \/ Restart(u) \/ Kill(u)

Spec == Init /\ [][Next]_vars

-------------------------------------------------------------------------------
(* Properties *)

TypeOK ==
  /\ release \in Versions
  /\ path \in [{"exe", "exe_new", "stray", "stray_new"} -> Inodes \cup {Absent}]
  /\ path.exe \in Inodes
  /\ blob \in [Inodes -> {Partial, Page} \cup Versions]
  /\ updater \in [Updater ->
       [pc : {"idle", "check", "download", "sums", "create", "open", "write", "rename", "restart"},
        inode : Inodes \cup {Absent}, bytes : 0..Page,
        file : Inodes \cup {Absent}, dest : {"exe", "stray"}]]
  /\ service \in {Partial, Page} \cup Versions /\ raced \in BOOLEAN

\* rusno on disk is a whole published binary at every moment, and so is what a
\* restart makes the service run, although the release may change between the
\* fetches and an updater may be killed in any step; only two swaps at the same
\* time share a temp file (update.rs:124-164, update.rs:194).
BinaryIsWhole == raced \/ {blob[path.exe], service} \subseteq Versions

\* An update never puts an older version in place, whoever else updates and
\* however far the installed version is ahead (update.rs:73, update.rs:152), but
\* where two swaps overlap: the later rename wins, be it of the older release.
Upgrades == raced' \/ blob'[path'.exe] >= blob[path.exe]
NoDowngrade == [][Upgrades]_vars

===============================================================================
