------------------------------- MODULE KeyFile --------------------------------
(* keys/master.key: created by `rusno init` or `rusno serve` when it is not    *)
(* there (main.rs), read by each serve, and used by it to encrypt the GitHub   *)
(* token that it keeps in the database (routes/settings.rs, crypto.rs).        *)
EXTENDS Integers, FiniteSets

CONSTANTS
  Process,      \* slots for rusno processes running at the same time
  MaxKey        \* bound: keys ever generated

VARIABLES
  file,         \* the key in master.key
  generated,    \* keys generated so far
  proc,         \* the processes
  token,        \* the key that the stored token is encrypted with
  overlapped    \* history: a process looked for the file while another made it

keyVars == <<file, generated>>
vars == <<keyVars, proc, token, overlapped>>

None == 0
Blank == -1    \* no bytes yet; from_bytes pads them to the all-zero key
Keys == {Blank} \cup (1..MaxKey)
Idle == [pc |-> "idle", op |-> "none", key |-> None]

Init ==
  /\ file = None /\ generated = 0
  /\ proc = [p \in Process |-> Idle]
  /\ token = None /\ overlapped = FALSE

At(p, pc) == proc[p].pc = pc
Goto(p, pc) == proc' = [proc EXCEPT ![p].pc = pc]
Done(p) == proc' = [proc EXCEPT ![p] = Idle]

\* A server, once it has a key, goes on to bind its port; init ends.
Continue(p, key) ==
  proc' = [proc EXCEPT ![p] =
    IF @.op = "serve" THEN [@ EXCEPT !.pc = "bind", !.key = key] ELSE Idle]

-------------------------------------------------------------------------------

Start(p) ==
  /\ proc[p] = Idle
  /\ \E op \in {"init", "serve"} :
       proc' = [proc EXCEPT ![p] = [Idle EXCEPT !.pc = "exists", !.op = op]]
  /\ UNCHANGED <<keyVars, token, overlapped>>

Generate(p) ==
  /\ generated < MaxKey
  /\ generated' = generated + 1
  /\ proc' = [proc EXCEPT ![p].pc = "create", ![p].key = generated + 1]

Looks == overlapped' = (overlapped \/ \E q \in Process : proc[q].pc \in {"create", "write"})

\* Mutant of Exists: init makes a key whether there is one or not.
ExistsOrInit(p) ==
  /\ At(p, "exists")
  /\ \/ file # None /\ proc[p].op = "serve" /\ Goto(p, "read") /\ UNCHANGED generated
     \/ (file = None \/ proc[p].op = "init") /\ Generate(p)
  /\ Looks
  /\ UNCHANGED <<file, token>>

Exists(p) ==
  /\ At(p, "exists")
  /\ \/ /\ file # None
        /\ IF proc[p].op = "serve" THEN Goto(p, "read") ELSE Done(p)
        /\ UNCHANGED generated
     \/ file = None /\ Generate(p)
  /\ Looks
  /\ UNCHANGED <<file, token>>

\* tokio::fs::write makes the file, empties one that came up, and then writes.
Create(p) ==
  /\ At(p, "create")
  /\ file' = Blank
  /\ Goto(p, "write")
  /\ UNCHANGED <<generated, token, overlapped>>

\* Then the mode of the file: an error ends the process, with the file there.
Write(p) ==
  /\ At(p, "write")
  /\ file' = proc[p].key
  /\ Continue(p, proc[p].key) \/ Done(p)
  /\ UNCHANGED <<generated, token, overlapped>>

Read(p) ==
  /\ At(p, "read")
  /\ Continue(p, file)
  /\ UNCHANGED <<keyVars, token, overlapped>>

\* One server can have the port.
Bind(p) ==
  /\ At(p, "bind")
  /\ IF \E q \in Process : At(q, "up") THEN Done(p) ELSE Goto(p, "up")
  /\ UNCHANGED <<keyVars, token, overlapped>>

SaveToken(p) ==
  /\ At(p, "up")
  /\ token' = proc[p].key
  /\ UNCHANGED <<keyVars, proc, overlapped>>

RemoveToken(p) ==
  /\ At(p, "up")
  /\ token' = None
  /\ UNCHANGED <<keyVars, proc, overlapped>>

\* A failure of any step, an interrupt, a crash.
Stop(p) ==
  /\ proc[p] # Idle
  /\ Done(p)
  /\ UNCHANGED <<keyVars, token, overlapped>>

Next ==
  \E p \in Process :
    \/ Start(p) \/ Exists(p) \/ Create(p) \/ Write(p) \/ Read(p) \/ Bind(p)
    \/ SaveToken(p) \/ RemoveToken(p) \/ Stop(p)

Spec == Init /\ [][Next]_vars

-------------------------------------------------------------------------------
(* Properties *)

TypeOK ==
  /\ {file, token} \subseteq Keys \cup {None} /\ generated \in 0..MaxKey
  /\ proc \in [Process ->
       [pc : {"idle", "exists", "create", "write", "read", "bind", "up"},
        op : {"none", "init", "serve"}, key : Keys \cup {None}]]
  /\ overlapped \in BOOLEAN

\* The stored token can be decrypted with the key that the next start reads,
\* through any restarts, repeated inits and creations that were cut short (a
\* blank file is the all-zero key for ever); only two processes that start
\* together on a host without a key may end with different ones
\* (main.rs:153-158, main.rs:243-253).
TokenReadable == overlapped \/ token \in {None, file}

===============================================================================
