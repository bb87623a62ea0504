------------------------------ MODULE FileEditor ------------------------------
(* The compose and .env editors: atomic_write of routes/projects.rs, by which  *)
(* save_compose and save_env put a file in place, and the handlers that read   *)
(* it.  One file and its <file>.tmp; files are inodes with names, as saves may *)
(* meet on one tmp.  A content has two halves, each of the save it is from.    *)
EXTENDS Integers, FiniteSets

CONSTANTS
  Save,         \* slots for saves in flight
  Content       \* contents, as positive numbers

VARIABLES
  names,        \* the inodes of target and tmp, 0 for a name that is not there
  data,         \* what is in each inode
  save,         \* the saves in flight
  mixed,        \* history: two saves were writing at the same time
  last          \* history: the content that was put in place last

vars == <<names, data, save, mixed, last>>

Absent == 0
Inodes == 1..3 + Cardinality(Save)
Empty == [head |-> 0, tail |-> 0]
Whole(v) == [head |-> v, tail |-> v]
\* gone: the caller left, and the write goes on without it.
Idle == [pc |-> "idle", value |-> 0, inode |-> Absent, gone |-> FALSE]

Used == {names.target, names.tmp} \cup {save[s].inode : s \in Save}
FreshInode == CHOOSE i \in Inodes : i \notin Used
\* An inode without a name and without a writer is gone.
Reclaim == data' = [i \in Inodes |-> IF i \in Used' THEN data[i] ELSE Empty]

Init ==
  /\ names = [target |-> 1, tmp |-> Absent]
  /\ last = CHOOSE v \in Content : TRUE
  /\ data = [i \in Inodes |-> IF i = 1 THEN Whole(last) ELSE Empty]
  /\ save = [s \in Save |-> Idle]
  /\ mixed = FALSE

At(s, pc) == save[s].pc = pc
Goto(s, pc) == save' = [save EXCEPT ![s].pc = pc]
Done(s) == save' = [save EXCEPT ![s] = Idle]
Writing == {s \in Save : save[s].pc \in {"head", "tail", "rename", "remove"}}

-------------------------------------------------------------------------------

\* The handler has found the project, and made the directory of the file.
Begin(s) ==
  /\ save[s] = Idle
  /\ \E v \in Content : save' = [save EXCEPT ![s] = [Idle EXCEPT !.pc = "open", !.value = v]]
  /\ UNCHANGED <<names, data, mixed, last>>

Opens(s, i) ==
  /\ data' = [data EXCEPT ![i] = Empty]
  /\ save' = [save EXCEPT ![s].pc = "head", ![s].inode = i]
  /\ mixed' = (mixed \/ Writing # {})

\* Mutant of Open: the file itself is opened.
OpenTarget(s) ==
  /\ At(s, "open")
  /\ Opens(s, names.target)
  /\ UNCHANGED <<names, last>>

\* tokio::fs::write creates tmp, or truncates the one that is there.
Open(s) ==
  /\ At(s, "open")
  /\ \E i \in {IF names.tmp = Absent THEN FreshInode ELSE names.tmp} :
       Opens(s, i) /\ names' = [names EXCEPT !.tmp = i]
  /\ UNCHANGED last

WriteHead(s) ==
  /\ At(s, "head")
  /\ data' = [data EXCEPT ![save[s].inode].head = save[s].value]
  /\ Goto(s, "tail")
  /\ UNCHANGED <<names, mixed, last>>

\* What is written for a caller that left is not renamed any more.
WriteTail(s) ==
  /\ At(s, "tail")
  /\ IF save[s].gone THEN Done(s) ELSE Goto(s, "rename")
  /\ data' = [data EXCEPT ![save[s].inode].tail = save[s].value]
  /\ UNCHANGED <<names, mixed, last>>

\* The disk is full: the answer is an error, and tmp is left.
WriteFails(s) ==
  /\ save[s].pc \in {"open", "head", "tail"}
  /\ Done(s)
  /\ UNCHANGED <<names, mixed, last>>
  /\ Reclaim

\* Another save may have taken tmp away: then the rename fails.
Rename(s) ==
  /\ At(s, "rename")
  /\ \/ /\ names.tmp # Absent
        /\ names' = [target |-> names.tmp, tmp |-> Absent]
        /\ last' = save[s].value
        /\ Done(s)
     \/ /\ names.tmp = Absent
        /\ Goto(s, "remove")
        /\ UNCHANGED <<names, last>>
  /\ UNCHANGED mixed
  /\ Reclaim

\* After a rename that failed, whoever's tmp it is by then.
RemoveTmp(s) ==
  /\ At(s, "remove")
  /\ names' = [names EXCEPT !.tmp = Absent]
  /\ Done(s)
  /\ UNCHANGED <<mixed, last>>
  /\ Reclaim

\* The caller goes away: between two awaits the save ends, while the blocking
\* write of a file runs to its end.
Leave(s) ==
  /\ save[s] # Idle
  /\ IF save[s].pc \in {"head", "tail"} THEN save' = [save EXCEPT ![s].gone = TRUE] ELSE Done(s)
  /\ UNCHANGED <<names, mixed, last>>
  /\ Reclaim

\* The process stops, in the middle of any write.
Stop ==
  /\ save' = [s \in Save |-> Idle]
  /\ UNCHANGED <<names, mixed, last>>
  /\ Reclaim

Next ==
  \/ \E s \in Save :
       \/ Begin(s) \/ Open(s) \/ WriteHead(s) \/ WriteTail(s) \/ WriteFails(s)
       \/ Rename(s) \/ RemoveTmp(s) \/ Leave(s)
  \/ Stop

Spec == Init /\ [][Next]_vars

-------------------------------------------------------------------------------
(* Properties *)

TypeOK ==
  /\ names.target \in Inodes /\ names.tmp \in Inodes \cup {Absent}
  /\ data \in [Inodes -> [head : Content \cup {0}, tail : Content \cup {0}]]
  /\ save \in [Save -> [pc : {"idle", "open", "head", "tail", "rename", "remove"},
                        value : Content \cup {0}, inode : Inodes \cup {Absent}, gone : BOOLEAN]]
  /\ mixed \in BOOLEAN /\ last \in Content

\* The file is there, and is what was put in place last, the whole of it, at
\* every moment, through callers that leave, full disks and stops; only saves
\* that overlap share a tmp and may show half of each other
\* (routes/projects.rs:180-215).
SavedIsThere == mixed \/ data[names.target] = Whole(last)

===============================================================================
