---------------------------- MODULE MemoryState ----------------------------
(***************************************************************************)
(* The canonical memory of one persona, memory_state.json, with its backup *)
(* and its temporary file (src/src/memory.rs), and those who work on it    *)
(* without a lock: tools that patch it or replace it                       *)
(* (src/src/tools/memory_state.rs, tiered_memory.rs), the web editor       *)
(* (src/src/web.rs) and the hygiene of hooks (src/src/hook_actions.rs).    *)
(*                                                                         *)
(* A step is one call of the file system.  Opening a file to write it      *)
(* empties it; what is written later goes to the file that was opened,     *)
(* under whatever name it has by then.  The process may crash at any       *)
(* moment, a user may spoil the file by hand, and a read or a copy may     *)
(* fail, which the code takes no notice of.                                *)
(***************************************************************************)
EXTENDS Naturals

CONSTANTS
    Actors,         \* those who read and write
    MaxWrites,      \* bound: states made
    MaxCrashes,     \* bound: crashes of the process
    MaxSpoils,      \* bound: edits by hand that leave no valid JSON
    MaxLapses       \* bound: reads and copies that fail

ASSUME MemoryAssumption == {MaxWrites, MaxCrashes, MaxSpoils, MaxLapses} \subseteq Nat

\* A state is the number of the write that made it and its meta.revision; the
\* default state stands also for no state.
States == [id : 1 .. MaxWrites, rev : 1 .. MaxWrites]
NoState == [id |-> 0, rev |-> 0]

\* Contents that do not parse: nothing yet, the bytes of several writers or a part
\* of a state, and bytes that are no text (not UTF-8), which are not even read.
Absent == [id |-> 0, rev |-> 1]
Empty == [id |-> 0, rev |-> 2]
Mixed == [id |-> 0, rev |-> 3]
Unreadable == [id |-> 0, rev |-> 4]
Contents == States \union {Absent, Empty, Mixed, Unreadable}

VARIABLES
    path, tmp, bak,     \* contents of memory_state.json, .json.tmp, .json.bak
    open,               \* name of the file each actor has open for writing
    pc,                 \* where each actor stands
    view,               \* the state each actor saw when it was last asked to look
    job,                \* what each actor is at, see Jobs
    made,               \* states made
    last, prev,         \* history: the last two states renamed into place
    overlapped,         \* history: some tasks have overlapped
    crashes, spoils, lapses     \* faults so far

files == <<path, tmp, bak, open>>
past == <<last, prev, overlapped>>
faults == <<crashes, spoils, lapses>>
vars == <<files, pc, view, job, made, past, faults>>

\* view: read it, for a prompt or the editor.  edit: change what was loaded
\* (patch_memory_state, write_tiered_memory).  tidy: the same, but only if there
\* is something (hygiene of the hooks).  replace: write a whole new content
\* (write_memory_state, the web editor).  ensure: write the default state if
\* there is no file (a turn, the web pages).
Tasks == {"none", "view", "edit", "tidy", "replace", "ensure"}
Places == {"idle", "loading", "recover", "decide", "open", "write", "backup", "copy", "rename"}

\* A task, whether it checks the revision, the state it loaded, the one it writes, what
\* it copies to the backup, and, as history, whether no one else was at work and
\* whether there was a file that could not be read.
Jobs == [task : Tasks, guarded : BOOLEAN, seen : States \union {NoState},
         mine : States \union {NoState}, copied : Contents, alone : BOOLEAN, unread : BOOLEAN]
NoJob == [task |-> "none", guarded |-> FALSE, seen |-> NoState,
          mine |-> NoState, copied |-> Absent, alone |-> FALSE, unread |-> FALSE]

TypeOK ==
    /\ {path, tmp, bak} \subseteq Contents
    /\ open \in [Actors -> {"none", "tmp", "path", "bak", "gone"}]
    /\ pc \in [Actors -> Places]
    /\ view \in [Actors -> States \union {NoState}]
    /\ job \in [Actors -> Jobs]
    /\ \A a \in Actors : pc[a] = "idle" => job[a] = NoJob /\ open[a] = "none"
    /\ made \in 0 .. MaxWrites
    /\ {last, prev} \subseteq States \union {NoState}
    /\ overlapped \in BOOLEAN
    /\ crashes \in 0 .. MaxCrashes /\ spoils \in 0 .. MaxSpoils /\ lapses \in 0 .. MaxLapses

Init ==
    /\ path = Absent /\ tmp = Absent /\ bak = Absent
    /\ open = [a \in Actors |-> "none"]
    /\ pc = [a \in Actors |-> "idle"]
    /\ view = [a \in Actors |-> NoState]
    /\ job = [a \in Actors |-> NoJob]
    /\ made = 0
    /\ last = NoState /\ prev = NoState /\ overlapped = FALSE
    /\ crashes = 0 /\ spoils = 0 /\ lapses = 0

----------------------------------------------------------------------------
(* Files *)

\* parse_and_validate_state.
Valid(content) == content.id # 0

\* What a file holds after c is written to it: others may have written since
\* it was emptied.
Filled(content, c) == IF content = Empty THEN {c} ELSE {c, Mixed, Unreadable}

\* Actor a writes c into the file it has open, wherever that is, and closes it.
WriteOpen(a, c) ==
    /\ IF open[a] = "path" THEN path' \in Filled(path, c) ELSE UNCHANGED path
    /\ IF open[a] = "tmp" THEN tmp' \in Filled(tmp, c) ELSE UNCHANGED tmp
    /\ IF open[a] = "bak" THEN bak' \in Filled(bak, c) ELSE UNCHANGED bak
    /\ open' = [open EXCEPT ![a] = "none"]

\* A read or a copy fails; nobody is told.
Lapse == lapses < MaxLapses /\ lapses' = lapses + 1

\* A copy of c into the file that actor a has open comes to its end, or it fails:
\* nothing or a part has been written.
CopyOpen(a, c) ==
    \/ WriteOpen(a, c) /\ UNCHANGED lapses
    \/ Lapse /\ open' = [open EXCEPT ![a] = "none"] /\ UNCHANGED <<path, tmp, bak>>
    \/ Lapse /\ \E part \in {Mixed, Unreadable} : WriteOpen(a, part)

At(a, place) == pc[a] = place
Goto(a, place) == pc' = [pc EXCEPT ![a] = place]
Idle == \A a \in Actors : At(a, "idle")

\* The task of actor a is over, done or not.
Leave(a) == Goto(a, "idle") /\ job' = [job EXCEPT ![a] = NoJob]

----------------------------------------------------------------------------
(* Loading *)

\* A task begins; all but a view may lead to a write.
Begin(a, task, guarded, place) ==
    /\ At(a, "idle")
    /\ task # "view" => made < MaxWrites
    /\ job' = [b \in Actors |->
                  IF b = a THEN [NoJob EXCEPT !.task = task, !.guarded = guarded, !.alone = Idle]
                  ELSE [job[b] EXCEPT !.alone = FALSE]]
    /\ Goto(a, place)
    /\ overlapped' = (overlapped \/ ~Idle)
    /\ UNCHANGED <<files, view, made, last, prev, faults>>

View(a) == Begin(a, "view", FALSE, "loading")

Edit(a) == \E guarded \in BOOLEAN : Begin(a, "edit", guarded, "loading")

Tidy(a) == Begin(a, "tidy", FALSE, "loading")

\* A whole new content is loaded over only to compare the revision.
Replace(a) ==
    \/ Begin(a, "replace", TRUE, "loading")
    \/ Begin(a, "replace", FALSE, "decide")

\* Only whether there is a file is looked at.
Ensure(a) == Begin(a, "ensure", FALSE, "decide")

\* Fault for mutation: a file that does not parse is not looked for in the
\* backup.
LoadPrimary(a) ==
    /\ At(a, "loading")
    /\ job' = [job EXCEPT ![a].seen = IF Valid(path) THEN path ELSE NoState,
                          ![a].unread = path = Unreadable]
    /\ Goto(a, "decide")
    /\ UNCHANGED <<files, view, made, past, faults>>

\* What reading the files gives.  A file that is read but does not parse is
\* looked for in the backup; one that is missing or cannot be read is not.
Loaded ==
    CASE Valid(path) -> path
      [] path \notin {Absent, Unreadable} /\ ~Valid(path) /\ Valid(bak) -> bak
      [] OTHER -> NoState

\* read_persona_memory_state: what is found in the backup is copied over the file.
\* The file or the backup may not be read, or the copy not begun.
Load(a) ==
    /\ At(a, "loading")
    /\ \/ /\ Valid(path) \/ Loaded = NoState
          /\ job' = [job EXCEPT ![a].seen = Loaded, ![a].unread = path = Unreadable]
          /\ Goto(a, "decide")
          /\ UNCHANGED <<files, lapses>>
       \/ /\ ~Valid(path) /\ Loaded # NoState
          /\ job' = [job EXCEPT ![a].seen = bak]
          /\ \/ /\ path' = Empty
                /\ open' = [open EXCEPT ![a] = "path"]
                /\ Goto(a, "recover")
                /\ UNCHANGED <<tmp, bak, lapses>>
             \/ Lapse /\ Goto(a, "decide") /\ UNCHANGED files
       \/ /\ path # Absent
          /\ Lapse
          /\ job' = [job EXCEPT ![a].unread = TRUE]
          /\ Goto(a, "decide")
          /\ UNCHANGED files
    /\ UNCHANGED <<view, made, past, crashes, spoils>>

\* The copy of the backup over the file ends; its errors are ignored.
Recover(a) ==
    /\ At(a, "recover")
    /\ CopyOpen(a, job[a].seen)
    /\ Goto(a, "decide")
    /\ UNCHANGED <<job, view, made, past, crashes, spoils>>

\* expected_revision is not the revision in the file.
Conflicts(a) == job[a].guarded /\ job[a].seen.rev # view[a].rev

\* A reader has what it wanted; a guarded writer finds the file changed; there
\* is nothing to tidy, or a file.  The web editor may find that the file is
\* younger than what it showed: times are not modelled.
Return(a) ==
    /\ At(a, "decide")
    /\ \/ job[a].task = "view" /\ view' = [view EXCEPT ![a] = job[a].seen]
       \/ /\ \/ job[a].task = "tidy" \/ Conflicts(a)
             \/ job[a].task = "replace" /\ ~job[a].guarded
             \/ job[a].task = "ensure" /\ path # Absent
          /\ UNCHANGED view
    /\ Leave(a)
    /\ UNCHANGED <<files, made, past, faults>>

\* The new state is made from the one loaded, or from the default state when
\* nothing could be loaded; a replacement has the revision of the state its
\* author saw, or none.
Decide(a) ==
    /\ At(a, "decide")
    /\ made < MaxWrites
    /\ CASE job[a].task = "tidy" -> job[a].seen # NoState
         [] job[a].task = "ensure" -> path = Absent
         [] OTHER -> job[a].task # "view" /\ ~Conflicts(a)
    /\ \E rev \in IF job[a].task = "replace" THEN {0, view[a].rev} ELSE {job[a].seen.rev} :
        job' = [job EXCEPT ![a] = [NoJob EXCEPT
                    !.mine = [id |-> made + 1, rev |-> rev + 1], !.alone = job[a].alone]]
    /\ made' = made + 1
    /\ Goto(a, "open")
    /\ UNCHANGED <<files, view, past, faults>>

----------------------------------------------------------------------------
(* write_persona_memory_state *)

\* Fault for mutation: what an earlier write left in the temporary file is kept.
OpenTmpKeeps(a) ==
    /\ At(a, "open")
    /\ tmp' = IF tmp = Absent THEN Empty ELSE tmp
    /\ open' = [open EXCEPT ![a] = "tmp"]
    /\ Goto(a, "write")
    /\ UNCHANGED <<path, bak, job, view, made, past, faults>>

\* The temporary file is created or emptied.
OpenTmp(a) ==
    /\ At(a, "open")
    /\ tmp' = Empty
    /\ open' = [open EXCEPT ![a] = "tmp"]
    /\ Goto(a, "write")
    /\ UNCHANGED <<path, bak, job, view, made, past, faults>>

\* The write may fail, which is answered as an error.
WriteTmp(a) ==
    /\ At(a, "write")
    /\ \/ WriteOpen(a, job[a].mine) /\ Goto(a, "backup") /\ UNCHANGED job
       \/ open' = [open EXCEPT ![a] = "none"] /\ Leave(a) /\ UNCHANGED <<path, tmp, bak>>
    /\ UNCHANGED <<view, made, past, faults>>

\* Fault for mutation: the state there is is moved to the backup.
OpenBackupMoves(a) ==
    /\ At(a, "backup")
    /\ bak' = IF path = Absent THEN bak ELSE path
    /\ path' = Absent
    /\ Goto(a, "rename")
    /\ UNCHANGED <<tmp, open, job, view, made, past, faults>>

\* The state there is is copied to the backup, or the copy does not begin.
OpenBackup(a) ==
    /\ At(a, "backup")
    /\ \/ /\ IF path = Absent THEN UNCHANGED lapses ELSE Lapse
          /\ Goto(a, "rename")
          /\ UNCHANGED <<files, job>>
       \/ /\ path # Absent
          /\ job' = [job EXCEPT ![a].copied = path]
          /\ bak' = Empty
          /\ open' = [open EXCEPT ![a] = "bak"]
          /\ Goto(a, "copy")
          /\ UNCHANGED <<path, tmp, lapses>>
    /\ UNCHANGED <<view, made, past, crashes, spoils>>

\* Errors of the copy are ignored; copying nothing leaves nothing.
CopyBackup(a) ==
    /\ At(a, "copy")
    /\ IF job[a].copied = Empty
       THEN open' = [open EXCEPT ![a] = "none"] /\ UNCHANGED <<path, tmp, bak, lapses>>
       ELSE CopyOpen(a, job[a].copied)
    /\ job' = [job EXCEPT ![a].copied = Absent]
    /\ Goto(a, "rename")
    /\ UNCHANGED <<view, made, past, crashes, spoils>>

\* The temporary file takes the place of the state; who has it open writes to
\* its new name, and who has the old one open to a file without a name.  When
\* another actor has renamed it already the write is answered as an error.
Rename(a) ==
    /\ At(a, "rename")
    /\ IF tmp = Absent THEN UNCHANGED <<files, last, prev>>
       ELSE /\ path' = tmp
            /\ tmp' = Absent
            /\ open' = [b \in Actors |->
                            CASE open[b] = "tmp" -> "path"
                              [] open[b] = "path" -> "gone"
                              [] OTHER -> open[b]]
            /\ last' = IF Valid(tmp) THEN tmp ELSE last
            /\ prev' = IF Valid(tmp) THEN last ELSE prev
            /\ UNCHANGED bak
    /\ Leave(a)
    /\ UNCHANGED <<view, made, overlapped, faults>>

----------------------------------------------------------------------------
(* Faults *)

\* The process ends; files stay as they are.
Crash ==
    /\ crashes < MaxCrashes
    /\ crashes' = crashes + 1
    /\ pc' = [a \in Actors |-> "idle"]
    /\ open' = [a \in Actors |-> "none"]
    /\ view' = [a \in Actors |-> NoState]
    /\ job' = [a \in Actors |-> NoJob]
    /\ UNCHANGED <<path, tmp, bak, made, past, spoils, lapses>>

\* Somebody edits the file by hand and leaves it invalid, or saves it in another
\* encoding.
Spoil ==
    /\ spoils < MaxSpoils
    /\ path # Absent
    /\ path' \in {Mixed, Unreadable}
    /\ spoils' = spoils + 1
    /\ UNCHANGED <<tmp, bak, open, pc, view, job, made, past, crashes, lapses>>

Next ==
    \/ \E a \in Actors :
        View(a) \/ Edit(a) \/ Tidy(a) \/ Replace(a) \/ Ensure(a) \/ Load(a) \/ Recover(a) \/ Return(a) \/ Decide(a)
            \/ OpenTmp(a) \/ WriteTmp(a) \/ OpenBackup(a) \/ CopyBackup(a) \/ Rename(a)
    \/ Crash \/ Spoil

Spec == Init /\ [][Next]_vars

----------------------------------------------------------------------------
(* Properties *)

\* As long as no two tasks overlap, one fault never costs more than the last
\* write once there is a backup: a crash at any point of a write, an edit by hand,
\* a read or a copy that fails.  After an edit by hand the code cannot even read
\* the state is in the backup, but nothing loads it: the next write that loads
\* nothing copies the unreadable file over it (read_persona_memory_state).
SurvivesOneFault ==
    Idle /\ ~overlapped /\ crashes + spoils + lapses <= 1 /\ bak # Absent
        => (IF path = Unreadable THEN bak ELSE Loaded) \in {last, prev} \ {NoState}

\* A write during which nobody else was at work is in place when it is
\* answered, whatever earlier crashes, failed writes and races left behind
\* (write_persona_memory_state).
AloneIsStored ==
    [][\A a \in Actors :
        job[a].alone /\ At(a, "rename") /\ pc'[a] = "idle" /\ crashes' = crashes => path' = job[a].mine]_vars

\* An edit starts from the default state, and so wipes the memory out, only
\* when there was none, when there is a file that cannot be read (it is no text, or
\* reading it fails), after two tasks overlapped, after two faults, or after an
\* edit by hand before the first backup (unwrap_or_default in the tools).
NotForgotten ==
    \A a \in Actors :
        At(a, "decide") /\ job[a].task = "edit" /\ job[a].seen = NoState
            => \/ last = NoState \/ job[a].unread \/ overlapped
               \/ crashes + spoils + lapses > 1 \/ (spoils = 1 /\ prev = NoState)
=============================================================================
