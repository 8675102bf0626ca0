--------------------------- MODULE MemoryStateProofs ---------------------------
(***************************************************************************)
(* Proofs about MemoryState: for any number of actors, writes and faults.  *)
(***************************************************************************)
EXTENDS MemoryState, TLAPS

Versions == [id : Nat, rev : Nat]

Work == [task : Tasks, guarded : BOOLEAN, seen : Versions, mine : Versions,
         copied : Versions, alone : BOOLEAN, unread : BOOLEAN]

\* The types of the variables; the bounds of the model play no role.
Types ==
    /\ path \in Versions /\ tmp \in Versions /\ bak \in Versions
    /\ open \in [Actors -> {"none", "tmp", "path", "bak", "gone"}]
    /\ pc \in [Actors -> Places]
    /\ view \in [Actors -> Versions]
    /\ job \in [Actors -> Work]
    /\ made \in Nat
    /\ last \in Versions /\ prev \in Versions
    /\ overlapped \in BOOLEAN
    /\ crashes \in Nat /\ spoils \in Nat /\ lapses \in Nat

\* A file is open only while it is written; who writes has made a state.
AtRest(a) ==
    /\ pc[a] \notin {"recover", "write", "copy"} => open[a] = "none"
    /\ pc[a] \in {"open", "write", "backup", "copy", "rename"} => Valid(job[a].mine)

\* The name of the file that a has open at each place if nobody renames it.
Opened(a) ==
    CASE At(a, "recover") -> "path"
      [] At(a, "write") -> "tmp"
      [] At(a, "copy") -> "bak"
      [] OTHER -> "none"

\* Who is alone at work finds the files as its last step left them.
Solo(a) ==
    job[a].alone =>
        /\ \A b \in Actors \ {a} : At(b, "idle")
        /\ open[a] = Opened(a)
        /\ At(a, "write") => tmp = Empty
        /\ pc[a] \in {"backup", "copy", "rename"} => tmp = job[a].mine

\* Until tasks overlap, everybody is alone at work.
Ordered == overlapped \/ \A a \in Actors : ~At(a, "idle") => job[a].alone

Calm == ~overlapped /\ crashes + spoils + lapses <= 1

\* The backup of a state: none for no state.
Kept(s) == IF s = NoState THEN Absent ELSE s

\* Some write has opened the backup and not renamed its file yet.
Late == \E a \in Actors : pc[a] \in {"copy", "rename"}

\* Before the first fault the file is the last state and the backup the one
\* before, or the last one while a write is between its copy and its rename.
Chained ==
    /\ path = Kept(last)
    /\ ~Late => bak = Kept(prev)
    /\ \A a \in Actors :
        /\ At(a, "copy") => bak = Empty /\ job[a].copied = last
        /\ At(a, "rename") => bak = Kept(last)

\* After one fault the file is one of the last two states, or it was spoiled and
\* the backup is the last but one, unless a write is about to replace the file.
Preserved ==
    /\ last = NoState =>
        path = Absent /\ bak = Absent /\ prev = NoState /\ \A a \in Actors : ~At(a, "copy")
    /\ last # NoState => path # Absent /\ Valid(last)
    /\ prev # NoState => Valid(prev)
    /\ last # NoState /\ Valid(path) => path \in {last, prev}
    /\ last # NoState /\ ~Valid(path) => spoils = 1 /\ (~Late => bak = Kept(prev))
    /\ crashes + spoils + lapses = 0 => Chained

\* What an actor has loaded is what there was.
Remembered(a) ==
    /\ At(a, "recover") => path = Empty /\ job[a].seen = bak /\ Valid(bak)
    /\ At(a, "decide") /\ job[a].task = "edit" /\ job[a].seen = NoState =>
        last = NoState \/ job[a].unread \/ (spoils = 1 /\ prev = NoState)

FilesInv == Calm => Preserved /\ \A a \in Actors : Remembered(a)

IInv ==
    /\ Types /\ Ordered /\ FilesInv
    /\ \A a \in Actors : AtRest(a) /\ Solo(a)


\* A task of actor a begins.
Starts(a) ==
    \E task \in Tasks \ {"none"}, guarded \in BOOLEAN, place \in {"loading", "decide"} :
        Begin(a, task, guarded, place) /\ (place = "decide" => task # "edit")

LEMMA Steps ==
    ASSUME [Next]_vars
    PROVE  \/ \E a \in Actors : \/ Starts(a) \/ Load(a) \/ Recover(a) \/ Return(a) \/ Decide(a)
                                \/ OpenTmp(a) \/ WriteTmp(a) \/ OpenBackup(a) \/ CopyBackup(a) \/ Rename(a)
           \/ Crash \/ Spoil \/ UNCHANGED vars
<1>1. ASSUME NEW a \in Actors, NEW task \in Tasks \ {"none"}, NEW guarded \in BOOLEAN,
             Begin(a, task, guarded, "loading")
      PROVE  Starts(a)
  BY <1>1 DEF Starts
<1>2. ASSUME NEW a \in Actors, NEW task \in {"replace", "ensure"}, Begin(a, task, FALSE, "decide")
      PROVE  Starts(a)
  BY <1>2 DEF Starts, Tasks
<1>3. ASSUME NEW a \in Actors, View(a) \/ Edit(a) \/ Tidy(a) \/ Replace(a) \/ Ensure(a) PROVE Starts(a)
  BY <1>1, <1>2, <1>3 DEF View, Edit, Tidy, Replace, Ensure, Tasks
<1> QED
  BY <1>3 DEF Next

LEMMA VersionsNamed == {Empty, Absent, Mixed, Unreadable, NoState} \subseteq Versions
  BY DEF Versions, Empty, Absent, Mixed, Unreadable, NoState

LEMMA WorkFields ==
    ASSUME NEW w \in Work
    PROVE  /\ w.task \in Tasks /\ w.guarded \in BOOLEAN /\ w.alone \in BOOLEAN /\ w.unread \in BOOLEAN
           /\ w.seen \in Versions /\ w.mine \in Versions /\ w.copied \in Versions
  BY DEF Work

LEMMA WorkMade ==
    /\ NoJob \in Work
    /\ \A task \in Tasks, guarded, alone \in BOOLEAN :
        [NoJob EXCEPT !.task = task, !.guarded = guarded, !.alone = alone] \in Work
    /\ \A v \in Versions, alone \in BOOLEAN : [NoJob EXCEPT !.mine = v, !.alone = alone] \in Work
  BY VersionsNamed DEF NoJob, Work, Tasks

LEMMA WorkChanged ==
    ASSUME NEW w \in Work, NEW v \in Versions
    PROVE  /\ [w EXCEPT !.unread = TRUE] \in Work
           /\ \A unread \in BOOLEAN : [w EXCEPT !.seen = v, !.unread = unread] \in Work
           /\ [w EXCEPT !.copied = v] \in Work
           /\ [w EXCEPT !.alone = FALSE] \in Work
  BY DEF Work

\* What a read makes of the job, and where it leads.
LEMMA LoadChanges ==
    ASSUME Types, NEW b \in Actors, Load(b)
    PROVE  \E v \in Versions, unread \in BOOLEAN :
             /\ job' = [job EXCEPT ![b] = [job[b] EXCEPT !.seen = v, !.unread = unread]]
             /\ \/ /\ pc' = [pc EXCEPT ![b] = "recover"] /\ open' = [open EXCEPT ![b] = "path"]
                   /\ path' = Empty /\ v = bak
                   /\ Valid(bak) /\ ~Valid(path) /\ path # Absent /\ lapses' = lapses
                \/ /\ pc' = [pc EXCEPT ![b] = "decide"] /\ open' = open /\ path' = path
                   /\ v = NoState /\ ~unread => ~Valid(path) /\ (path = Absent \/ ~Valid(bak))
<1> USE DEF Types, At, Goto, Lapse
<1>1. CASE Valid(path) \/ Loaded = NoState
  <2>1. CASE /\ job' = [job EXCEPT ![b].seen = Loaded, ![b].unread = path = Unreadable]
             /\ Goto(b, "decide") /\ UNCHANGED files
    <3>1. Loaded \in Versions
      BY VersionsNamed DEF Loaded
    <3>2. job' = [job EXCEPT ![b] = [job[b] EXCEPT !.seen = Loaded, !.unread = path = Unreadable]]
      BY <2>1
    <3>3. Loaded = NoState /\ path # Unreadable => ~Valid(path) /\ (path = Absent \/ ~Valid(bak))
      BY DEF Loaded, Valid, NoState
    <3> QED
      BY <2>1, <3>1, <3>2, <3>3 DEF files
  <2>2. CASE job' = [job EXCEPT ![b].unread = TRUE] /\ Goto(b, "decide") /\ UNCHANGED files
    <3>1. job' = [job EXCEPT ![b] = [job[b] EXCEPT !.seen = job[b].seen, !.unread = TRUE]]
      BY <2>2 DEF Work
    <3> QED
      BY <2>2, <3>1, WorkFields DEF files
  <2> QED
    BY <1>1, <2>1, <2>2 DEF Load
<1>2. CASE ~Valid(path) /\ Loaded # NoState
  <2>1. path \notin {Absent, Unreadable} /\ Valid(bak)
    BY <1>2 DEF Loaded
  <2>2. CASE job' = [job EXCEPT ![b].seen = bak]
    <3>1. job' = [job EXCEPT ![b] = [job[b] EXCEPT !.seen = bak, !.unread = job[b].unread]]
      BY <2>2 DEF Work
    <3>2. job[b].unread \in BOOLEAN /\ bak # NoState
      BY <2>1, WorkFields DEF Valid, NoState
    <3>3. \/ path' = Empty /\ open' = [open EXCEPT ![b] = "path"] /\ Goto(b, "recover") /\ lapses' = lapses
          \/ Goto(b, "decide") /\ UNCHANGED files
      BY <1>2 DEF Load
    <3> QED
      BY <1>2, <2>1, <3>1, <3>2, <3>3 DEF files
  <2>3. CASE job' = [job EXCEPT ![b].unread = TRUE] /\ Goto(b, "decide") /\ UNCHANGED files
    <3>1. job' = [job EXCEPT ![b] = [job[b] EXCEPT !.seen = job[b].seen, !.unread = TRUE]]
      BY <2>3 DEF Work
    <3> QED
      BY <2>3, <3>1, WorkFields DEF files
  <2> QED
    BY <1>2, <2>2, <2>3 DEF Load
<1> QED
  BY <1>1, <1>2

\* What a read does.
LEMMA LoadIs ==
    ASSUME Types, NEW b \in Actors, Load(b)
    PROVE  /\ pc[b] = "loading"
           /\ tmp' = tmp /\ bak' = bak /\ view' = view /\ made' = made /\ last' = last /\ prev' = prev
           /\ overlapped' = overlapped /\ crashes' = crashes /\ spoils' = spoils
           /\ lapses' \in {lapses, lapses + 1}
           /\ \A a \in Actors :
                job'[a].alone = job[a].alone /\ job'[a].mine = job[a].mine /\ job'[a].task = job[a].task
           /\ \/ /\ pc' = [pc EXCEPT ![b] = "recover"] /\ open' = [open EXCEPT ![b] = "path"]
                 /\ path' = Empty /\ job'[b].seen = bak
                 /\ Valid(bak) /\ ~Valid(path) /\ path # Absent /\ lapses' = lapses
              \/ /\ pc' = [pc EXCEPT ![b] = "decide"] /\ open' = open /\ path' = path
                 /\ job'[b].seen = NoState /\ ~job'[b].unread =>
                        ~Valid(path) /\ (path = Absent \/ ~Valid(bak))
<1>1. /\ pc[b] = "loading"
      /\ tmp' = tmp /\ bak' = bak /\ view' = view /\ made' = made /\ last' = last /\ prev' = prev
      /\ overlapped' = overlapped /\ crashes' = crashes /\ spoils' = spoils
      /\ lapses' \in {lapses, lapses + 1}
  BY DEF Load, At, Goto, Lapse, Types, files, past
<1>2. PICK v \in Versions, unread \in BOOLEAN :
        /\ job' = [job EXCEPT ![b] = [job[b] EXCEPT !.seen = v, !.unread = unread]]
        /\ \/ /\ pc' = [pc EXCEPT ![b] = "recover"] /\ open' = [open EXCEPT ![b] = "path"]
              /\ path' = Empty /\ v = bak
              /\ Valid(bak) /\ ~Valid(path) /\ path # Absent /\ lapses' = lapses
           \/ /\ pc' = [pc EXCEPT ![b] = "decide"] /\ open' = open /\ path' = path
              /\ v = NoState /\ ~unread => ~Valid(path) /\ (path = Absent \/ ~Valid(bak))
  BY LoadChanges
<1>3. \A a \in Actors \ {b} : job'[a] = job[a]
  BY <1>2 DEF Types
<1>4. job'[b] = [job[b] EXCEPT !.seen = v, !.unread = unread]
  BY <1>2 DEF Types
<1>5. /\ job'[b].seen = v /\ job'[b].unread = unread /\ job'[b].alone = job[b].alone
      /\ job'[b].mine = job[b].mine /\ job'[b].task = job[b].task
  BY <1>4 DEF Types, Work
<1> QED
  BY <1>1, <1>2, <1>3, <1>5

\* A copy that ends touches only the file that was opened for it.
LEMMA CopyOpenIs ==
    ASSUME Types, NEW b \in Actors, NEW c \in Versions, CopyOpen(b, c)
    PROVE  /\ path' \in Versions /\ tmp' \in Versions /\ bak' \in Versions
           /\ open' = [open EXCEPT ![b] = "none"]
           /\ lapses' \in {lapses, lapses + 1}
           /\ open[b] # "path" => path' = path
           /\ open[b] # "tmp" => tmp' = tmp
           /\ open[b] # "bak" => bak' = bak
           /\ open[b] = "bak" /\ bak = Empty /\ lapses' = lapses => bak' = c
           /\ open[b] = "path" /\ path = Empty /\ lapses' = lapses => path' = c
<1>1. ASSUME NEW v \in Versions, WriteOpen(b, v)
      PROVE  /\ path' \in Versions /\ tmp' \in Versions /\ bak' \in Versions
             /\ open' = [open EXCEPT ![b] = "none"]
             /\ open[b] # "path" => path' = path
             /\ open[b] # "tmp" => tmp' = tmp
             /\ open[b] # "bak" => bak' = bak
             /\ open[b] = "bak" /\ bak = Empty => bak' = v
             /\ open[b] = "path" /\ path = Empty => path' = v
  BY <1>1, VersionsNamed DEF WriteOpen, Filled, Types
<1>2. CASE WriteOpen(b, c) /\ UNCHANGED lapses
  BY <1>1, <1>2
<1>3. CASE Lapse /\ open' = [open EXCEPT ![b] = "none"] /\ UNCHANGED <<path, tmp, bak>>
  BY <1>3 DEF Lapse, Types
<1>4. CASE Lapse /\ \E part \in {Mixed, Unreadable} : WriteOpen(b, part)
  <2>1. PICK part \in {Mixed, Unreadable} : WriteOpen(b, part)
    BY <1>4
  <2>2. part \in Versions
    BY VersionsNamed
  <2>3. lapses' = lapses + 1 /\ lapses' # lapses
    BY <1>4 DEF Lapse, Types
  <2> QED
    BY <1>1, <2>1, <2>2, <2>3
<1> QED
  BY <1>2, <1>3, <1>4 DEF CopyOpen

\* What the end of a recovery does.
LEMMA RecoverIs ==
    ASSUME Types, NEW b \in Actors, Recover(b)
    PROVE  /\ pc[b] = "recover" /\ pc' = [pc EXCEPT ![b] = "decide"]
           /\ job' = job /\ view' = view /\ made' = made /\ last' = last /\ prev' = prev
           /\ overlapped' = overlapped /\ crashes' = crashes /\ spoils' = spoils
           /\ lapses' \in {lapses, lapses + 1}
           /\ path' \in Versions /\ tmp' \in Versions /\ bak' \in Versions
           /\ open' = [open EXCEPT ![b] = "none"]
           /\ open[b] # "path" => path' = path
           /\ open[b] # "tmp" => tmp' = tmp
           /\ open[b] # "bak" => bak' = bak
           /\ open[b] = "path" /\ path = Empty /\ lapses' = lapses => path' = job[b].seen
<1>1. job[b].seen \in Versions
  BY WorkFields DEF Types
<1> QED
  BY <1>1, CopyOpenIs DEF Recover, At, Goto, past

\* What the start of a backup does.
LEMMA OpenBackupIs ==
    ASSUME Types, NEW b \in Actors, OpenBackup(b)
    PROVE  /\ pc[b] = "backup"
           /\ path' = path /\ tmp' = tmp /\ view' = view /\ made' = made /\ last' = last /\ prev' = prev
           /\ overlapped' = overlapped /\ crashes' = crashes /\ spoils' = spoils
           /\ lapses' \in {lapses, lapses + 1}
           /\ \A a \in Actors : /\ job'[a].alone = job[a].alone /\ job'[a].mine = job[a].mine
                                /\ job'[a].task = job[a].task /\ job'[a].seen = job[a].seen
           /\ \/ /\ pc' = [pc EXCEPT ![b] = "rename"] /\ open' = open /\ bak' = bak /\ job' = job
                 /\ lapses' = lapses => path = Absent
              \/ /\ pc' = [pc EXCEPT ![b] = "copy"] /\ open' = [open EXCEPT ![b] = "bak"]
                 /\ bak' = Empty /\ path # Absent /\ lapses' = lapses /\ job'[b].copied = path
                 /\ job' = [job EXCEPT ![b] = [job[b] EXCEPT !.copied = path]]
<1>1. /\ pc[b] = "backup"
      /\ path' = path /\ tmp' = tmp /\ view' = view /\ made' = made /\ last' = last /\ prev' = prev
      /\ overlapped' = overlapped /\ crashes' = crashes /\ spoils' = spoils
      /\ lapses' \in {lapses, lapses + 1}
  BY DEF OpenBackup, Types, At, files, past, Lapse
<1>2. CASE Goto(b, "rename") /\ UNCHANGED <<files, job>>
  BY <1>1, <1>2 DEF OpenBackup, Goto, files, Lapse, Types
<1>3. CASE ~(Goto(b, "rename") /\ UNCHANGED <<files, job>>)
  <2>1. /\ pc' = [pc EXCEPT ![b] = "copy"] /\ open' = [open EXCEPT ![b] = "bak"]
        /\ bak' = Empty /\ path # Absent /\ lapses' = lapses
        /\ job' = [job EXCEPT ![b] = [job[b] EXCEPT !.copied = path]]
    BY <1>3 DEF OpenBackup, Goto
  <2>2. job'[b] = [job[b] EXCEPT !.copied = path] /\ \A a \in Actors \ {b} : job'[a] = job[a]
    BY <2>1 DEF Types
  <2>3. /\ job'[b].copied = path /\ job'[b].alone = job[b].alone /\ job'[b].mine = job[b].mine
        /\ job'[b].task = job[b].task /\ job'[b].seen = job[b].seen
    BY <2>2 DEF Types, Work
  <2> QED
    BY <1>1, <2>1, <2>2, <2>3
<1> QED
  BY <1>2, <1>3

\* What the end of a backup does.
LEMMA CopyBackupIs ==
    ASSUME Types, NEW b \in Actors, CopyBackup(b)
    PROVE  /\ pc[b] = "copy" /\ pc' = [pc EXCEPT ![b] = "rename"]
           /\ view' = view /\ made' = made /\ last' = last /\ prev' = prev
           /\ overlapped' = overlapped /\ crashes' = crashes /\ spoils' = spoils
           /\ lapses' \in {lapses, lapses + 1}
           /\ job' = [job EXCEPT ![b] = [job[b] EXCEPT !.copied = Absent]]
           /\ \A a \in Actors : /\ job'[a].alone = job[a].alone /\ job'[a].mine = job[a].mine
                                /\ job'[a].task = job[a].task /\ job'[a].seen = job[a].seen
           /\ path' \in Versions /\ tmp' \in Versions /\ bak' \in Versions
           /\ open' = [open EXCEPT ![b] = "none"]
           /\ open[b] # "path" => path' = path
           /\ open[b] # "tmp" => tmp' = tmp
           /\ open[b] # "bak" => bak' = bak
           /\ open[b] = "bak" /\ bak = Empty /\ lapses' = lapses => bak' = job[b].copied
<1>1. /\ pc[b] = "copy" /\ pc' = [pc EXCEPT ![b] = "rename"]
      /\ view' = view /\ made' = made /\ last' = last /\ prev' = prev
      /\ overlapped' = overlapped /\ crashes' = crashes /\ spoils' = spoils
      /\ job' = [job EXCEPT ![b] = [job[b] EXCEPT !.copied = Absent]]
  BY DEF CopyBackup, Types, At, Goto, past
<1>2. job[b].copied \in Versions
  BY WorkFields DEF Types
<1>3. \A a \in Actors : /\ job'[a].alone = job[a].alone /\ job'[a].mine = job[a].mine
                        /\ job'[a].task = job[a].task /\ job'[a].seen = job[a].seen
  BY <1>1 DEF Types, Work
<1>4. CASE job[b].copied = Empty
  BY <1>1, <1>3, <1>4 DEF CopyBackup, Types
<1>5. CASE job[b].copied # Empty
  BY <1>1, <1>2, <1>3, <1>5, CopyOpenIs DEF CopyBackup
<1> QED
  BY <1>4, <1>5

\* What the actors are at keeps its type.
LEMMA JobsStep ==
    ASSUME Types, [Next]_vars
    PROVE  job' \in [Actors -> Work]
<1> USE DEF Types, At, Goto, Places
<1>1. ASSUME NEW b \in Actors, NEW task \in Tasks \ {"none"}, NEW guarded \in BOOLEAN,
              NEW place \in {"loading", "decide"}, Begin(b, task, guarded, place),
              place = "decide" => task # "edit"
      PROVE  job' \in [Actors -> Work]
  BY <1>1, WorkMade, WorkChanged, VersionsNamed DEF Begin, files, faults, Idle
<1>2. ASSUME NEW b \in Actors, Load(b) PROVE job' \in [Actors -> Work]
  <2>1. PICK v \in Versions, unread \in BOOLEAN :
          job' = [job EXCEPT ![b] = [job[b] EXCEPT !.seen = v, !.unread = unread]]
    BY <1>2, LoadChanges
  <2>2. [job[b] EXCEPT !.seen = v, !.unread = unread] \in Work
    BY WorkChanged
  <2> QED
    BY <2>1, <2>2
<1>3. ASSUME NEW b \in Actors, Recover(b) PROVE job' \in [Actors -> Work]
  BY <1>3, RecoverIs
<1>4. ASSUME NEW b \in Actors, Return(b) PROVE job' \in [Actors -> Work]
  BY <1>4, WorkMade DEF Return, files, past, faults, Leave
<1>5. ASSUME NEW b \in Actors, Decide(b) PROVE job' \in [Actors -> Work]
  <2>1. PICK rev \in {0, view[b].rev, job[b].seen.rev} :
          job' = [job EXCEPT ![b] = [NoJob EXCEPT !.mine = [id |-> made + 1, rev |-> rev + 1],
                                                 !.alone = job[b].alone]]
    BY <1>5 DEF Decide
  <2>2. rev \in Nat
    BY WorkFields DEF Versions
  <2>3. [id |-> made + 1, rev |-> rev + 1] \in Versions
    BY <2>2 DEF Versions
  <2> QED
    BY <2>1, <2>3, WorkMade, WorkFields
<1>6. ASSUME NEW b \in Actors, OpenTmp(b) PROVE job' \in [Actors -> Work]
  BY <1>6 DEF OpenTmp, past, faults
<1>7. ASSUME NEW b \in Actors, WriteTmp(b) PROVE job' \in [Actors -> Work]
  BY <1>7, WorkMade DEF WriteTmp, past, faults, WriteOpen, Filled, Leave
<1>8. ASSUME NEW b \in Actors, OpenBackup(b) PROVE job' \in [Actors -> Work]
  <2>1. job' = job \/ job' = [job EXCEPT ![b] = [job[b] EXCEPT !.copied = path]]
    BY <1>8, OpenBackupIs
  <2>2. [job[b] EXCEPT !.copied = path] \in Work
    BY WorkChanged
  <2> QED
    BY <2>1, <2>2
<1>9. ASSUME NEW b \in Actors, CopyBackup(b) PROVE job' \in [Actors -> Work]
  <2>1. job' = [job EXCEPT ![b] = [job[b] EXCEPT !.copied = Absent]]
    BY <1>9, CopyBackupIs
  <2>2. [job[b] EXCEPT !.copied = Absent] \in Work
    BY WorkChanged, VersionsNamed
  <2> QED
    BY <2>1, <2>2
<1>10. ASSUME NEW b \in Actors, Rename(b) PROVE job' \in [Actors -> Work]
  BY <1>10, WorkMade DEF Rename, files, faults, Leave
<1>11. CASE Crash
  BY <1>11, WorkMade DEF Crash, past
<1>12. CASE Spoil
  BY <1>12 DEF Spoil, past
<1>13. CASE UNCHANGED vars
  BY <1>13 DEF vars, files, past, faults
<1> QED
  BY Steps, <1>1, <1>2, <1>3, <1>4, <1>5, <1>6, <1>7, <1>8, <1>9, <1>10, <1>11, <1>12,
      <1>13 DEF Starts

\* The variables keep their types.
LEMMA TypesStep ==
    ASSUME Types, [Next]_vars
    PROVE  Types'
<1> USE DEF Types, At, Goto, Places
<1>1. ASSUME NEW b \in Actors, NEW task \in Tasks \ {"none"}, NEW guarded \in BOOLEAN,
              NEW place \in {"loading", "decide"}, Begin(b, task, guarded, place),
              place = "decide" => task # "edit"
      PROVE  Types'
  BY <1>1, JobsStep DEF Begin, files, faults, Idle
<1>2. ASSUME NEW b \in Actors, Load(b) PROVE Types'
  BY <1>2, LoadIs, JobsStep, VersionsNamed
<1>3. ASSUME NEW b \in Actors, Recover(b) PROVE Types'
  BY <1>3, RecoverIs, JobsStep, WorkFields
<1>4. ASSUME NEW b \in Actors, Return(b) PROVE Types'
  BY <1>4, JobsStep, WorkFields DEF Return, files, past, faults, Leave
<1>5. ASSUME NEW b \in Actors, Decide(b) PROVE Types'
  BY <1>5, JobsStep DEF Decide, files, past, faults
<1>6. ASSUME NEW b \in Actors, OpenTmp(b) PROVE Types'
  BY <1>6, JobsStep, VersionsNamed DEF OpenTmp, past, faults
<1>7. ASSUME NEW b \in Actors, WriteTmp(b) PROVE Types'
  BY <1>7, JobsStep, VersionsNamed, WorkFields DEF WriteTmp, past, faults, WriteOpen,
      Filled, Leave
<1>8. ASSUME NEW b \in Actors, OpenBackup(b) PROVE Types'
  BY <1>8, OpenBackupIs, JobsStep, VersionsNamed
<1>9. ASSUME NEW b \in Actors, CopyBackup(b) PROVE Types'
  BY <1>9, CopyBackupIs, JobsStep, VersionsNamed, WorkFields
<1>10. ASSUME NEW b \in Actors, Rename(b) PROVE Types'
  BY <1>10, JobsStep, VersionsNamed DEF Rename, files, faults, Leave
<1>11. CASE Crash
  BY <1>11, JobsStep, VersionsNamed DEF Crash, past
<1>12. CASE Spoil
  BY <1>12, JobsStep, VersionsNamed DEF Spoil, past
<1>13. CASE UNCHANGED vars
  BY <1>13 DEF vars, files, past, faults
<1> QED
  BY Steps, <1>1, <1>2, <1>3, <1>4, <1>5, <1>6, <1>7, <1>8, <1>9, <1>10, <1>11, <1>12,
      <1>13 DEF Starts

\* An actor comes to rest with everything closed.
LEMMA AtRestStep ==
    ASSUME Types, NEW a \in Actors, AtRest(a), [Next]_vars
    PROVE  AtRest(a)'
<1> USE DEF AtRest, At, Goto, Places, Types, Valid
<1>1. ASSUME NEW b \in Actors, NEW task \in Tasks \ {"none"}, NEW guarded \in BOOLEAN,
              NEW place \in {"loading", "decide"}, Begin(b, task, guarded, place),
              place = "decide" => task # "edit"
      PROVE  AtRest(a)'
  <2>1. CASE a = b
    BY <1>1, <2>1 DEF Begin, files
  <2>2. CASE a # b
    <3>1. job'[a].mine = job[a].mine /\ pc'[a] = pc[a] /\ open'[a] = open[a]
      BY <1>1, <2>2 DEF Begin, files, Work
    <3> QED
      BY <3>1
  <2> QED
    BY <2>1, <2>2
<1>2. ASSUME NEW b \in Actors, Load(b) PROVE AtRest(a)'
  BY <1>2, LoadIs
<1>3. ASSUME NEW b \in Actors, Recover(b) PROVE AtRest(a)'
  BY <1>3, RecoverIs
<1>4. ASSUME NEW b \in Actors, Return(b) PROVE AtRest(a)'
  BY <1>4 DEF Return, files, past, faults, Leave
<1>5. ASSUME NEW b \in Actors, Decide(b) PROVE AtRest(a)'
  BY <1>5 DEF Decide, files, past, faults
<1>6. ASSUME NEW b \in Actors, OpenTmp(b) PROVE AtRest(a)'
  BY <1>6 DEF OpenTmp, past, faults
<1>7. ASSUME NEW b \in Actors, WriteTmp(b) PROVE AtRest(a)'
  BY <1>7 DEF WriteTmp, past, faults, WriteOpen, Filled, Leave
<1>8. ASSUME NEW b \in Actors, OpenBackup(b) PROVE AtRest(a)'
  BY <1>8, OpenBackupIs
<1>9. ASSUME NEW b \in Actors, CopyBackup(b) PROVE AtRest(a)'
  BY <1>9, CopyBackupIs
<1>10. ASSUME NEW b \in Actors, Rename(b) PROVE AtRest(a)'
  BY <1>10 DEF Rename, files, faults, Leave
<1>11. CASE Crash
  BY <1>11 DEF Crash, past
<1>12. CASE Spoil
  BY <1>12 DEF Spoil, past
<1>13. CASE UNCHANGED vars
  BY <1>13 DEF vars, files, past, faults
<1> QED
  BY Steps, <1>1, <1>2, <1>3, <1>4, <1>5, <1>6, <1>7, <1>8, <1>9, <1>10, <1>11, <1>12,
      <1>13 DEF Starts

\* Nobody comes between the steps of a task that runs alone.
LEMMA SoloStep ==
    ASSUME Types, \A b \in Actors : AtRest(b), NEW a \in Actors, Solo(a), [Next]_vars
    PROVE  Solo(a)'
<1> USE DEF Solo, Opened, AtRest, At, Goto, Places, Types, Valid, Work, NoJob
<1>1. ASSUME NEW b \in Actors, NEW task \in Tasks \ {"none"}, NEW guarded \in BOOLEAN,
              NEW place \in {"loading", "decide"}, Begin(b, task, guarded, place),
              place = "decide" => task # "edit"
      PROVE  Solo(a)'
  <2>1. CASE a = b
    <3>1. job'[a].alone <=> Idle
      BY <1>1, <2>1 DEF Begin
    <3> QED
      BY <1>1, <2>1, <3>1 DEF Begin, files, Idle
  <2>2. CASE a # b
    <3>1. ~job'[a].alone
      BY <1>1, <2>2 DEF Begin
    <3> QED
      BY <3>1
  <2> QED
    BY <2>1, <2>2
<1>2. ASSUME NEW b \in Actors, Load(b) PROVE Solo(a)'
  BY <1>2, LoadIs
<1>3. ASSUME NEW b \in Actors, Recover(b) PROVE Solo(a)'
  BY <1>3, RecoverIs
<1>4. ASSUME NEW b \in Actors, Return(b) PROVE Solo(a)'
  BY <1>4 DEF Return, files, past, faults, Leave
<1>5. ASSUME NEW b \in Actors, Decide(b) PROVE Solo(a)'
  BY <1>5 DEF Decide, files, past, faults
<1>6. ASSUME NEW b \in Actors, OpenTmp(b) PROVE Solo(a)'
  BY <1>6 DEF OpenTmp, past, faults
<1>7. ASSUME NEW b \in Actors, WriteTmp(b) PROVE Solo(a)'
  BY <1>7 DEF WriteTmp, past, faults, WriteOpen, Filled, Leave
<1>8. ASSUME NEW b \in Actors, OpenBackup(b) PROVE Solo(a)'
  BY <1>8, OpenBackupIs
<1>9. ASSUME NEW b \in Actors, CopyBackup(b) PROVE Solo(a)'
  BY <1>9, CopyBackupIs
<1>10. ASSUME NEW b \in Actors, Rename(b) PROVE Solo(a)'
  BY <1>10 DEF Rename, files, faults, Leave
<1>11. CASE Crash
  BY <1>11 DEF Crash, past
<1>12. CASE Spoil
  BY <1>12 DEF Spoil, past
<1>13. CASE UNCHANGED vars
  BY <1>13 DEF vars, files, past, faults
<1> QED
  BY Steps, <1>1, <1>2, <1>3, <1>4, <1>5, <1>6, <1>7, <1>8, <1>9, <1>10, <1>11, <1>12,
      <1>13 DEF Starts

\* Everybody is alone until the first overlap.
LEMMA OrderedStep ==
    ASSUME Types, Ordered, [Next]_vars
    PROVE  Ordered'
<1> USE DEF Ordered, At, Goto, Places, Types, Work
<1>1. ASSUME NEW b \in Actors, NEW task \in Tasks \ {"none"}, NEW guarded \in BOOLEAN,
              NEW place \in {"loading", "decide"}, Begin(b, task, guarded, place),
              place = "decide" => task # "edit"
      PROVE  Ordered'
  <2>1. SUFFICES ASSUME ~overlapped', NEW a \in Actors, ~At(a, "idle")' PROVE job'[a].alone
    OBVIOUS
  <2>2. Idle
    BY <1>1, <2>1 DEF Begin
  <2>3. a = b
    BY <1>1, <2>1, <2>2 DEF Begin, Idle
  <2> QED
    BY <1>1, <2>2, <2>3 DEF Begin, NoJob
<1>2. ASSUME NEW b \in Actors, Load(b) PROVE Ordered'
  BY <1>2, LoadIs
<1>3. ASSUME NEW b \in Actors, Recover(b) PROVE Ordered'
  BY <1>3, RecoverIs
<1>4. ASSUME NEW b \in Actors, Return(b) PROVE Ordered'
  BY <1>4 DEF Return, files, past, faults, Leave
<1>5. ASSUME NEW b \in Actors, Decide(b) PROVE Ordered'
  BY <1>5 DEF Decide, files, past, faults
<1>6. ASSUME NEW b \in Actors, OpenTmp(b) PROVE Ordered'
  BY <1>6 DEF OpenTmp, past, faults
<1>7. ASSUME NEW b \in Actors, WriteTmp(b) PROVE Ordered'
  BY <1>7 DEF WriteTmp, past, faults, WriteOpen, Filled, Leave
<1>8. ASSUME NEW b \in Actors, OpenBackup(b) PROVE Ordered'
  BY <1>8, OpenBackupIs
<1>9. ASSUME NEW b \in Actors, CopyBackup(b) PROVE Ordered'
  BY <1>9, CopyBackupIs
<1>10. ASSUME NEW b \in Actors, Rename(b) PROVE Ordered'
  BY <1>10 DEF Rename, files, faults, Leave
<1>11. CASE Crash
  BY <1>11 DEF Crash, past
<1>12. CASE Spoil
  BY <1>12 DEF Spoil, past
<1>13. CASE UNCHANGED vars
  BY <1>13 DEF vars, files, past, faults
<1> QED
  BY Steps, <1>1, <1>2, <1>3, <1>4, <1>5, <1>6, <1>7, <1>8, <1>9, <1>10, <1>11, <1>12,
      <1>13 DEF Starts

\* Faults and overlaps are never taken back.
LEMMA CalmStep ==
    ASSUME Types, [Next]_vars, Calm'
    PROVE  Calm
<1> USE DEF Types, Calm
<1>1. ASSUME NEW b \in Actors, NEW task \in Tasks \ {"none"}, NEW guarded \in BOOLEAN,
              NEW place \in {"loading", "decide"}, Begin(b, task, guarded, place),
              place = "decide" => task # "edit"
      PROVE  Calm
  BY <1>1 DEF Begin, files, faults, Idle
<1>2. ASSUME NEW b \in Actors, Load(b) PROVE Calm
  BY <1>2, LoadIs
<1>3. ASSUME NEW b \in Actors, Recover(b) PROVE Calm
  BY <1>3, RecoverIs
<1>4. ASSUME NEW b \in Actors, Return(b) PROVE Calm
  BY <1>4 DEF Return, files, past, faults, Leave
<1>5. ASSUME NEW b \in Actors, Decide(b) PROVE Calm
  BY <1>5 DEF Decide, files, past, faults
<1>6. ASSUME NEW b \in Actors, OpenTmp(b) PROVE Calm
  BY <1>6 DEF OpenTmp, past, faults
<1>7. ASSUME NEW b \in Actors, WriteTmp(b) PROVE Calm
  BY <1>7 DEF WriteTmp, past, faults, WriteOpen, Filled, Leave
<1>8. ASSUME NEW b \in Actors, OpenBackup(b) PROVE Calm
  BY <1>8, OpenBackupIs
<1>9. ASSUME NEW b \in Actors, CopyBackup(b) PROVE Calm
  BY <1>9, CopyBackupIs
<1>10. ASSUME NEW b \in Actors, Rename(b) PROVE Calm
  BY <1>10 DEF Rename, files, faults, Leave
<1>11. CASE Crash
  BY <1>11 DEF Crash, past
<1>12. CASE Spoil
  BY <1>12 DEF Spoil, past
<1>13. CASE UNCHANGED vars
  BY <1>13 DEF vars, files, past, faults
<1> QED
  BY Steps, <1>1, <1>2, <1>3, <1>4, <1>5, <1>6, <1>7, <1>8, <1>9, <1>10, <1>11, <1>12,
      <1>13 DEF Starts

\* Nobody but a is at work, and a is where it says.
Single(a) ==
    ~At(a, "idle") =>
        /\ \A c \in Actors \ {a} : At(c, "idle") /\ open[c] = "none"
        /\ open[a] = Opened(a)
        /\ At(a, "write") => tmp = Empty
        /\ pc[a] \in {"backup", "copy", "rename"} => tmp = job[a].mine

LEMMA CalmIsSingle ==
    ASSUME Types, Calm, Ordered, \A a \in Actors : AtRest(a) /\ Solo(a)
    PROVE  \A a \in Actors : Single(a)
  BY DEF Types, Calm, Ordered, AtRest, Solo, Single, At

\* One fault costs at most the last write.
LEMMA PreservedStep ==
    ASSUME Types, Calm, Preserved, \A a \in Actors : Remembered(a) /\ AtRest(a) /\ Single(a),
           Calm', [Next]_vars
    PROVE  Preserved'
<1> USE DEF Preserved, Chained, Kept, Late, Calm, Remembered, Single, Opened, AtRest,
    At, Goto, Places, Types, Valid, Empty, Absent, Mixed, Unreadable, NoState
<1>1. ASSUME NEW b \in Actors, NEW task \in Tasks \ {"none"}, NEW guarded \in BOOLEAN,
              NEW place \in {"loading", "decide"}, Begin(b, task, guarded, place),
              place = "decide" => task # "edit"
      PROVE  Preserved'
  BY <1>1 DEF Begin, files, faults, Idle
<1>2. ASSUME NEW b \in Actors, Load(b) PROVE Preserved'
  BY <1>2, LoadIs
<1>3. ASSUME NEW b \in Actors, Recover(b) PROVE Preserved'
  BY <1>3, RecoverIs
<1>4. ASSUME NEW b \in Actors, Return(b) PROVE Preserved'
  BY <1>4 DEF Return, files, past, faults, Leave
<1>5. ASSUME NEW b \in Actors, Decide(b) PROVE Preserved'
  BY <1>5 DEF Decide, files, past, faults
<1>6. ASSUME NEW b \in Actors, OpenTmp(b) PROVE Preserved'
  BY <1>6 DEF OpenTmp, past, faults
<1>7. ASSUME NEW b \in Actors, WriteTmp(b) PROVE Preserved'
  BY <1>7 DEF WriteTmp, past, faults, WriteOpen, Filled, Leave
<1>8. ASSUME NEW b \in Actors, OpenBackup(b) PROVE Preserved'
  BY <1>8, OpenBackupIs
<1>9. ASSUME NEW b \in Actors, CopyBackup(b) PROVE Preserved'
  BY <1>9, CopyBackupIs
<1>10. ASSUME NEW b \in Actors, Rename(b) PROVE Preserved'
  BY <1>10 DEF Rename, files, faults, Leave
<1>11. CASE Crash
  BY <1>11 DEF Crash, past
<1>12. CASE Spoil
  BY <1>12 DEF Spoil, past
<1>13. CASE UNCHANGED vars
  BY <1>13 DEF vars, files, past, faults
<1> QED
  BY Steps, <1>1, <1>2, <1>3, <1>4, <1>5, <1>6, <1>7, <1>8, <1>9, <1>10, <1>11, <1>12,
      <1>13 DEF Starts

\* What was loaded is what there is.
LEMMA RememberedStep ==
    ASSUME Types, Calm, Preserved, \A a \in Actors : Remembered(a) /\ AtRest(a) /\ Single(a),
           Calm', [Next]_vars, NEW a \in Actors
    PROVE  Remembered(a)'
<1> USE DEF Preserved, Chained, Kept, Late, Calm, Remembered, Single, Opened, AtRest,
    At, Goto, Places, Types, Valid, Empty, Absent, Mixed, Unreadable, NoState
<1>1. ASSUME NEW b \in Actors, NEW task \in Tasks \ {"none"}, NEW guarded \in BOOLEAN,
              NEW place \in {"loading", "decide"}, Begin(b, task, guarded, place),
              place = "decide" => task # "edit"
      PROVE  Remembered(a)'
  <2>1. ~At(a, "decide")' \/ job'[a].task # "edit"
    <3>1. CASE a = b
      BY <1>1, <3>1 DEF Begin, NoJob
    <3>2. CASE a # b
      <4>1. At(a, "idle") /\ pc'[a] = pc[a]
        BY <1>1, <3>2 DEF Begin, Idle
      <4> QED
        BY <4>1
    <3> QED
      BY <3>1, <3>2
  <2>2. ~At(a, "recover")'
    BY <1>1 DEF Begin, Idle
  <2> QED
    BY <2>1, <2>2
<1>2. ASSUME NEW b \in Actors, Load(b) PROVE Remembered(a)'
  <2>1. CASE a # b
    BY <1>2, <2>1, LoadIs
  <2>2. CASE a = b
    BY <1>2, <2>2, LoadIs
  <2> QED
    BY <2>1, <2>2
<1>3. ASSUME NEW b \in Actors, Recover(b) PROVE Remembered(a)'
  BY <1>3, RecoverIs
<1>4. ASSUME NEW b \in Actors, Return(b) PROVE Remembered(a)'
  BY <1>4 DEF Return, files, past, faults, Leave
<1>5. ASSUME NEW b \in Actors, Decide(b) PROVE Remembered(a)'
  BY <1>5 DEF Decide, files, past, faults
<1>6. ASSUME NEW b \in Actors, OpenTmp(b) PROVE Remembered(a)'
  BY <1>6 DEF OpenTmp, past, faults
<1>7. ASSUME NEW b \in Actors, WriteTmp(b) PROVE Remembered(a)'
  BY <1>7 DEF WriteTmp, past, faults, WriteOpen, Filled, Leave
<1>8. ASSUME NEW b \in Actors, OpenBackup(b) PROVE Remembered(a)'
  BY <1>8, OpenBackupIs
<1>9. ASSUME NEW b \in Actors, CopyBackup(b) PROVE Remembered(a)'
  BY <1>9, CopyBackupIs
<1>10. ASSUME NEW b \in Actors, Rename(b) PROVE Remembered(a)'
  BY <1>10 DEF Rename, files, faults, Leave
<1>11. CASE Crash
  BY <1>11 DEF Crash, past
<1>12. CASE Spoil
  BY <1>12 DEF Spoil, past
<1>13. CASE UNCHANGED vars
  BY <1>13 DEF vars, files, past, faults
<1> QED
  BY Steps, <1>1, <1>2, <1>3, <1>4, <1>5, <1>6, <1>7, <1>8, <1>9, <1>10, <1>11, <1>12,
      <1>13 DEF Starts

LEMMA InitHolds == Init => IInv
<1> SUFFICES ASSUME Init PROVE IInv
  OBVIOUS
<1>1. Types
  BY VersionsNamed, WorkMade DEF Init, Types, Places
<1>2. Ordered /\ \A a \in Actors : AtRest(a) /\ Solo(a)
  BY DEF Init, Ordered, AtRest, Solo, At, Opened
<1>3. Preserved /\ \A a \in Actors : Remembered(a)
  BY DEF Init, Preserved, Chained, Kept, Late, Remembered, At
<1> QED
  BY <1>1, <1>2, <1>3 DEF IInv, FilesInv

LEMMA StepKeeps == IInv /\ [Next]_vars => IInv'
<1> SUFFICES ASSUME IInv, [Next]_vars PROVE IInv'
  OBVIOUS
<1>1. Types /\ Ordered /\ FilesInv /\ \A a \in Actors : AtRest(a) /\ Solo(a)
  BY DEF IInv
<1>2. Types' /\ Ordered' /\ \A a \in Actors : AtRest(a)' /\ Solo(a)'
  BY <1>1, TypesStep, OrderedStep, AtRestStep, SoloStep
<1>3. ASSUME Calm' PROVE Preserved' /\ \A a \in Actors : Remembered(a)'
  <2>1. Calm
    BY <1>1, <1>3, CalmStep
  <2>2. Preserved /\ \A a \in Actors : Remembered(a) /\ AtRest(a) /\ Single(a)
    BY <1>1, <2>1, CalmIsSingle DEF FilesInv
  <2> QED
    BY <1>1, <1>3, <2>1, <2>2, PreservedStep, RememberedStep
<1> QED
  BY <1>2, <1>3 DEF IInv, FilesInv

\* The files keep to the invariant, for any number of actors and faults.
THEOREM Invariance == Spec => []IInv
<1> QED
  BY InitHolds, StepKeeps, PTL DEF Spec

\* Without overlapping tasks one crash, at any step, one edit by hand or one read or
\* copy that fails costs at most the last write, if one copies the backup by hand
\* when the file is no text (write_persona_memory_state, read_persona_memory_state).
THEOREM OneFaultSurvived == Spec => []SurvivesOneFault
<1>1. ASSUME IInv, Idle, ~overlapped, crashes + spoils + lapses <= 1, bak # Absent
      PROVE  (IF path = Unreadable THEN bak ELSE Loaded) \in {last, prev} \ {NoState}
  <2>1. Preserved
    BY <1>1 DEF IInv, FilesInv, Calm
  <2>2. ~Late
    BY <1>1 DEF Late, Idle, At
  <2> QED
    BY <1>1, <2>1, <2>2 DEF Preserved, Kept, Loaded, Valid, Absent, Unreadable, NoState
<1>2. IInv => SurvivesOneFault
  BY <1>1 DEF SurvivesOneFault
<1> QED
  BY <1>2, Invariance, PTL

\* An edit starts from nothing only if there was nothing, or a file that could not be
\* read, or an edit by hand met a file without a backup, or two faults came
\* together, or tasks overlapped (unwrap_or_default in the tools).
THEOREM EditsRemember == Spec => []NotForgotten
<1>1. ASSUME IInv, NEW a \in Actors, At(a, "decide"), job[a].task = "edit", job[a].seen = NoState
      PROVE  \/ last = NoState \/ job[a].unread \/ overlapped
             \/ crashes + spoils + lapses > 1 \/ (spoils = 1 /\ prev = NoState)
  BY <1>1 DEF IInv, Types, FilesInv, Calm, Remembered
<1>2. IInv => NotForgotten
  BY <1>1 DEF NotForgotten
<1> QED
  BY <1>2, Invariance, PTL

\* A write with nobody else at work is in place when it is answered, whatever
\* crashes and races left behind before (write_persona_memory_state).
THEOREM LoneWriteStored == Spec => AloneIsStored
<1>1. ASSUME IInv, [Next]_vars, NEW a \in Actors, job[a].alone, At(a, "rename"), pc'[a] = "idle",
             crashes' = crashes
      PROVE  path' = job[a].mine
  <2>1. Types /\ AtRest(a) /\ tmp = job[a].mine
    BY <1>1 DEF IInv, Solo, At
  <2>2. Rename(a)
    <3>1. \A b \in Actors \ {a} : At(b, "idle")
      BY <1>1 DEF IInv, Solo
    <3> USE DEF Types, At, Goto, Leave
    <3>2. ~Crash /\ ~Spoil /\ ~UNCHANGED vars
      BY <1>1, <2>1 DEF Crash, Spoil, vars
    <3>3. ASSUME NEW b \in Actors, Starts(b) PROVE FALSE
      BY <1>1, <2>1, <3>3 DEF Starts, Begin
    <3>4. ASSUME NEW b \in Actors, \/ Load(b) \/ Recover(b) \/ Return(b) \/ Decide(b) \/ OpenTmp(b)
                                   \/ WriteTmp(b) \/ OpenBackup(b) \/ CopyBackup(b)
          PROVE  FALSE
      BY <1>1, <2>1, <3>1, <3>4 DEF Load, Recover, Return, Decide, OpenTmp, WriteTmp, OpenBackup, CopyBackup
    <3>5. ASSUME NEW b \in Actors, Rename(b) PROVE b = a
      BY <1>1, <3>1, <3>5 DEF Rename
    <3> QED
      BY <1>1, <3>2, <3>3, <3>4, <3>5, Steps
  <2>3. tmp # Absent
    BY <1>1, <2>1 DEF AtRest, At, Valid, Absent
  <2> QED
    BY <2>1, <2>2, <2>3 DEF Rename
<1>2. IInv /\ [Next]_vars =>
        [\A a \in Actors :
            job[a].alone /\ At(a, "rename") /\ pc'[a] = "idle" /\ crashes' = crashes
            => path' = job[a].mine]_vars
  BY <1>1
<1> QED
  BY <1>2, Invariance, PTL DEF Spec, AloneIsStored


================================================================================
