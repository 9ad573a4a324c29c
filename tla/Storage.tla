------------------------------- MODULE Storage -------------------------------
(***************************************************************************)
(* The storage layer of a UEFI boot, kernel/storage.c: which file system   *)
(* volume the /vita tree is kept on, how that volume is verified, which    *)
(* directories are made on it, and the storage commands of the console     *)
(* with the error they report.                                             *)
(*                                                                         *)
(* storage_bootstrap_persistent_tree tries the volumes the firmware names, *)
(* one after the other, and verifies the one it settles on once more. The  *)
(* commands "storage test" and "storage bootstrap" do all of it again in   *)
(* the middle of a session. Each function is cut into the calls it makes   *)
(* of the medium; they wait in "todo". A volume may become read-only or    *)
(* vanish between any two calls, and a call may fail or, silently, do      *)
(* something else (TextStore).                                             *)
(*                                                                         *)
(* Everything the console reads or prints goes to the session transcript   *)
(* as well, which is a write to the same volume and sets the same          *)
(* last_error: the call "log". Its files are not modelled here, and of the *)
(* lines a command prints only those that precede the report of an error   *)
(* and its last one are logged; the others change nothing that a later     *)
(* call does not set again. A text is one line. The hosted backend has one *)
(* directory and no selection.                                             *)
(***************************************************************************)
EXTENDS TextStore

CONSTANTS
  Candidates,    \* the volumes in the order in which locate_handle names them
  BootVolume,    \* the volume the program was loaded from
  NoVolume,      \* uefi_fs_handle = 0
  Dirs,          \* g_storage_expected_dirs
  Above,         \* the directories that each of them lies in
  Home,          \* the directory of each path
  Trees,         \* what there may be of the directories to begin with
  MAX_CHANGES,   \* bound: changes of a volume's mode
  MAX_FAULTS     \* bound: calls that fail on a volume that is in order

Volume == Range(Candidates) \union {BootVolume}

Path == {"probe", "marker", "test", "user"}
Mode == {"rw", "ro", "gone"}
Node == {"none", "directory", "file"}    \* what there may be under a name

\* The firmware names every volume once.
ASSUME VolumesAssumption ==
  /\ Candidates \in Seq(Volume) /\ Candidates # <<>>
  /\ \A i, j \in DOMAIN Candidates : Candidates[i] = Candidates[j] => i = j
  /\ NoVolume \notin Volume
\* The list begins at the root, and what lies in a directory lies in those above it.
ASSUME TreeAssumption ==
  /\ Dirs \in Seq(Range(Dirs))
  /\ Above \in [Range(Dirs) -> SUBSET Range(Dirs)]
  /\ \A i \in DOMAIN Dirs : Above[Dirs[i]] \subseteq {Dirs[j] : j \in 1..(i - 1)}
  /\ \A d \in Range(Dirs) : \A a \in Above[d] : Above[a] \subseteq Above[d]
  /\ Home \in [Path -> Range(Dirs)]
  /\ Home["marker"] = Home["probe"]    \* both are in /vita/tmp
  /\ Trees \subseteq [Range(Dirs) -> Node]
ASSUME BoundsAssumption  == {MAX_CHANGES, MAX_FAULTS} \subseteq Nat
ASSUME NoFileAssumption  == NoFile # <<"text">>

VARIABLES
  mode,          \* of each volume: "rw", "ro" or "gone"
  tree,          \* what there is on each volume under the name of each directory
  file,          \* the texts on each volume, by path
  uefi_fs_handle, bootstrap_verified, last_error,     \* g_storage
  job,           \* the command being executed
  candidate,     \* the index i of uefi_try_select_writable_fs; 0 outside of it
  todo,          \* the calls the command has still to make
  transcript,    \* the session transcript is active
  result,        \* history: what the last storage command came to
  shown,         \* history: the error the console has printed for it
  faults, changes

g_storage == <<uefi_fs_handle, bootstrap_verified, last_error>>
control   == <<job, candidate, todo>>
medium    == <<mode, tree, file>>
vars      == <<medium, g_storage, control, transcript, result, shown, faults, changes>>

Full == <<"text">>       \* the text that is written, whole

\* The volume that uefi_open_root opens.
Target == IF uefi_fs_handle = NoVolume THEN BootVolume ELSE uefi_fs_handle

\* The calls: of a file, of a directory, and the moves between them.
Call == [op : {"write", "verify", "read"}, path : Path]
          \union [op : {"ensure", "exists", "list"}, path : Range(Dirs)]
          \union [op : {"select", "selected", "accept", "finish", "log", "show", "mismatch"},
                  path : {"none"}]

Simple(op) == [op |-> op, path |-> "none"]
On(op, p)  == [op |-> op, path |-> p]

\* Mutant of Repair: a directory before the one it lies in.
RepairFromLast == [i \in DOMAIN Dirs |-> On("ensure", Dirs[Len(Dirs) + 1 - i])]

\* storage_tree_repair and storage_tree_check: one call for each directory.
Repair == [i \in DOMAIN Dirs |-> On("ensure", Dirs[i])]
Check  == [i \in DOMAIN Dirs |-> On("exists", Dirs[i])]

\* The calls by which a candidate is tried, up to the return from the loop.
Trial == Repair \o <<On("write", "probe"), On("verify", "probe"), Simple("selected")>>

Bootstrap == Repair \o Check \o <<On("write", "marker"), On("verify", "marker"), Simple("accept")>>

\* The calls of each command, after the selection of a volume where there is one.
Calls(j) ==
  CASE j \in {"boot", "bootstrap"} -> Bootstrap
    [] j = "test"   -> Bootstrap \o <<On("write", "test"), On("verify", "test")>>
    [] j = "probe"  -> Repair \o Check \o <<On("write", "test"), On("verify", "test")>>
    [] j = "repair" -> Repair
    [] j = "check"  -> Check
    [] j = "list"   -> <<On("list", Home["user"])>>
    [] j = "write"  -> <<On("write", "user")>>
    [] j = "read"   -> <<On("read", "user")>>

Selects  == {"boot", "bootstrap", "test"}
Commands == {"bootstrap", "test", "probe", "repair", "check", "write", "read", "list"}

\* The commands whose failure is reported with the text of last_error.
Reports == {"bootstrap", "test", "probe", "write", "read", "list"}

Idle == job = "idle"

-----------------------------------------------------------------------------
Init ==
  /\ mode \in [Volume -> Mode]
  /\ tree \in [Volume -> Trees]
  /\ file = [v \in Volume |-> [p \in Path |-> NoFile]]
  /\ uefi_fs_handle = NoVolume /\ bootstrap_verified = FALSE /\ last_error = "ok"
  /\ job = "boot" /\ candidate = 0 /\ todo = <<Simple("select")>>
  /\ transcript = FALSE /\ result = "ok" /\ shown = "nothing"
  /\ faults = 0 /\ changes = 0

\* storage_handle_command: the line has been typed, and is logged first.
Command(j) ==
  /\ Idle
  /\ job' = j
  /\ todo' = <<Simple("log")>> \o (IF j \in Selects THEN <<Simple("select")>>
                                                    ELSE Calls(j) \o <<Simple("finish")>>)
  /\ shown' = "nothing"
  /\ UNCHANGED <<medium, g_storage, candidate, transcript, result, faults, changes>>

\* "storage last-error"
CommandLastError ==
  /\ Idle
  /\ job' = "last-error"
  /\ todo' = <<Simple("log"), Simple("show")>>
  /\ shown' = "nothing"
  /\ UNCHANGED <<medium, g_storage, candidate, transcript, result, faults, changes>>

\* The command is over; kmain starts the transcript on a verified volume.
Return ==
  /\ ~Idle /\ todo = <<>>
  /\ job' = "idle"
  /\ IF job = "boot" THEN transcript' \in {FALSE, bootstrap_verified}
                     ELSE UNCHANGED transcript
  /\ UNCHANGED <<medium, g_storage, candidate, todo, result, shown, faults, changes>>

-----------------------------------------------------------------------------
(* The calls *)

Now(op) == todo # <<>> /\ Head(todo).op = op

\* What is still printed when the command has come to r.
Epilogue(r) ==
  IF job = "boot" THEN <<>>
  ELSE IF r = "failed" /\ job \in Reports THEN <<Simple("log"), Simple("show")>>
  ELSE <<Simple("log")>>

Done ==
  /\ todo' = Tail(todo)
  /\ UNCHANGED <<uefi_fs_handle, bootstrap_verified, candidate, result>>

\* Mutant of Failed: the index stays where it is.
FailedSameCandidate(epilogue) ==
  /\ UNCHANGED bootstrap_verified
  /\ IF candidate \in 1..(Len(Candidates) - 1)
     THEN /\ todo' = Trial
          /\ UNCHANGED <<uefi_fs_handle, candidate, result>>
     ELSE /\ uefi_fs_handle' = IF candidate = 0 THEN uefi_fs_handle ELSE NoVolume
          /\ candidate' = 0
          /\ todo' = epilogue
          /\ result' = "failed"

\* A call has failed: the next candidate is tried, or the command is over.
Failed(epilogue) ==
  /\ UNCHANGED bootstrap_verified
  /\ IF candidate \in 1..(Len(Candidates) - 1)
     THEN /\ candidate' = candidate + 1
          /\ uefi_fs_handle' = Candidates[candidate + 1]
          /\ todo' = Trial
          /\ UNCHANGED result
     ELSE /\ uefi_fs_handle' = IF candidate = 0 THEN uefi_fs_handle ELSE NoVolume
          /\ candidate' = 0
          /\ todo' = epilogue
          /\ result' = "failed"

Fault(cost) == faults + cost <= MAX_FAULTS /\ faults' = faults + cost

Rest == <<job, transcript, shown, changes>>

\* The beginning of storage_bootstrap_persistent_tree, and locate_handle; when
\* that fails, the volume that was selected before stays selected.
Select ==
  /\ Now("select")
  /\ bootstrap_verified' = FALSE
  /\ \/ /\ candidate' = 1 /\ uefi_fs_handle' = Candidates[1]
        /\ todo' = Trial
        /\ Fault(0) /\ UNCHANGED <<result, last_error>>
     \/ /\ Fault(1) /\ last_error' = "error"
        /\ todo' = Epilogue("failed") /\ result' = "failed"
        /\ UNCHANGED <<uefi_fs_handle, candidate>>
  /\ UNCHANGED <<medium, Rest>>

\* Mutant of Selected: what follows is still part of the loop.
SelectedKeepsIndex ==
  /\ Now("selected")
  /\ todo' = Calls(job) \o <<Simple("finish")>>
  /\ last_error' = "ok"
  /\ UNCHANGED <<medium, uefi_fs_handle, bootstrap_verified, candidate, result, faults, Rest>>

\* uefi_try_select_writable_fs returns with a volume.
Selected ==
  /\ Now("selected")
  /\ candidate' = 0
  /\ todo' = Calls(job) \o <<Simple("finish")>>
  /\ last_error' = "ok"
  /\ UNCHANGED <<medium, uefi_fs_handle, bootstrap_verified, result, faults, Rest>>

Reachable(d) == \A a \in Above[d] : tree[Target][a] = "directory"

\* uefi_path_exists, for which a plain file will do.
Exists(d) == mode[Target] # "gone" /\ Reachable(d) /\ tree[Target][d] # "none"

Creatable(d) == mode[Target] = "rw" /\ Reachable(d)

\* The trees with directories ds on the target, where there was nothing.
Made(ds) ==
  [tree EXCEPT ![Target] = [d \in DOMAIN @ |->
     IF d \in ds /\ @[d] = "none" THEN "directory" ELSE @[d]]]

\* uefi_ensure_directory, in storage_tree_repair.
DoEnsure ==
  /\ Now("ensure")
  /\ LET d == Head(todo).path
         possible == Exists(d) \/ Creatable(d)
     IN \/ /\ possible
           /\ tree' = Made({d})
           /\ last_error' = "ok" /\ Done /\ Fault(0)
        \/ /\ last_error' = "error" /\ Failed(Epilogue("failed"))
           /\ UNCHANGED tree
           /\ IF possible THEN Fault(1) ELSE Fault(0)
  /\ UNCHANGED <<mode, file, Rest>>

\* uefi_path_exists, in storage_tree_check: the error is reset by the last one.
DoExists ==
  /\ Now("exists")
  /\ LET d == Head(todo).path
         last == Len(todo) = 1 \/ todo[2].op # "exists"
     IN \/ /\ Exists(d)
           /\ last_error' = IF last THEN "ok" ELSE last_error
           /\ Done /\ Fault(0)
        \/ /\ last_error' = "error" /\ Failed(Epilogue("failed"))
           /\ IF Exists(d) THEN Fault(1) ELSE Fault(0)
  /\ UNCHANGED <<medium, Rest>>

\* uefi_ensure_parent_dirs: the directories on the way to a path; they are made
\* from the root on, so that a failure leaves the upper ones.
Way(p) == Above[Home[p]] \union {Home[p]}
UpperPartsOf(way) == {ds \in SUBSET way : \A d \in ds : Above[d] \subseteq ds}

\* storage_write_text on the volume that is the target now. The directories on
\* the way are made first; a plain file among them lets nothing be written.
DoWrite ==
  /\ Now("write")
  /\ LET p == Head(todo).path
         possible == mode[Target] = "rw" /\ \A d \in Way(p) : tree[Target][d] # "file"
         refused == [ok |-> FALSE, file |-> file[Target][p]]
         asked == IF possible THEN WriteDone(Full) ELSE {refused}
         faulty == IF possible THEN WriteFaults(file[Target][p], Full) ELSE {}
     IN \E r \in asked \union faulty :
          /\ Fault(Cost(r, asked))
          /\ file' = [file EXCEPT ![Target][p] = r.file]
          /\ last_error' = IF r.ok THEN "ok" ELSE "error"
          /\ IF r.ok THEN Done ELSE Failed(Epilogue("failed"))
          /\ IF ~possible THEN UNCHANGED tree
             ELSE \E made \in UpperPartsOf(Way(p)) :
                    /\ made # Way(p) => r = refused
                    /\ tree' = Made(made)
  /\ UNCHANGED <<mode, Rest>>

ReadTarget(p) ==
  IF mode[Target] = "gone" THEN {ReadFault} ELSE ReadDone(file[Target][p], 2)

\* Mutant of DoVerify: what was read is not compared.
DoVerifyReadOnly ==
  /\ Now("verify")
  /\ \E r \in ReadTarget(Head(todo).path) \union {ReadFault} :
       /\ Fault(Cost(r, ReadTarget(Head(todo).path)))
       /\ last_error' = IF r.ok THEN "ok" ELSE "error"
       /\ IF r.ok THEN Done ELSE Failed(Epilogue("failed"))
  /\ UNCHANGED <<medium, Rest>>

\* What is printed when what was read differs: "storage test" and "storage
\* probe" say so themselves, and only the latter sets last_error, after that.
Mismatch ==
  IF job = "test" /\ candidate = 0 /\ Head(todo).path = "test" THEN <<Simple("log")>>
  ELSE IF job = "probe" THEN <<Simple("log"), Simple("mismatch"), Simple("show")>>
  ELSE Epilogue("failed")

\* storage_read_text and the comparison with what was written. Where the tree
\* is bootstrapped, a difference is an error at once.
DoVerify ==
  /\ Now("verify")
  /\ \E r \in ReadTarget(Head(todo).path) \union {ReadFault} :
       /\ Fault(Cost(r, ReadTarget(Head(todo).path)))
       /\ last_error' = IF r.ok /\ (r.text = Full \/ Head(todo).path = "test")
                        THEN "ok" ELSE "error"
       /\ IF r.ok /\ r.text = Full THEN Done
          ELSE IF r.ok THEN Failed(Mismatch)
          ELSE Failed(Epilogue("failed"))
  /\ UNCHANGED <<medium, Rest>>

\* "storage probe" has found a difference.
SetMismatch ==
  /\ Now("mismatch")
  /\ last_error' = "error"
  /\ todo' = Tail(todo)
  /\ UNCHANGED <<medium, uefi_fs_handle, bootstrap_verified, candidate, result, faults, Rest>>

\* The read of "storage read" and "cat".
DoRead ==
  /\ Now("read")
  /\ \E r \in ReadTarget(Head(todo).path) \union {ReadFault} :
       /\ Fault(Cost(r, ReadTarget(Head(todo).path)))
       /\ last_error' = IF r.ok THEN "ok" ELSE "error"
       /\ IF r.ok THEN Done ELSE Failed(Epilogue("failed"))
  /\ UNCHANGED <<medium, Rest>>

\* uefi_list_notes, which opens a plain file as well; when the directory cannot
\* be read to its end, nothing more is printed.
DoList ==
  /\ Now("list")
  /\ LET d == Head(todo).path IN
       \/ /\ Exists(d) /\ last_error' = "ok" /\ Done /\ Fault(0)
       \/ /\ last_error' = "error" /\ Failed(Epilogue("failed"))
          /\ IF Exists(d) THEN Fault(1) ELSE Fault(0)
       \/ /\ Exists(d) /\ last_error' = "error" /\ Failed(<<>>) /\ Fault(1)
  /\ UNCHANGED <<medium, Rest>>

\* The end of storage_bootstrap_persistent_tree.
Accept ==
  /\ Now("accept")
  /\ bootstrap_verified' = TRUE
  /\ last_error' = "ok"
  /\ todo' = Tail(todo)
  /\ UNCHANGED <<medium, uefi_fs_handle, candidate, result, faults, Rest>>

Finish ==
  /\ Now("finish")
  /\ result' = "ok"
  /\ todo' = Epilogue("ok")
  /\ UNCHANGED <<medium, g_storage, candidate, faults, Rest>>

\* A line goes to the transcript: flushv writes, reads back, and gives up for
\* good when that fails.
Log ==
  /\ Now("log")
  /\ todo' = Tail(todo)
  /\ \/ /\ ~transcript /\ Fault(0) /\ UNCHANGED <<transcript, last_error>>
     \/ /\ transcript /\ mode[Target] = "rw"
        /\ last_error' = "ok" /\ Fault(0) /\ UNCHANGED transcript
     \/ /\ transcript /\ (IF mode[Target] = "rw" THEN Fault(1) ELSE Fault(0))
        /\ last_error' = "error" /\ transcript' = FALSE
  /\ UNCHANGED <<medium, uefi_fs_handle, bootstrap_verified, job, candidate, result, shown,
                 changes>>

\* console_write_line(storage_last_error())
ShowError ==
  /\ Now("show")
  /\ todo' = Tail(todo)
  /\ shown' = last_error
  /\ UNCHANGED <<medium, g_storage, job, candidate, transcript, result, faults, changes>>

-----------------------------------------------------------------------------
\* A volume is pulled out, put back, or write-protected.
Change(v, m) ==
  /\ m # mode[v] /\ changes < MAX_CHANGES
  /\ changes' = changes + 1
  /\ mode' = [mode EXCEPT ![v] = m]
  /\ UNCHANGED <<tree, file, g_storage, control, transcript, result, shown, faults>>

Step ==
  \/ Select \/ Selected \/ DoEnsure \/ DoExists \/ DoWrite \/ DoVerify
  \/ DoRead \/ DoList
  \/ SetMismatch \/ Accept \/ Finish \/ Log \/ ShowError
  \/ Return

Next ==
  \/ Step
  \/ \E j \in Commands : Command(j)
  \/ CommandLastError
  \/ \E v \in Volume, m \in Mode : Change(v, m)

Spec == Init /\ [][Next]_vars

\* A command that has begun is carried on; that one is ever given is not assumed.
FairSpec == Spec /\ WF_vars(Step)

-----------------------------------------------------------------------------
(* What must hold *)

\* Every variable stays in its domain, the index of the loop outside of it too.
TypeOK ==
  /\ mode \in [Volume -> Mode] /\ tree \in [Volume -> [Range(Dirs) -> Node]]
  /\ file \in [Volume -> [Path -> {NoFile, <<>>, Full}]]
  /\ uefi_fs_handle \in Volume \union {NoVolume}
  /\ bootstrap_verified \in BOOLEAN /\ last_error \in {"ok", "error"}
  /\ job \in Commands \union {"boot", "last-error", "idle"}
  /\ candidate \in 0..Len(Candidates) /\ (Idle => candidate = 0 /\ todo = <<>>)
  /\ todo \in Seq(Call)
  /\ transcript \in BOOLEAN /\ result \in {"ok", "failed"}
  /\ shown \in {"nothing", "ok", "error"}
  /\ faults \in 0..MAX_FAULTS /\ changes \in 0..MAX_CHANGES

\* Storage that counts as verified is one of the named volumes, with the whole
\* tree and the marker on it, however much of it there was before and however
\* its calls and the other volumes misbehaved. Only on the way to the marker a
\* plain file under the name of a directory would have been noticed.
VerifiedIsMarked ==
  bootstrap_verified =>
    /\ uefi_fs_handle \in Range(Candidates)
    /\ \A d \in Range(Dirs) : tree[uefi_fs_handle][d] # "none"
    /\ \A d \in Way("marker") : tree[uefi_fs_handle][d] = "directory"
    /\ file[uefi_fs_handle]["marker"] = Full

Sound == faults = 0 /\ changes = 0

\* What a volume has to be, and not to have in the way, to be written to.
Writable(i) ==
  /\ mode[Candidates[i]] = "rw"
  /\ \A d \in Range(Dirs) :
       tree[Candidates[i]][d] = "file" => /\ d \notin Way("probe")
                                          /\ \A e \in Range(Dirs) : d \notin Above[e]

\* The first writable volume in the order of the firmware is chosen whenever
\* there is one, and no file is ever written to a volume behind it.
FirstWritableChosen ==
  Sound =>
    /\ Idle => bootstrap_verified = \E i \in DOMAIN Candidates : Writable(i)
    /\ \A i, j \in DOMAIN Candidates :
         i < j /\ Writable(i) => \A p \in Path : file[Candidates[j]][p] = NoFile

\* Every storage command comes to an end, whichever calls fail and whichever
\* volumes come and go.
CommandReturns == ~Idle ~> Idle

\* docs/storage/uefi-usb-write-verification.md:17: "storage last-error" shows the
\* real error. After a command that failed it is not "ok".
LastErrorIsReal == shown = "ok" => result = "ok"
=============================================================================
