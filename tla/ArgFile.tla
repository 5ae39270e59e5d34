------------------------------ MODULE ArgFile ------------------------------
(***************************************************************************)
(* The descriptors and the name of <arg file>: lines 226-231, 264-273,     *)
(* 300-330, 379-412, 585-587, 596-599 and 606-624 of src/xvp.cc.  run() of *)
(* module Xvp is one step here.  Others may change what the name stands    *)
(* for at any time.                                                        *)
(*                                                                         *)
(* Objects are files, directories and symbolic links, all on one device.   *)
(* When one is gone, its last name and its last descriptor, another one    *)
(* may get its inode number.                                               *)
(***************************************************************************)
EXTENDS Integers

CONSTANTS
  Object,     \* what may bear the name
  Type,       \* a function on Object: "REG", "FIFO", "DIR", "LNK"
  Target,     \* what a symbolic link leads to, a function on Object
  Heir,       \* who may get the inode of an object, a function on some
  Stdin,      \* the objects that may be stdin of xvp
  WorldPlaces \* the places of xvp at which others may change the name

none == "none"     \* no object
closed == "closed" \* a descriptor that is not open
null == "/dev/null"

ENOENT == 2
EBADF == 9
EINVAL == 22

ASSUME FileAssumption ==
  /\ \A o \in Object : /\ Type[o] \in {"REG", "FIFO", "DIR", "LNK"}
                       /\ Type[o] = "LNK" => /\ Target[o] \in Object
                                             /\ Type[Target[o]] # "LNK"
  /\ DOMAIN Heir \subseteq Object
  /\ \A o \in DOMAIN Heir :
       /\ Heir[o] \in Object \ DOMAIN Heir
       /\ \A p \in DOMAIN Heir : Heir[p] = Heir[o] => p = o
  /\ Stdin \subseteq {o \in Object : Type[o] # "LNK"} \cup {closed}
  /\ \A o \in DOMAIN Heir : Heir[o] \notin Stdin
  /\ {none, closed, null} \cap Object = {}

VARIABLES
  dash,      \* <arg file> is "-"
  unlinkOpt, \* opt.Unlink_argfile
  viaStdin,  \* opt._Script_stdin
  exists,    \* the objects that have a name somewhere
  name,      \* what script names: an object or none
  fds,       \* the descriptors 0 and 3: an object, null or closed
  fd,        \* fd: -1, 0 or 3
  f_stat,    \* the object that f_stat describes
  pc,
  err,
  stdin0,    \* history: stdin of xvp at its start
  opened,    \* history: what open(2) opened
  source,    \* history: where read(2) reads, "closed" for EBADF
  stdins,    \* history: stdin of every <program>
  removed,   \* history: what unlink(2) removed
  touched,   \* history: others have changed the name
  slipped    \* history: and did so between lstat(2) and unlink(2)

vars == <<dash, unlinkOpt, viaStdin, exists, name, fds, fd, f_stat, pc, err,
          stdin0, opened, source, stdins, removed, touched, slipped>>
opt == <<dash, unlinkOpt>>
history == <<stdin0, opened, source, stdins, removed, touched, slipped>>
disk == <<exists, name>>

Init ==
  /\ dash \in BOOLEAN
  /\ unlinkOpt \in BOOLEAN
  /\ viaStdin = dash
  /\ exists = Object \ {Heir[o] : o \in DOMAIN Heir}
  /\ name \in exists \cup {none}
  /\ stdin0 \in Stdin
  /\ fds = [n \in {0, 3} |-> IF n = 0 THEN stdin0 ELSE closed]
  /\ fd = -1
  /\ f_stat = none
  /\ pc = "open"
  /\ err = 0
  /\ opened = none
  /\ source = none
  /\ stdins = {}
  /\ removed = none
  /\ touched = FALSE
  /\ slipped = FALSE

Resolved(o) ==
  IF o = none \/ Type[o] # "LNK" THEN o
  ELSE IF Target[o] \in exists THEN Target[o] ELSE none

Exit(e) == pc' = "exit" /\ err' = e

(***************************************************************************)
(* open(2) takes the lowest free descriptor.                               *)
(***************************************************************************)
LowestFree == IF fds[0] = closed THEN 0 ELSE 3

OpenUnchecked ==  \* variant: the result of open(2) is not looked at
  /\ pc = "open"
  /\ fd' = LowestFree
  /\ fds' = [fds EXCEPT ![LowestFree] = Resolved(name)]
  /\ opened' = Resolved(name)
  /\ pc' = "fstat"
  /\ UNCHANGED <<opt, viaStdin, disk, f_stat, err, stdin0, source, stdins,
                 removed, touched, slipped>>

Open ==
  /\ pc = "open"
  /\ IF dash
     THEN fd' = 0 /\ pc' = "fstat" /\ UNCHANGED <<fds, err, opened>>
     ELSE IF Resolved(name) = none
     THEN Exit(ENOENT) /\ UNCHANGED <<fds, fd, opened>>
     ELSE /\ fd' = LowestFree
          /\ fds' = [fds EXCEPT ![LowestFree] = Resolved(name)]
          /\ opened' = Resolved(name)
          /\ pc' = "fstat"
          /\ UNCHANGED err
  /\ UNCHANGED <<opt, viaStdin, disk, f_stat, stdin0, source, stdins,
                 removed, touched, slipped>>

(***************************************************************************)
(* fstat(fd) and handle_file_type: fstat never sees a symbolic link.       *)
(***************************************************************************)
FStat ==
  /\ pc = "fstat"
  /\ IF fds[fd] = closed THEN Exit(EBADF) /\ UNCHANGED f_stat
     ELSE /\ f_stat' = fds[fd]
          /\ IF Type[fds[fd]] = "DIR" THEN Exit(EINVAL)
             ELSE pc' = "detect" /\ UNCHANGED err
  /\ UNCHANGED <<opt, viaStdin, disk, fds, fd, history>>

(***************************************************************************)
(* compare_stats(): the inode numbers and the types.                       *)
(***************************************************************************)
SameInode(a, b) ==
  a = b \/ \E o \in DOMAIN Heir : {a, b} = {o, Heir[o]}
SameStat(a, b) == SameInode(a, b) /\ Type[a] = Type[b]

(***************************************************************************)
(* Lines 403-412: <arg file> is stdin when both are the same object; the   *)
(* one that was opened is closed.                                          *)
(***************************************************************************)
DetectNothing ==  \* variant: only "-" is stdin
  /\ pc = "detect"
  /\ pc' = "run"
  /\ UNCHANGED <<opt, viaStdin, disk, fds, fd, f_stat, err, history>>

Detect ==
  /\ pc = "detect"
  /\ IF ~viaStdin /\ fds[0] # closed /\ SameStat(fds[0], f_stat)
     THEN viaStdin' = TRUE /\ fds' = [fds EXCEPT ![fd] = closed] /\ fd' = 0
     ELSE UNCHANGED <<viaStdin, fds, fd>>
  /\ pc' = "run"
  /\ UNCHANGED <<opt, disk, f_stat, err, history>>

(***************************************************************************)
(* do_exec(): stdin of <program>.  fd has O_CLOEXEC unless it is 0.        *)
(***************************************************************************)
StdinOfProgram == IF viaStdin THEN {null, closed} ELSE {fds[0]}

(***************************************************************************)
(* The loop of run() reads fd and may start children.                      *)
(***************************************************************************)
Loop ==
  /\ pc = "run"
  /\ source' = fds[fd]
  /\ \E s \in SUBSET StdinOfProgram : stdins' = stdins \cup s
  /\ pc' = "close"
  /\ UNCHANGED <<opt, viaStdin, disk, fds, fd, f_stat, err, stdin0, opened,
                 removed, touched, slipped>>

CloseOnly ==  \* variant: a way out of run() without delete_script()
  /\ pc = "close"
  /\ fds' = [fds EXCEPT ![fd] = closed]
  /\ fd' = -1
  /\ pc' = "exec"
  /\ UNCHANGED <<opt, viaStdin, disk, f_stat, err, history>>

Close ==
  /\ pc = "close"
  /\ fds' = [fds EXCEPT ![fd] = closed]
  /\ fd' = -1
  /\ pc' = IF viaStdin \/ ~unlinkOpt THEN "exec" ELSE "lstat"
  /\ UNCHANGED <<opt, viaStdin, disk, f_stat, err, history>>

(***************************************************************************)
(* delete_script(): what bears the name now is compared with what was      *)
(* read; then the name is removed, in another system call, which refuses   *)
(* directories and fails when there is no such name any more.              *)
(***************************************************************************)
LStatOfType ==  \* variant: any regular file
  /\ pc = "lstat"
  /\ pc' = IF name # none /\ Type[name] = "REG" THEN "unlink" ELSE "exec"
  /\ UNCHANGED <<opt, viaStdin, disk, fds, fd, f_stat, err, history>>

LStat ==
  /\ pc = "lstat"
  /\ pc' = IF name # none /\ SameStat(name, f_stat) /\ Type[name] = "REG"
           THEN "unlink" ELSE "exec"
  /\ UNCHANGED <<opt, viaStdin, disk, fds, fd, f_stat, err, history>>

Unlink ==
  /\ pc = "unlink"
  /\ IF name # none /\ Type[name] # "DIR"
     THEN removed' = name /\ name' = none
     ELSE UNCHANGED <<removed, name>>
  /\ pc' = "exec"
  /\ UNCHANGED <<opt, viaStdin, exists, fds, fd, f_stat, err, stdin0, opened,
                 source, stdins, touched, slipped>>

(***************************************************************************)
(* The last execution, by xvp itself, or no execution.                     *)
(***************************************************************************)
Exec ==
  /\ pc = "exec"
  /\ \E s \in SUBSET StdinOfProgram : stdins' = stdins \cup s
  /\ pc' = "exit"
  /\ UNCHANGED <<opt, viaStdin, disk, fds, fd, f_stat, err, stdin0, opened,
                 source, removed, touched, slipped>>

(***************************************************************************)
(* Someone else renames, links or unlinks; or removes an object for good,  *)
(* and the next one that is created gets its inode.                        *)
(***************************************************************************)
Held == {fds[0], fds[3]}

Renamed == name' \in exists \cup {none} /\ UNCHANGED exists

Recreated ==
  \E o \in DOMAIN Heir :
    /\ o \in exists \ Held
    /\ exists' = (exists \ {o}) \cup {Heir[o]}
    /\ name' \in exists' \cup {none}

World ==
  /\ pc \in WorldPlaces
  /\ Renamed \/ Recreated
  /\ touched' = TRUE
  /\ slipped' = (slipped \/ pc = "unlink")
  /\ UNCHANGED <<opt, viaStdin, fds, fd, f_stat, pc, err, stdin0, opened,
                 source, stdins, removed>>

Done == pc = "exit" /\ UNCHANGED vars

Next == Open \/ FStat \/ Detect \/ Loop \/ Close \/ LStat \/ Unlink \/ Exec
          \/ World \/ Done

Spec == Init /\ [][Next]_vars

----------------------------------------------------------------------------
TypeOK ==
  /\ dash \in BOOLEAN /\ unlinkOpt \in BOOLEAN /\ viaStdin \in BOOLEAN
  /\ exists \subseteq Object
  /\ name \in exists \cup {none}
  /\ fds \in [{0, 3} -> Object \cup {closed}]
  /\ fd \in {-1, 0, 3}
  /\ f_stat \in Object \cup {none}
  /\ pc \in {"open", "fstat", "detect", "run", "close", "lstat", "unlink",
             "exec", "exit"}
  /\ err \in {0, ENOENT, EBADF, EINVAL}
  /\ opened \in Object \cup {none}
  /\ source \in Object \cup {none, closed}
  /\ stdins \subseteq Object \cup {null, closed}
  /\ removed \in Object \cup {none}
  /\ touched \in BOOLEAN /\ slipped \in BOOLEAN

(***************************************************************************)
(* "child processes are isolated from current stdin" (README.md:38): no    *)
(* <program> gets the object that xvp reads as its stdin.                  *)
(***************************************************************************)
Isolated == f_stat # none => f_stat \notin stdins

(***************************************************************************)
(* -u removes the regular file that was read and nothing else, whatever    *)
(* the name came to stand for before lstat(2) looked (line 325).  Two      *)
(* races are left: a change between lstat(2) and unlink(2) (line 329), and *)
(* a regular file under the inode of the one that was read, which was gone *)
(* after it was closed (line 585).                                         *)
(***************************************************************************)
InodeReused == opened \in DOMAIN Heir /\ opened \notin exists
RemovesOnlyArgFile ==
  removed # none /\ ~slipped =>
    /\ Type[removed] = "REG"
    /\ removed = opened \/ (InodeReused /\ removed = Heir[opened])

(***************************************************************************)
(* "option -u is ignored" (README.md:36) when <arg file> is stdin, under   *)
(* the name "-" or its own: no race makes xvp remove a name then.          *)
(***************************************************************************)
KeepsStdin ==
  removed # none => /\ ~dash /\ opened # stdin0
                    /\ removed = stdin0 => slipped

(***************************************************************************)
(* A file that xvp may delete is gone when it ends, unless others moved    *)
(* the name.                                                               *)
(***************************************************************************)
Removes ==
  pc = "exit" /\ ~touched /\ unlinkOpt /\ opened # none /\ opened # stdin0
    /\ Type[opened] = "REG" => name # opened

(***************************************************************************)
(* "executes program against NUL-separated argument list in file"          *)
(* (README.md:3): the list is read from the file that was opened.          *)
(***************************************************************************)
ReadsArgFile == source # none => source # closed
=============================================================================
