---------------------------- MODULE ArgFileProof ----------------------------
(***************************************************************************)
(* Proofs about ArgFile, for any objects, names, stdins and interference.  *)
(***************************************************************************)
EXTENDS ArgFile, TLAPS

(***************************************************************************)
(* The heir of an object exists exactly when that one is gone.             *)
(***************************************************************************)
HeirInv == \A o \in DOMAIN Heir : Heir[o] \in exists <=> o \notin exists

(***************************************************************************)
(* What was opened existed then; its predecessor has been gone ever since. *)
(***************************************************************************)
OpenedInv ==
  /\ opened # none => \A o \in DOMAIN Heir : Heir[o] = opened => o \notin exists
  /\ dash => viaStdin

(***************************************************************************)
(* The descriptors, while they are open.                                   *)
(***************************************************************************)
DescriptorInv ==
  /\ stdin0 \in Stdin
  /\ pc = "open" => /\ fds[0] = stdin0 /\ fds[3] = closed
                    /\ viaStdin = dash /\ opened = none
                    /\ f_stat = none /\ stdins = {} /\ removed = none
  /\ pc \in {"fstat", "detect"} => fd \in {0, 3} /\ stdins = {}
  /\ pc = "fstat" => f_stat = none /\ viaStdin = dash
  /\ pc = "detect" => f_stat \in Object /\ viaStdin = dash
  /\ pc \in {"fstat", "detect"} /\ dash => fd = 0
  /\ pc \in {"fstat", "detect"} /\ ~dash =>
       fds[fd] = opened /\ opened \in Object
  /\ pc = "detect" => fds[fd] = f_stat
  /\ pc \in {"fstat", "detect"} /\ stdin0 # closed => fds[0] = stdin0
  /\ pc \in {"fstat", "detect"} /\ ~dash /\ stdin0 = closed => fd = 0
  /\ pc \in {"fstat", "detect"} /\ ~dash /\ stdin0 # closed => fd = 3

(***************************************************************************)
(* Once the stdin of xvp is told from <arg file>: only a file under a      *)
(* descriptor of its own may be deleted, and programs get another object.  *)
(***************************************************************************)
Late == {"run", "close", "lstat", "unlink", "exec"}

ApartInv ==
  /\ pc \in Late => f_stat \in Object
  /\ pc \in Late /\ ~viaStdin => /\ fds[0] # f_stat
                                 /\ opened = f_stat /\ opened # stdin0
  /\ pc \in {"run", "close"} => fd \in {0, 3}
  /\ pc \in {"run", "close"} /\ ~viaStdin => fd = 3
  /\ pc \in {"lstat", "unlink"} => ~viaStdin /\ unlinkOpt
  /\ f_stat \notin stdins

(***************************************************************************)
(* Between lstat(2) and unlink(2).                                         *)
(***************************************************************************)
WindowInv ==
  pc = "unlink" /\ ~slipped =>
    name # none /\ SameStat(name, f_stat) /\ Type[name] = "REG"

RemovedInv ==
  removed # none => ~dash /\ opened # stdin0 /\ opened \in Object

FileInv == TypeOK /\ HeirInv /\ OpenedInv /\ DescriptorInv /\ ApartInv
             /\ WindowInv /\ RemovedInv /\ RemovesOnlyArgFile /\ KeepsStdin

LEMMA FileInit == Init => FileInv
<1> SUFFICES ASSUME Init PROVE FileInv
  OBVIOUS
<1> USE FileAssumption DEF Init, none, closed, null
<1>1. TypeOK
  <2>1. fds \in [{0, 3} -> Object \cup {closed}] /\ fd \in {-1, 0, 3}
    OBVIOUS
  <2>2. exists \subseteq Object
    OBVIOUS
  <2> QED BY <2>1, <2>2 DEF TypeOK
<1>2. HeirInv
  <2> SUFFICES ASSUME NEW o \in DOMAIN Heir
               PROVE  Heir[o] \notin exists /\ o \in exists
    BY DEF HeirInv
  <2>1. Heir[o] \notin exists
    OBVIOUS
  <2>2. \A p \in DOMAIN Heir : Heir[p] # o
    OBVIOUS
  <2>3. o \in exists
    BY <2>2
  <2> QED BY <2>1, <2>3
<1>3. DescriptorInv
  <2>1. fds[0] = stdin0 /\ fds[3] = closed
    OBVIOUS
  <2> QED BY <2>1 DEF DescriptorInv
<1>4. OpenedInv /\ ApartInv /\ WindowInv /\ RemovedInv /\ RemovesOnlyArgFile
        /\ KeepsStdin
  BY DEF OpenedInv, ApartInv, WindowInv, RemovedInv, RemovesOnlyArgFile,
    KeepsStdin, Late
<1> QED BY <1>1, <1>2, <1>3, <1>4 DEF FileInv

LEMMA FileOpen == FileInv /\ Open => FileInv'
<1> SUFFICES ASSUME FileInv, Open PROVE FileInv'
  OBVIOUS
<1> USE FileAssumption DEF none, closed, null, ENOENT
<1>1. Resolved(name) = none \/ Resolved(name) \in exists
  BY DEF Resolved, FileInv, TypeOK
<1>2. TypeOK'
  <2>1. fds' \in [{0, 3} -> Object \cup {closed}]
    BY <1>1 DEF Open, FileInv, TypeOK, LowestFree
  <2>2. name' \in exists' \cup {none} /\ exists' \subseteq Object
    BY DEF Open, disk, FileInv, TypeOK
  <2>3. opened' \in Object \cup {none} /\ fd' \in {-1, 0, 3}
    BY <1>1 DEF Open, FileInv, TypeOK, LowestFree
  <2> QED BY <2>1, <2>2, <2>3 DEF Open, FileInv, TypeOK, Exit, opt
<1>3. HeirInv' /\ OpenedInv'
  BY <1>1 DEF Open, FileInv, TypeOK, HeirInv, OpenedInv, DescriptorInv, opt, disk
<1>4. DescriptorInv'
  BY <1>1 DEF Open, FileInv, TypeOK, DescriptorInv, Exit, opt, LowestFree
<1>5. ApartInv' /\ WindowInv' /\ RemovedInv' /\ RemovesOnlyArgFile'
        /\ KeepsStdin'
  BY DEF Open, FileInv, TypeOK, DescriptorInv, ApartInv, WindowInv, RemovedInv,
    RemovesOnlyArgFile, KeepsStdin, Exit, opt, Late
<1> QED BY <1>2, <1>3, <1>4, <1>5 DEF FileInv

LEMMA FileFStat == FileInv /\ FStat => FileInv'
<1> SUFFICES ASSUME FileInv, FStat PROVE FileInv'
  OBVIOUS
<1> USE FileAssumption DEF none, closed, null, FStat, opt, disk, history, Exit
<1>1. TypeOK'
  BY DEF FileInv, TypeOK, DescriptorInv, EBADF, EINVAL
<1>2. HeirInv' /\ OpenedInv' /\ WindowInv' /\ RemovedInv'
        /\ RemovesOnlyArgFile' /\ KeepsStdin'
  BY DEF FileInv, HeirInv, OpenedInv, WindowInv, RemovedInv,
    RemovesOnlyArgFile, InodeReused, KeepsStdin
<1>3. DescriptorInv'
  BY DEF FileInv, TypeOK, DescriptorInv
<1>4. ApartInv'
  BY DEF FileInv, TypeOK, DescriptorInv, ApartInv, Late
<1> QED BY <1>1, <1>2, <1>3, <1>4 DEF FileInv

LEMMA FileDetect == FileInv /\ Detect => FileInv'
<1> SUFFICES ASSUME FileInv, Detect PROVE FileInv'
  OBVIOUS
<1> USE FileAssumption DEF none, closed, null, Detect, opt, disk, history
<1>1. TypeOK'
  <2>1. fds' \in [{0, 3} -> Object \cup {closed}] /\ fd' \in {-1, 0, 3}
    BY DEF FileInv, TypeOK, DescriptorInv
  <2>2. /\ UNCHANGED <<opt, disk, f_stat, err, history>>
        /\ pc' = "run" /\ viaStdin' \in BOOLEAN
    BY DEF FileInv, TypeOK
  <2> HIDE DEF Detect
  <2> QED
    BY <2>1, <2>2 DEF FileInv, TypeOK
<1>2. HeirInv' /\ OpenedInv' /\ WindowInv' /\ RemovedInv'
        /\ RemovesOnlyArgFile' /\ KeepsStdin'
  BY DEF FileInv, HeirInv, OpenedInv, WindowInv, RemovedInv,
    RemovesOnlyArgFile, InodeReused, KeepsStdin
<1>3. DescriptorInv'
  BY DEF FileInv, DescriptorInv
<1>4. ApartInv'
  <2>1. ASSUME ~viaStdin'
        PROVE  /\ fds'[0] # f_stat /\ opened = f_stat /\ opened # stdin0
               /\ fd' = 3
    <3>1. ~dash /\ opened = f_stat /\ fds[fd] = f_stat /\ f_stat \in Object
      BY <2>1 DEF FileInv, DescriptorInv
    <3>2. fds[0] = closed \/ ~SameStat(fds[0], f_stat)
      BY <2>1
    <3>3. fds[0] # f_stat
      BY <3>1, <3>2 DEF SameStat, SameInode
    <3>4. stdin0 # closed /\ fds[0] = stdin0 /\ fd = 3
      BY <3>1, <3>3 DEF FileInv, DescriptorInv
    <3> QED BY <2>1, <3>1, <3>3, <3>4
  <2>2. f_stat' \in Object /\ f_stat' \notin stdins' /\ fd' \in {0, 3}
    BY DEF FileInv, DescriptorInv
  <2> QED BY <2>1, <2>2 DEF ApartInv, Late
<1> QED BY <1>1, <1>2, <1>3, <1>4 DEF FileInv

LEMMA FileLoop == FileInv /\ Loop => FileInv'
<1> SUFFICES ASSUME FileInv, Loop PROVE FileInv'
  OBVIOUS
<1> USE FileAssumption DEF none, closed, null, Loop, opt, disk
<1>1. PICK s \in SUBSET StdinOfProgram : stdins' = stdins \cup s
  OBVIOUS
<1>2. fds[fd] \in Object \cup {closed} /\ fds[0] \in Object \cup {closed}
  BY DEF FileInv, TypeOK, ApartInv
<1>3. TypeOK'
  <2>1. stdins' \subseteq Object \cup {null, closed}
    <3>1. StdinOfProgram \subseteq Object \cup {null, closed}
      BY <1>2 DEF StdinOfProgram
    <3>2. stdins \subseteq Object \cup {null, closed}
      BY DEF FileInv, TypeOK
    <3> QED BY <1>1, <3>1, <3>2
  <2>2. source' \in Object \cup {none, closed}
    BY <1>2
  <2> QED BY <2>1, <2>2 DEF FileInv, TypeOK
<1>4. f_stat' \notin stdins'
  BY <1>1 DEF FileInv, ApartInv, Late, StdinOfProgram
<1>5. HeirInv' /\ OpenedInv' /\ WindowInv' /\ RemovedInv' /\ DescriptorInv'
        /\ RemovesOnlyArgFile' /\ KeepsStdin'
  BY DEF FileInv, HeirInv, OpenedInv, WindowInv, RemovedInv, DescriptorInv,
    RemovesOnlyArgFile, InodeReused, KeepsStdin
<1>6. ApartInv'
  BY <1>4 DEF FileInv, ApartInv, Late
<1> QED BY <1>3, <1>5, <1>6 DEF FileInv

LEMMA FileClose == FileInv /\ Close => FileInv'
<1> SUFFICES ASSUME FileInv, Close PROVE FileInv'
  OBVIOUS
<1> USE FileAssumption DEF none, closed, null, Close, opt, disk, history
<1>1. TypeOK'
  BY DEF FileInv, TypeOK, ApartInv
<1>2. HeirInv' /\ OpenedInv' /\ WindowInv' /\ RemovedInv' /\ DescriptorInv'
        /\ RemovesOnlyArgFile' /\ KeepsStdin'
  BY DEF FileInv, HeirInv, OpenedInv, WindowInv, RemovedInv, DescriptorInv,
    RemovesOnlyArgFile, InodeReused, KeepsStdin
<1>3. ApartInv'
  BY DEF FileInv, TypeOK, ApartInv, Late
<1> QED BY <1>1, <1>2, <1>3 DEF FileInv

LEMMA FileLStat == FileInv /\ LStat => FileInv'
<1> SUFFICES ASSUME FileInv, LStat PROVE FileInv'
  OBVIOUS
<1> USE DEF LStat, opt, disk, history
<1>1. TypeOK' /\ HeirInv' /\ OpenedInv' /\ RemovedInv' /\ DescriptorInv'
        /\ RemovesOnlyArgFile' /\ KeepsStdin'
  BY DEF FileInv, TypeOK, HeirInv, OpenedInv, RemovedInv, DescriptorInv,
    RemovesOnlyArgFile, InodeReused, KeepsStdin
<1>2. WindowInv'
  BY DEF WindowInv, SameStat, SameInode
<1>3. ApartInv'
  BY DEF FileInv, ApartInv, Late
<1> QED BY <1>1, <1>2, <1>3 DEF FileInv

(***************************************************************************)
(* What has the inode of the file that was read, and a name, is that file  *)
(* or its heir, and in the second case the file itself is gone.            *)
(***************************************************************************)
LEMMA SameStatIsFileOrHeir ==
  ASSUME FileInv, opened \in Object, name # none, SameStat(name, opened)
  PROVE  name = opened \/ (InodeReused /\ name = Heir[opened])
<1> USE FileAssumption DEF none
<1>1. name \in exists
  BY DEF FileInv, TypeOK
<1>2. ASSUME name # opened
      PROVE  InodeReused /\ name = Heir[opened]
  <2>1. PICK o \in DOMAIN Heir : {name, opened} = {o, Heir[o]}
    BY <1>2 DEF SameStat, SameInode
  <2>2. CASE o = name
    <3>1. Heir[o] = opened
      BY <2>1, <2>2, <1>2
    <3> QED BY <3>1, <2>2, <1>1 DEF FileInv, OpenedInv
  <2>3. CASE o = opened
    <3>1. Heir[o] = name
      BY <2>1, <2>3, <1>2
    <3> QED BY <3>1, <2>3, <1>1 DEF FileInv, HeirInv, InodeReused
  <2> QED BY <2>1, <2>2, <2>3
<1> QED BY <1>2

LEMMA FileUnlink == FileInv /\ Unlink => FileInv'
<1> SUFFICES ASSUME FileInv, Unlink PROVE FileInv'
  OBVIOUS
<1> USE FileAssumption DEF none, closed, null, Unlink, opt
<1>1. ~viaStdin /\ ~dash /\ opened = f_stat /\ opened # stdin0
        /\ opened \in Object /\ stdin0 \in Stdin
  BY DEF FileInv, ApartInv, Late, OpenedInv, DescriptorInv
<1>2. ASSUME ~slipped
      PROVE  /\ name # none /\ Type[name] = "REG"
             /\ name = opened \/ (InodeReused /\ name = Heir[opened])
  <2>1. name # none /\ Type[name] = "REG" /\ SameStat(name, opened)
    BY <1>1, <1>2 DEF FileInv, WindowInv
  <2> QED BY <1>1, <2>1, SameStatIsFileOrHeir
<1>3. TypeOK'
  BY DEF FileInv, TypeOK
<1>4. HeirInv' /\ OpenedInv' /\ WindowInv' /\ DescriptorInv'
  BY DEF FileInv, HeirInv, OpenedInv, WindowInv, DescriptorInv
<1>5. ApartInv' /\ RemovedInv'
  BY <1>1 DEF FileInv, ApartInv, RemovedInv, Late
<1>6. CASE removed' = removed
  <2>1. RemovesOnlyArgFile' /\ KeepsStdin'
    BY <1>6 DEF FileInv, RemovesOnlyArgFile, InodeReused, KeepsStdin
  <2> QED BY <1>3, <1>4, <1>5, <2>1 DEF FileInv
<1>7. CASE removed' = name
  <2>1. RemovesOnlyArgFile'
    BY <1>7, <1>2 DEF RemovesOnlyArgFile, InodeReused
  <2>2. KeepsStdin'
    BY <1>7, <1>1, <1>2 DEF KeepsStdin, InodeReused
  <2> QED BY <1>3, <1>4, <1>5, <2>1, <2>2 DEF FileInv
<1> QED BY <1>6, <1>7

LEMMA FileExec == FileInv /\ Exec => FileInv'
<1> SUFFICES ASSUME FileInv, Exec PROVE FileInv'
  OBVIOUS
<1> USE FileAssumption DEF none, closed, null, Exec, opt, disk
<1>1. PICK s \in SUBSET StdinOfProgram : stdins' = stdins \cup s
  OBVIOUS
<1>2. TypeOK'
  <2>1. fds[0] \in Object \cup {closed}
    BY DEF FileInv, TypeOK
  <2>2. stdins' \subseteq Object \cup {null, closed}
    BY <1>1, <2>1 DEF FileInv, TypeOK, StdinOfProgram
  <2> QED BY <2>2 DEF FileInv, TypeOK
<1>3. f_stat' \notin stdins'
  BY <1>1 DEF FileInv, ApartInv, Late, StdinOfProgram
<1>4. HeirInv' /\ OpenedInv' /\ WindowInv' /\ RemovedInv' /\ DescriptorInv'
        /\ RemovesOnlyArgFile' /\ KeepsStdin'
  BY DEF FileInv, HeirInv, OpenedInv, WindowInv, RemovedInv, DescriptorInv,
    RemovesOnlyArgFile, InodeReused, KeepsStdin
<1>5. ApartInv'
  BY <1>3 DEF ApartInv, Late
<1> QED BY <1>2, <1>4, <1>5 DEF FileInv

(***************************************************************************)
(* Others only ever replace an object by its heir.                         *)
(***************************************************************************)
LEMMA FileWorld == FileInv /\ World => FileInv'
<1> SUFFICES ASSUME FileInv, World PROVE FileInv'
  OBVIOUS
<1> USE FileAssumption DEF none, closed, null, World, opt
<1>1. \/ exists' = exists
      \/ \E o \in DOMAIN Heir : /\ o \in exists
                               /\ exists' = (exists \ {o}) \cup {Heir[o]}
  BY DEF Renamed, Recreated
<1>2. name' \in exists' \cup {none}
  BY DEF Renamed, Recreated
<1>3. exists' \subseteq Object
  BY <1>1 DEF FileInv, TypeOK
<1>4. \A o \in DOMAIN Heir : o \notin exists => o \notin exists'
  BY <1>1
<1>5. TypeOK'
  BY <1>2, <1>3 DEF FileInv, TypeOK
<1>6. HeirInv'
  BY <1>1 DEF FileInv, HeirInv
<1>7. OpenedInv' /\ DescriptorInv' /\ ApartInv' /\ RemovedInv'
  BY <1>4 DEF FileInv, OpenedInv, DescriptorInv, ApartInv, RemovedInv, Late
<1>8. WindowInv'
  BY DEF WindowInv
<1>9. RemovesOnlyArgFile' /\ KeepsStdin'
  BY <1>4 DEF FileInv, RemovesOnlyArgFile, InodeReused, KeepsStdin
<1> QED BY <1>5, <1>6, <1>7, <1>8, <1>9 DEF FileInv

LEMMA FileStep == FileInv /\ [Next]_vars => FileInv'
<1> SUFFICES ASSUME FileInv, [Next]_vars PROVE FileInv'
  OBVIOUS
<1>1. CASE UNCHANGED vars
  BY <1>1 DEF vars, FileInv, TypeOK, HeirInv, OpenedInv, DescriptorInv,
    ApartInv, WindowInv, RemovedInv, RemovesOnlyArgFile, InodeReused,
    KeepsStdin, SameStat, SameInode
<1>2. CASE Done
  BY <1>1, <1>2 DEF Done
<1> QED
  BY <1>1, <1>2, FileOpen, FileFStat, FileDetect, FileLoop, FileClose,
     FileLStat, FileUnlink, FileExec, FileWorld DEF Next

(***************************************************************************)
(* Whatever others do with the name and the inodes, the descriptors, the   *)
(* name and the file that was read stay in step from open(2) to            *)
(* delete_script() (xvp.cc:379-412, 585-604).                              *)
(***************************************************************************)
THEOREM FileInvariant == Spec => []FileInv
<1>1. Init => FileInv
  BY FileInit
<1>2. FileInv /\ [Next]_vars => FileInv'
  BY FileStep
<1> QED BY <1>1, <1>2, PTL DEF Spec

(***************************************************************************)
(* Every variable keeps its type; the name always stands for something     *)
(* that exists.                                                            *)
(***************************************************************************)
THEOREM FileTypeCorrect == Spec => []TypeOK
<1>1. FileInv => TypeOK
  BY DEF FileInv
<1> QED BY <1>1, FileInvariant, PTL

(***************************************************************************)
(* No <program> reads from <arg file>, whatever descriptor it has and      *)
(* whatever stdin of xvp was (lines 265-273 and 403-412).                  *)
(***************************************************************************)
THEOREM IsolatedHolds == Spec => []Isolated
<1>1. FileInv => Isolated
  BY DEF FileInv, ApartInv, Isolated
<1> QED BY <1>1, FileInvariant, PTL

(***************************************************************************)
(* delete_script() removes the file that was read, but for the two races   *)
(* (lines 312-330).                                                        *)
(***************************************************************************)
THEOREM RemovesOnlyArgFileHolds == Spec => []RemovesOnlyArgFile
<1>1. FileInv => RemovesOnlyArgFile
  BY DEF FileInv
<1> QED BY <1>1, FileInvariant, PTL

(***************************************************************************)
(* An <arg file> that is stdin is never removed (lines 314 and 403-412).   *)
(***************************************************************************)
THEOREM KeepsStdinHolds == Spec => []KeepsStdin
<1>1. FileInv => KeepsStdin
  BY DEF FileInv
<1> QED BY <1>1, FileInvariant, PTL

(***************************************************************************)
(* As long as nobody else changes names, no inode is handed on, and a name *)
(* that xvp owes its removal still waits for delete_script().              *)
(***************************************************************************)
Owed == /\ unlinkOpt /\ opened # none /\ opened # stdin0
        /\ Type[opened] = "REG" /\ name = opened

QuietInv ==
  ~touched =>
    /\ \A o \in DOMAIN Heir : Heir[o] \notin exists
    /\ opened # none => opened \in exists /\ ~dash
    /\ Owed => /\ pc \notin {"exec", "exit"}
               /\ pc \in {"run", "close"} => ~viaStdin

LEMMA QuietInit == Init => QuietInv
BY FileAssumption DEF Init, QuietInv, Owed, none

LEMMA QuietOpen == FileInv /\ QuietInv /\ Open => QuietInv'
<1> SUFFICES ASSUME FileInv, QuietInv, Open PROVE QuietInv'
  OBVIOUS
<1>1. Resolved(name) = none \/ Resolved(name) \in exists
  BY DEF Resolved, FileInv, TypeOK
<1>2. UNCHANGED <<touched, exists>> /\ opened = none /\ pc = "open"
  BY DEF Open, disk, FileInv, DescriptorInv
<1>3. CASE opened' = none
  BY <1>2, <1>3 DEF QuietInv, Owed
<1>4. CASE opened' # none
  <2>1. pc' = "fstat" /\ ~dash' /\ opened' \in exists'
    BY <1>1, <1>2, <1>4 DEF Open, opt, disk
  <2> QED BY <1>2, <2>1 DEF QuietInv
<1> QED BY <1>3, <1>4

(***************************************************************************)
(* No regular file that is not stdin itself is taken for stdin: its inode  *)
(* number is its own.                                                      *)
(***************************************************************************)
LEMMA QuietDetect ==
  ASSUME closed \notin Stdin, FileInv, QuietInv, Detect
  PROVE  QuietInv'
<1> USE FileAssumption
<1>1. /\ UNCHANGED <<touched, exists, opened, dash, unlinkOpt, name, stdin0>>
      /\ pc = "detect" /\ pc' = "run"
  BY DEF Detect, opt, disk, history
<1>2. ASSUME ~touched, Owed PROVE ~viaStdin'
  <2>1. /\ ~dash /\ ~viaStdin /\ f_stat = opened /\ fds[0] = stdin0
        /\ stdin0 \in Stdin /\ opened # stdin0 /\ opened \in exists
    BY <1>1, <1>2 DEF FileInv, DescriptorInv, QuietInv, Owed
  <2>2. ASSUME NEW o \in DOMAIN Heir, {stdin0, opened} = {o, Heir[o]}
        PROVE  FALSE
    <3>1. Heir[o] = stdin0 \/ Heir[o] = opened
      BY <2>2
    <3> QED BY <1>2, <2>1, <3>1 DEF QuietInv
  <2>3. ~SameStat(fds[0], f_stat)
    BY <2>1, <2>2 DEF SameStat, SameInode
  <2> QED BY <2>1, <2>3 DEF Detect
<1> QED BY <1>1, <1>2 DEF QuietInv, Owed

LEMMA QuietStep ==
  ASSUME closed \notin Stdin, FileInv, QuietInv, [Next]_vars
  PROVE  QuietInv'
<1>1. CASE UNCHANGED vars
  BY <1>1 DEF vars, QuietInv, Owed
<1>2. CASE Done
  BY <1>1, <1>2 DEF Done
<1>3. CASE Open
  BY <1>3, QuietOpen
<1>4. CASE FStat
  <2>1. /\ UNCHANGED <<touched, exists, opened, dash, unlinkOpt, name, stdin0>>
        /\ pc = "fstat" /\ pc' \in {"detect", "exit"}
    BY <1>4 DEF FStat, Exit, opt, disk, history
  <2>2. ASSUME ~touched, Owed PROVE pc' = "detect"
    <3>1. fds[fd] = opened /\ opened \in Object /\ Type[opened] = "REG"
      BY <2>1, <2>2 DEF FileInv, DescriptorInv, QuietInv, Owed
    <3> QED BY <1>4, <3>1, FileAssumption DEF FStat
  <2> QED BY <2>1, <2>2 DEF QuietInv, Owed
<1>5. CASE Detect
  BY <1>5, QuietDetect
<1>6. CASE Loop
  BY <1>6 DEF Loop, opt, disk, QuietInv, Owed
<1>7. CASE Close
  BY <1>7 DEF Close, opt, disk, history, QuietInv, Owed
<1>8. CASE LStat
  <2>1. /\ UNCHANGED <<touched, exists, opened, dash, unlinkOpt, name, stdin0>>
        /\ pc = "lstat" /\ pc' \in {"unlink", "exec"}
    BY <1>8 DEF LStat, opt, disk, history
  <2>2. ASSUME Owed PROVE pc' = "unlink"
    <3>1. name = f_stat /\ name # none /\ Type[name] = "REG"
      BY <2>1, <2>2 DEF FileInv, ApartInv, Late, Owed
    <3> QED BY <1>8, <3>1 DEF LStat, SameStat, SameInode
  <2> QED BY <2>1, <2>2 DEF QuietInv, Owed
<1>9. CASE Unlink
  <2>1. /\ UNCHANGED <<touched, exists, opened, dash, unlinkOpt, stdin0>>
        /\ name' = none \/ (name' = name /\ (name = none \/ Type[name] = "DIR"))
    BY <1>9 DEF Unlink, opt
  <2>2. ~Owed'
    BY <2>1 DEF Owed
  <2> QED BY <2>1, <2>2 DEF QuietInv
<1>10. CASE Exec
  BY <1>10 DEF Exec, opt, disk, QuietInv, Owed
<1>11. CASE World
  BY <1>11 DEF World, QuietInv
<1> QED
  BY <1>1, <1>2, <1>3, <1>4, <1>5, <1>6, <1>7, <1>8, <1>9, <1>10, <1>11
  DEF Next

(***************************************************************************)
(* delete_script() (lines 312-330) misses no regular file that -u asks     *)
(* for, as long as nobody else changes names and stdin is open (with stdin *)
(* closed, lines 403-412 take the file for it).                            *)
(***************************************************************************)
THEOREM RemovesHolds ==
  ASSUME closed \notin Stdin
  PROVE  Spec => []Removes
<1>1. Init => QuietInv
  BY QuietInit
<1>2. FileInv /\ QuietInv /\ [Next]_vars => QuietInv'
  BY QuietStep
<1>3. QuietInv => Removes
  BY DEF QuietInv, Owed, Removes
<1> QED
  BY FileInvariant, <1>1, <1>2, <1>3, PTL DEF Spec
=============================================================================
