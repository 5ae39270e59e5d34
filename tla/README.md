# Verification of xvp

TLA+ models of `xvp` (`src/xvp.cc` and the headers under
`src/include/rockdrilla`), TLC runs that check them on small
instances, and TLAPS proofs of the main safety properties for every value of
the constants. Line numbers without a file are those of `src/xvp.cc`.

`xvp [options] <program> [args] <arg file>` reads NUL-separated arguments from
a file, packs them into batches that `execve(2)` accepts, forks a child for every
full batch and becomes `<program>` itself for the last one.

## 1. Inventory

| component | state | operations | hard because | correct when |
| --- | --- | --- | --- | --- |
| run loop and processes: `run()`, `do_exec()` | `argv_curr`, `arg_pend`, `buf_read`, `err`, `child`, copied by `fork(2)`; the file offset, shared | gather arguments, fork, reap, wait, refine, close, last execution, error exits | processes run concurrently with one file offset; children end, stop, are killed at any point; every call may fail; a forked process can return into the loop | no argument lost, doubled or reordered; at most one program at a time without `-n`; `-s`, `-f`, `-u` and exit codes mean what they say; everything ends |
| argument reader: the inner loop of `run()` | `tbuf`, `n_buf`, `total`, `buf_arg`, `arg_pend` | read, skip, store a part, set aside, take | `read(2)` cuts anywhere; an argument may be longer than its buffer | arguments are exactly the pieces before the NULs; the buffer never overflows |
| argument file: `open(2)` to `delete_script()` | descriptors, `f_stat`, the name | open, fstat, detection of stdin, `/dev/null` for programs, close, lstat, unlink | the name may be moved meanwhile; the file may be stdin, be a link, have descriptor 0 | only the file that was read is deleted, never stdin; programs do not read from the list |
| options: `main()`, `parse_opts()` | `opt` | one step per option | order and repetition | exactly the documented option sets go on |
| limits: `prepare()`, `is_argv_full()` | `size_env`, `size_args`, `argc_max` | computed once, compared for every argument | unsigned arithmetic, rounding, unchecked pending argument | the largest batch fits `execve(2)` |
| uvector str: `str.hh`, `dynmem.hh` | `_used`, `_ptr`, `_allocated`, `_offsets` | append, copy, free | sizes are rounded three ways; `realloc(3)` may fail | strings do not overlap and stay in their blocks |
| uvector dynmem and inplace: `dynmem.hh`, `inplace.hh`, `base.hh` | `_used`, `_allocated`, `_ptr` or the array | append of a value, an item, a range; set, grow, free, copy, assign | blocks move or are refused; assignment shares a block; an index type has an end | each is a sequence of its own that only its own calls change |
| memfun: `memfun.h` | block sizes | align, want_realloc, realloc | the length is stored before `realloc(3)` succeeds | blocks are whole and large enough |
| numbers: `num/*.h` | none | popcnt, uadd, umul, set_lower, getmsb, degree2, roundby, min_positive | top bit, overflow, `int` results | they compute what their names say |
| messages: `log-stderr.h` | an array per message | measure, then fill | a space per part, the NUL of `vsnprintf`, a path in front | nothing is written behind an array, no text is cut |
| compiler support; build | none | macros, recipe | - | not modelled |

The parts meet in `main()`: options and limits are fixed before `run()`; the
reader feeds batches that live in a `uvector::str`; full batches go to children;
the file's name goes when the loop has ended or failed. Processes share the open
file and learn about each other from the wait family only.

PROJECT.json lists the hazards, each at its line with the properties that cover
it.

## 2. Modules

| module | models | how it corresponds |
| --- | --- | --- |
| `ArgRunner` | nothing of the code: what xvp promises | the file's arguments are handed over in order, in non-empty batches, each at most once; a complete run has handed over all |
| `Xvp` | 192-221, 258-298, 349-604 | `pc` names the place of every process in `run()`; `mem` is what `fork(2)` copies, the part of an argument in `buf_arg` included (`part`); `rest` and `cut` say where the shared offset is: before which argument, or how far inside of it; `status`, `note`, `parent` are the kernel's. One action per system call or branch; an action runs from one visible point to the next |
| `XvpInv` | - | the inductive invariants of `Xvp`: `BatchInv`, `ChainInv`, `AloneInv`, `SetupInv` and `DeletedInv`, which hold whoever reads the file; `Inv`, and `PromiseInv`, which adds what the options and the batches need; `WholeInv`, which adds what the exit code needs |
| `ArgStream` | 352-362, 414-488 | the reader, byte by byte: `buf` is `tbuf` with `n_buf` bytes, `stored` is `buf_arg` |
| `ArgFile` | 223-231, 263-273, 300-330, 379-412, 585-604 | descriptors 0 and 3, `name` for what the path means now; others (`World`) rename, remove and create at any place, also between `lstat(2)` and `unlink(2)`, and a new object may get the inode of one that is gone |
| `Startup` | 48-104, 110-256 | one step per option, then `prepare()` in unsigned arithmetic |
| `StrVec` | `str.hh`, `dynmem.hh`, `memfun.h` as `prepare()` and `run()` use them | a string is its offset and length, a block has the size the code believes and the size it really has; `list` is what `execvp(3)` gets |
| `Boxes` | nothing of the code: what a container promises | every container is a sequence; append, set, clear, copy and move change it |
| `Vectors` | `dynmem.hh`, `inplace.hh`, the limits in `base.hh` | `box` has the three fields of each container, `heap` the blocks; one action per operation that changes something, one per item of a range append |
| `NumOps` | `num/*.h`, the sizes in `memfun.h` | pure operators on w-bit numbers; `&` and `\|` are recursive functions over the bits, `popcnt` has one operator per line of it, `set_lower` one function over the rounds of its loop |
| `Numbers` | - | what each function of `NumOps` is for; `asked` is the call, `NumSpec` allows any sequence of calls |
| `LogStderr` | the arrays of `log-stderr.h` | strings are their lengths; `logged` is the call, a message or an error text |
| `XvpProof`, `XvpPromises`, `StartupProof`, `ArgFileProof`, `ArgStreamProof`, `StrVecProof`, `LibraryProof`, `NumProof` | - | the proofs |
| `MC*` | - | the instances for TLC |

How they compose: `Xvp` implements `ArgRunner` (`Promise == INSTANCE ArgRunner`,
property `Implements`), and so does `ArgStream`, whose arguments are those of the
bytes: together they say that what `Xvp` takes for a list of arguments is what the
reader makes of the file. The option sets and limits in the constants of `Xvp`
are what `Startup` lets through (`ParsesExact`; `LimitsFit` speaks of the largest
batch that `WithinLimit` allows); its item sizes are those of `StrVec`
(`Layout`), and a batch of `Xvp` becomes the list of pointers of `ListExact`.
`Vectors` implements `Boxes` as long as memory is given and the client keeps to
the rules. Block sizes in `StrVec` and `Vectors` are those of `memfun.h` by
`SizeFunctions`. `opt.unlink` of `Xvp` stands for `-u` with a file that `ArgFile`
finds to be regular, not stdin and unchanged.

A definition marked *variant* is the definition after it with a plausible
programming error. It belongs to no specification and serves to show that a
property would notice the error.

## 3. Runs

| run | checks | instance |
| --- | --- | --- |
| `xvp` | `TypeOK`, `WholeInv`, `Conservation`, `AtMostOnce`, `Unlinked`, `SuccessIsExact`, `ForceSingle`, `StrictStops`, `Implements` | 4 processes, all 12 option sets, five files of at most four arguments, blocks that end inside of two of them, every system call failing in the loop and in front of it, children failing, killed, stopped, continued; 103,510 states |
| `xvp_live` | `WithinLimit`, `Serial`, `ExactUnlessLost`, `SuccessDelivers`, `Terminates`, `EverythingRuns` | 6 processes, the same files and two with an argument that cannot fit beside `<program>`, so that forked processes do return into the loop and read blocks that end inside of arguments; `execvp(3)` failing, with the second try of `-n`; 56,572 states |
| `stream` | `TypeOK`, `ExactArguments`, `ExactPart`, `InBufArg`, `Implements`, `ReadsAll` | all files of at most 6 bytes over two letters and NUL, `buf_arg` of 4, blocks of at most 5; 65,304 states |
| `file` | `TypeOK`, `Isolated`, `RemovesOnlyArgFile`, `KeepsStdin`, `Removes` | two files, one of which can get the inode of the other, a pipe, a directory, a link; others at work at every place; 9,520 states |
| `startup` | `TypeOK`, `ParsesExact`, `LimitsFit` | every sequence of at most 3 options and 0 to 4 operands; environments around page boundaries; three stack limits; 228,667 states |
| `store` | `TypeOK`, `Layout`, `InBlock`, `ListExact` | words of 4, blocks of 16, strings of 0, 3, 4 and 20 bytes, any `malloc(3)` or `realloc(3)` refused; 367,834 states |
| `library` | `TypeOK`, `Sound`, `RangeExact`, `Implements` of `Vectors`; `BitFunctions`, `SizeFunctions`; `MessagesFit` | two dynmems and an inplace under any client, any `realloc(3)` refused or moving the block; all 8-bit values, 16-bit ones around 0, the top bit and the overflow; messages and error texts with every part empty, short or long; 770,810 states |
| `xvp_strict`, `xvp_twice`, `xvp_read`, `file_closed`, `startup_wrap` | one property each, which the code violates: section 5 | the smallest instance that shows it |

Why the bounds are enough. In `MCXvp` a batch ends at 70 bytes or four
arguments, of which `<program>` and a common argument take 32 bytes: the files
give no batch, one that does not fill up, one that the last argument fills
exactly, one after an argument set aside, and, for `-f`, more than one. Two
children after each other are what the races need: one whose status is lost and
one that starts all the same. `MaxPid` bounds the number of processes: `Fork` is
disabled beyond it, but no file in these instances needs as many (the deadlock
check would stop at a process that cannot fork). `Cuts` says where a block may end
inside of an argument: in the middle of a long one, and between an argument and
its NUL. What two readers put together from parts of different arguments is
a member of `Torn` (one that no file has) or, when it has become too long, nothing.

In `MCArgStream` an argument fits (0 to 2 bytes), does not by one byte, or by
more, and spans up to six reads. In `MCArgFile` one object that takes the inode
of another is enough: `compare_stats()` looks at one name and one descriptor.
Pages in `MCStartup` are real ones; `size_t` has 30 bits so that it wraps within
TLC's integers. All sizes in `MCStrVec` keep the proportion word : block : long
string.

In `MCLibrary` items have 3 bytes and blocks 8, so that a block has room for two
items and two bytes to spare; an index has 3 bits with a fence of one, so that
`idx_max` is 3: the second block brings more than an index can reach, half of
`idx_max` (where `grow_by_count()` refuses) is below it, and `begin + count`
wraps at 8. Two dynmems are what assignment, copy and self-append need; three
addresses are their blocks and a place to move one to. Addresses and dynmems are
symmetric. In `NumOps` the width is a parameter; the run takes 8 bits, where every
value is tried, and 16 bits, where sums of several bytes meet and `int` is
narrower than what it is given. `NumProof` covers every width, those of the code
included.

Fairness (`FairSpec` of `Xvp`). `WF(XvpStep(p))`: the scheduler runs every
process that can go on; the waits in the code block without a timeout, so a step
of theirs is enabled only once a child has ended. `SF(ProgramExit(p))`: a
program that is run again and again ends, however often it is stopped in
between; `WF(Continue(p))`: who stops a child lets it go on. The last two are
assumptions about `<program>` and its users; xvp waits for ever without them. In
`ArgStream` `WF(Step)`: the only process runs and `read(2)` returns.

`CHECK_DEADLOCK` is on everywhere: the final states stutter explicitly
(`Terminated`, `Done`, `Ended`).

## 4. Proofs

| theorem | says | assumes |
| --- | --- | --- |
| `TypeCorrect` (`XvpProof`) | `Spec => []TypeOK` | the named assumptions of `Xvp` |
| `BatchInvariant`, `ChainInvariant`, `AloneInvariant` (`XvpProof`), `DeletedInvariant` (`XvpPromises`) | `Spec => []BatchInv`, `[]ChainInv`, `[]AloneInv`, `[]DeletedInv` | the same |
| `WithinLimitHolds`, `ReturnsOnlyOverHolds` (`XvpProof`) | `Spec => []WithinLimit`, `Spec => []ReturnsOnlyOver` | the same |
| `SerialHolds` (`XvpProof`) | `Spec => [](OneReader \/ "kill" \notin Signals => Serial)` | the same |
| `ForceSingleHolds`, `UnlinkedHolds` (`XvpPromises`) | `Spec => []ForceSingle`, `[]Unlinked` | the same |
| `Invariant` (`XvpProof`), `PromiseInvariant` (`XvpPromises`), `WholeInvariant` (`XvpPromises`) | `Spec => [](OneReader => Inv)` and so on | the same |
| `ConservationHolds` (`XvpProof`), `ExactUnlessLostHolds` (`XvpPromises`) | `Spec => []Conservation` and so on, which have `OneReader` inside | the same |
| `AtMostOnceHolds`, `SuccessIsExactHolds` (`XvpPromises`) | `Spec => [](OneReader => AtMostOnce)`, `[](OneReader => SuccessIsExact)` | the same |
| `XvpImplements`, `StrictStopsHolds` (`XvpPromises`) | `Spec /\ OneReader => Implements`, `Spec /\ OneReader => StrictStops` | the same |
| `SuccessDeliversHolds` (`XvpPromises`) | `Spec => []SuccessDelivers`, which has `OneReader` inside | and that `read(2)` works (`"read" \notin Faults`) |
| `StartupTypeCorrect`, `LimitsFitHolds`, `ParsesExactHolds` (`StartupProof`) | `Spec => []TypeOK`, `Spec => []LimitsFit`, `Spec => []ParsesExact` | the named assumption of `Startup` |
| `FileTypeCorrect`, `IsolatedHolds`, `RemovesOnlyArgFileHolds`, `KeepsStdinHolds` (`ArgFileProof`) | `Spec => []...` | `FileAssumption` |
| `RemovesHolds` (`ArgFileProof`) | `Spec => []Removes` | and that stdin is open at the start |
| `StreamTypeCorrect`, `InBufArgHolds`, `ExactPartHolds`, `GivenInvariant`, `ExactArgumentsHolds` (`ArgStreamProof`) | `Spec => []...` | `StreamAssumption` |
| `StreamImplements` (`ArgStreamProof`) | `Spec => Implements` | `StreamAssumption` |
| `StrInvariant`, `StrTypeCorrect`, `LayoutHolds`, `InBlockHolds`, `ListExactHolds` (`StrVecProof`) | `Spec => []...` | `StoreAssumption` |
| `VectorsTypeCorrect`, `VectorsSound` (`LibraryProof`) | `Spec => []TypeOK`, `Spec => []Sound` | `VectorAssumption` |
| `VectorsImplement`, `RangeExactHolds` (`LibraryProof`) | `Spec => Implements`, `Spec => []RangeExact` | `VectorAssumption` |
| `MessagesFitAlways` (`LibraryProof`) | `LogSpec => []MessagesFit` | `LogAssumption` |
| `BitFunctionsAlways`, `SizeFunctionsAlways` (`NumProof`) | `NumSpec => []BitFunctions`, `NumSpec => []SizeFunctions` | `WidthAssumption` |

**xvp.** The theorems hold for any number of processes, any files, argument
lengths, limits, failures and signals. An argument that does not fit beside
`argv_init` (`NeverFits`) makes forked processes return into the loop and read
the file with their parent. `OneReader` says that this cannot happen: every
argument in this file fits, or `-f` allows no fork. Nobody changes the file or
the options, so it holds always or never (`StartKept`).

These invariants hold whoever reads. `TypeOK` is inductive by itself and comes
first; the others need only `TypeOK`:

- `BatchInv`, of every process: its batch has at most `argc_max` items and at
  most two words less two bytes above `size_args`, or it is a single argument that
  could not fit; an empty batch that is being gathered has the size of
  `argv_init`; an argument is set aside only from a full batch until the next
  begins. The item that the check lets in may add its padding and its offset
  word; `argc_padding` (four words) covers that and the final null pointer, hence
  `WithinLimit`. An argument that is appended unseen at the head of the loop comes
  into an empty batch (`FirstAppended`), and if it could not fit, the batch takes
  no other (`SingleIsFull`).
- `ChainInv`: processes are forked in the order of their numbers, and without
  `-n` each that has not ended, but the last, waits for a child that has not
  ended either and is no later than any live process after it. A new child hangs
  on the last one (`ForkKeepsChain`), and who waits for a live child goes on
  waiting (`WaitingStep`). `Serial` follows, because a program waits for nobody. A
  kill breaks the chain: when the forked process that waits in the loop is killed,
  its own child lives on and its parent starts another program. With one reader no
  forked process has children, and `SerialInv` does without the chain.
- `AloneInv`: with `-f` nobody is forked. With `BatchInv` it gives
  `ReturnsOnlyOver`: a forked process that goes back into the loop, which line 261
  allows, has set an argument that never fits aside from an empty batch.
- `DeletedInv`: the name is gone only with `-u`, and has gone when xvp itself is
  outside the loop and not about to fail, unless it left in front of the loop with
  an error; nothing was then read, forked or executed (`SetupInv`). Only `Close`
  and `Fail` lead out of the loop (`LeavesDeleting`), only `RunErr` of xvp itself out
  of what is before it (`SetupEnds`). Hence `Unlinked`.

`Inv` is `OneReader`, `TypeOK`, `BatchInv` and four parts:

- `PlaceInv`: only xvp itself is in the loop, and a forked process that is about
  to execute has arguments. Without it `ExecNothing` could put a child into the
  loop. It is inductive over `Fork` because a batch that is ready is not
  empty, and this is where `OneReader` enters: `is_argv_full()` holds of an empty
  batch only for an argument of the file (`HeadIsListed`) that never fits.
- `PartInv`: the part of an argument that xvp holds is the one that was read of the
  file, so that the next block completes it (`Intact`). Another reader would take
  the rest of it away.
- `FileInv`: what was handed over, the current batch, the argument set aside, the
  buffer and the rest are the file. It needs `PlaceInv`, because any process in
  the loop could read, and `PartInv` for what a block completes.
- `SerialInv`: without `-n` the only child that has not ended is the one that xvp
  is about to wait for or waits for.

`OneReader` cannot be dropped for the properties that have it: the run `xvp_twice`
is the counterexample for `AtMostOnce`. `XvpProof` groups the actions by what they
touch and has for each group one step per part of `Inv`; the invariants of every
process use `StepFrame` (what a step of one process leaves of the others) and
`ForksTo` (what a fork does).

`XvpImplements` needs no more than `Inv`: by `FileInv` a fork hands over the next
piece of the file (`RunBatch`), the step out of the loop the last piece
(`Finish` if it reaches the end, `GiveUp` if not), and every other step, of
whatever process, leaves the promise alone. `PromiseInv` adds four parts for the
properties that speak of more than xvp's own batch:

- `BatchesInv`: what a forked process holds is a piece of what was handed over,
  the pieces have nothing in common, and the last batch of xvp itself has nothing
  in common with them. A new piece is disjoint from the older ones because the
  arguments of a file differ and, by `FileInv`, it comes behind them. Hence
  `AtMostOnce`.
- `ForceInv`: with `-f` nobody is forked, nothing was handed over before the last
  batch, and the file is closed with an empty buffer. Hence `ForceSingle`.
- `NameInv`: the name is there in the loop and before `_run_out`, or without `-u`.
- `StrictInv`: with `-s` and no status lost, the process that xvp waits for is its
  child and has not been reaped, and it is the only one that may have failed
  unless xvp has given up. It needs `SerialInv`: only the child that is waited for
  can still fail. Hence `StrictStops`, because neither that child nor xvp itself
  can start an execution once somebody else has failed.

Almost all steps are calm (`Calm`): nobody is forked, nothing is handed over.
`CalmSteps` shows that for all but `Fork` and `Close` of xvp itself, and each part
is then proved for those three kinds of steps only.

`WholeInv` adds three more parts for the exit code:

- `ForkedInv`: processes are forked in the order of their numbers, each with a
  batch that is not empty; one that has ended has executed its batch, or has
  ended with another status than 0.
- `HandedInv`: what was handed over is in the batch of some child or, behind the
  loop, in that of xvp itself; behind the loop, unless xvp gave up, that is all
  that was read.
- `CodeInv`: without `-n` and a lost status, `err` between a wait and the next
  fork is the status of the latest child (`ECHILD` if a signal ended it). xvp
  exits with it, or with another error and then an argument is left that no child
  has: it is in the current batch, set aside or in the buffer (`StillHas`), or
  in the last batch that could not be executed (`LastIsUndelivered`).

`SuccessIsExact` follows because a code of 0 can only be that of the latest
child, which has then executed. `ExactUnlessLost` follows because everything was
executed, so no argument is left and the batch of the latest child is among the
executed ones; batches have nothing in common, so it is the last that executed.
`SuccessDelivers` follows from `HandedInv`: behind the loop the file was read to its
end, every argument is in a batch, and a child that ended without executing its own
says so by its status (`Accounted`). That there is a latest child
among the forked ones (`LatestExists`) needs well-founded induction, over
numbers. `CodeInv` has one lemma per group of steps: `ChildKeepsCode`,
`GatherKeepsCode`, `BatchKeepsCode` and `LeaveKeepsCode`.

**Limits.** `LimitsFit` rests on `PreparedInv` (what `run()` starts with is what
`prepare()` computes from an unchanged environment) and on three facts about
sizes: a difference that does not go below zero does not wrap (`MinusExact`),
rounding up never rounds down (`RoundUpAbove`), and `size_env` exceeds the
environment by half a page (`SizeEnvAbove`). It covers every page size, width of
`size_t`, environment and stack limit within its hypotheses.

**Options.** `ParsesExact` rests on `ParseInv`: what is still to parse is the end of
the command line, and while `parse_opts()` runs, the options before it are legal
and are exactly those that are set. It covers command lines of any length over any
letters.

**Argument file.** `FileInv` is the three properties with what makes them
inductive: exactly one of an object and its heir exists (`HeirInv`); what was
opened is not the heir of something alive, and `-` is stdin from the start
(`OpenedInv`); what the descriptors are at each place (`DescriptorInv`,
`ApartInv`); while `unlink(2)` is due and nobody slipped in, the name is what
`lstat(2)` compared (`WindowInv`). The theorems hold for any objects and links,
any pairing of inodes, any kind of stdin and any interference. `Removes` needs
`QuietInv` besides: as long as nobody else has changed a name no inode is handed
on, and a name that xvp owes its removal still waits for `delete_script()`. With
stdin closed at the start it is false, because lines 403-412 then take the file
for stdin (see `file_closed`); the theorem assumes that stdin is open.

**Argument reader.** `StreamInv` is `StoreInv` and `PartInv`. `StoreInv`: unless
the argument is too long already, `buf_arg` has exactly `total` bytes of it, and
it is never full; a pending argument is one that fits. `PartInv` ties both to the
file by positions: the buffer and the rest are what comes next in it, the
`total` bytes before them have no NUL, and a NUL or the beginning of the file is
before those. The lemma `LeastNul` (the set that `strnlen` looks at has a least
element) needs well-founded induction, over numbers.

`OutInv` says what the reader has produced: the arguments in the batches, and the
one that waits, are `Fitting(Consumed)`, the meaning of what is consumed so far.
What a file means is defined by the positions of its NULs (`FitNuls`: those with
few enough bytes before them, back to the NUL before; `Nth` counts them), not by
a recursion over its bytes, so that it can be reasoned about. Three lemmas carry
the invariant: consuming bytes without a NUL changes no meaning
(`ArgumentGoesOn`), consuming one behind an argument that fits appends it
(`FitsAtNul`, `ArgumentEnds`), and one behind a too long one changes nothing
either (`NoFitsBetween`). They rest on counting (`CountUpto`, `NthIs`,
`NthExists`: the NULs up to the k-th are k) and on `PieceOfCut`: what lies before
a NUL is the same in the file and in any part of it from its start that has this NUL.
`StreamImplements` follows step by step: by `FittingOfCut` the meaning of what is
consumed is an initial part of that of the file, so every append hands over the
next argument of the file, and at the end, where everything is consumed, the last.

**String vectors.** `StrInv` has, for both vectors, `LaidOut` (strings back to
back, `_used` the end of the last) and `Covered` (the sizes that the code
*believes* its blocks to have cover what is used). Both hold whatever
`realloc(3)` answers, since `memfun_realloc_ex()` stores the new length before it
asks. `Granted`, that the blocks have that size, holds until a call is refused;
both together give `InBlock`. The step that needs work is an append that asks
for `len + 1` bytes but uses up to a word more: the block grows by a rounded
amount, and `_used` is a multiple of the word, so that the room left in the block
suffices (`RoomWell`, from the lemmas on multiples: `MultipleUnique`,
`RoundUpLeast`, `BlockAligned`). `StoreAssumption` has what this needs: a block
is a multiple of the word. `ListExact` needs `Progress` besides: while
`argv_init` is copied, `argv_curr` has exactly its first `next - 1` items, and later all
of them at the front.

**Messages.** `MessagesFit` has one case per kind of call; a message fits by the
sum that the code forms, an error text only with the hypothesis on the length of
the path (section 5).

**Containers.** `VecInv` is `TypeOK`, `Sound`, `Homes` (a dynmem's block is at
an address, if it has one; an inplace's is its own array, always alive and of
the size of its capacity) and `JobUsable` (a range append works on two
containers that may be used). The proof is for any number of containers, any
sizes of items and blocks, any index type and any client. Its arithmetic is in
`GrownWell`: a block that was rounded up and cut to `idx_max` has room for all
that `_allocated` claims, unless `realloc(3)` was refused; for then `memfun` has
stored the new length already, and `Owns` only promises room for what is used.
The second half of `LibraryProof` maps every container to its items (`Held`) and
shows that each step is one of `Boxes` or leaves them alone; that one container's step
changes no other comes from `Apart`. `RangeExact` needs `Loaded`: what has been
appended so far is the beginning of the range, also when source and target are
the same container and the block moves under way.

**Numbers.** The functions keep no state, so the theorems say: for every width in
`WidthAssumption` (the multiples of 8 up to 248 bits, 32 and 64 among them) and
for every argument the functions mean what `Numbers` says. What is recursive is a
recursive function, and induction is taken over a set of numbers in place of a
predicate: `Induction` follows from the well-founded order of the naturals, and
`Recursion` shows that the function which a definition chooses exists (from it
`Pow2`, `AndDigits`, `OrDigits`, `LoweredSteps`).

- `popcnt` is right because it works on each byte alone. `ByteAnd` and
  `NibbleAnd` split `&` at a byte and at a nibble, and `OnesNext` says that the
  masks repeat in each byte; hence `PairsByte`, `NibblesByte` and `BytesByte`:
  what the three lines make of a word is what they make of its lowest byte, and
  of the rest (`CountedByte`; the masks of one byte are settled a nibble at a time,
  `NibbleDigits`). The product with 0x01..01 has in its top byte the sum of all bytes
  (`AllSums`, `TopByte`), because no partial sum is above the width,
  which is below 256: this is where 248 comes from. `BitsByte` counts the bits the
  same way.
- `set_lower`: after i rounds the i + 2 highest places below the highest bit,
  with that bit, are set (`SetLowerIs`, by `OrBits` and `OrBelow`), and with w - 3
  rounds all are (`AllOnes`). It needs that the shift loses no bit, which is the
  condition in `FindsTopBit`. `popcnt` of these ones is the place of the highest
  bit (`OnesCounted`).
- `uadd`: a sum that wraps is below both its terms (`WordWrap`, `UAddAccepts`).
  With `PowerOfTwo` (`popcnt` is 1 exactly for a power of two) and `MaskLower`
  (its predecessor is the mask of what is below), `roundby` has the right
  remainder (`RemainderIs`) and so rounds to the least multiple (`RoundByIs`);
  `roundbyl` does as far as an `int` goes (`RoundByLIs`).
- Alignments (`AlignsIs`, with the bits smeared in `Smeared`), the last index
  that does not wrap (`WidthOffsets`), blocks and growth (`Reallocates`,
  `GrowsTo`) follow from these, for sizes that an `int` can have.

**Only model-checked.** Liveness (`Terminates`, `EverythingRuns`, `ReadsAll`),
which the provers at hand do not reach. Every invariant, action property and
refinement that a passing run checks is stated by a theorem.

## 5. Where the code and its documentation disagree

- `xvp_strict`: line 503 reaps *any* ended child right after `fork(2)`. If the
  new child has failed by then its status is lost and `-s` goes on. `StrictStops`
  and `SuccessIsExact` hold whenever no status was lost.
- `xvp_twice`: an argument that does not fit beside `<program>` and the common
  arguments makes an empty batch "full"; the forked process returns from
  `do_exec()` (261) into the loop and executes the arguments that its parent
  executes too. Termination and limits survive, and `Serial` unless such a process
  is killed (`xvp_live`, `ChainInvariant`).
- `xvp_read`: an error of `read(2)` (486) ends the loop like the end of the file,
  and the exit code is 0.
- `file_closed`: with stdin closed at the start, `open(2)` returns 0; lines
  403-412 then take the file for stdin and close the descriptor they read from.
- `startup_wrap`: the rounded environment may exceed the system's limit;
  `size_args` and `argc_max` wrap to huge values (244-246). `LimitsFit` holds for
  every environment that leaves room for `argc_padding`.

Also seen, without a run of their own:

- With `-n`, a process that has returned into the loop and its parent read at the
  same time from one offset, each with its own copy of what `buf_arg` has of an
  argument (430-460). A block that ends inside of one is completed by another block of
  the file: `<program>` gets an argument that is not in the list, and the torn ones
  are executed by nobody. This is why `EverythingRuns` asks for one reader, or for
  several without `-n`, where the one forked last reads to the end while the others
  wait; without this condition TLC finds the loss in the instance of `xvp_live`.
- `-u`, documented as "unlink (delete) <arg file> after work" (`README.md:30`), does
  nothing when `run()` ends in front of its loop (363-401: no memory, the file
  cannot be opened, looked at or read): `_run_err` is behind `delete_script()`, and
  lines 384-400 exit at once. `Unlinked` has the condition.
- `-f` fails with `E2BIG` when the last argument fills the batch exactly, though
  one execution would do (480, 490).
- Of single functions and calls: bytes behind the last NUL are dropped
  (`ExactArguments` states what is an argument); an argument of 131071 bytes, which
  would fit `buf_arg` with its NUL, is dropped by the check at line 441; after a
  refused copy of `argv_init` the checks at 373 and 578 do not fire, since the
  length has been stored before `realloc(3)` (`memfun.h:306`), and the batch lacks
  `<program>` (`ListExact` has the condition); `to_ptrlist()` may return a null
  pointer, which `execvp(3)` is given all the same (275); with an unlimited stack
  `sysconf(3)` gives more than `execve(2)` takes (the condition on the stack in
  `LimitsFit`); `set_lower` is wrong for values with the top bit (`FindsTopBit` has
  the condition); `umul`'s fallback accepts products that do not fit
  (`SafeArithmetic`); a name of more than about a thousand bytes above `PATH_MAX`
  would not fit the array for an error text (`ErrorFits` has the condition).

In the containers, which xvp uses in a narrower way: a range append cuts `count`
to what the source has but not `end` (`dynmem.hh:185-195`), so that a range of 5
from the second of 3 items appends two items and three zero ones and returns 2
(`RangeExact` speaks of ranges that the source has); assignment, and the copy
constructor for the same growth factor, copy the pointer, so that both objects
own the block (115; `moved` is the rule that the source is not used any more); a
copy of half of `idx_max` items or more stays empty without a word (213); an item
appended to its own container by reference is read after the block may have moved
(174); `str::walk` takes `_used`, a number of bytes, for the number of items
(`str.hh:166`).

## 6. Abstractions, and what is not modelled

- `Xvp`: a block of `read(2)` ends between two arguments or after one of the
  numbers of bytes in `Cuts`; the bytes that two readers mix are a member of `Torn`,
  whatever they are. `ArgStream` has every byte, for one reader. Too long arguments,
  and the bytes behind the last NUL, are there too, not in `Xvp`. Arguments in
  a file differ, so that "the same argument twice" can be told. The calls between two visible points
  (for instance `close` and `delete_script` at 585-587) are one step; `ArgFile`
  has them apart. Signals to xvp itself, reuse of process ids, the `default` branch
  of the wait (`CLD_TRAPPED`) and a failing `realloc(3)` during a copy are left
  out; `StrVec` has the last. What may end `run()` in front of its loop is told apart
  by its kind only, memory (`alloc`) or the file (`open`).
- `ArgFile`: all objects are on one device, and an inode is handed on at most
  once. The offset of an inherited stdin is not modelled.
- `Startup`: the fallbacks of `get_arg_max()` for systems without
  `sysconf(_SC_ARG_MAX)`; `-h` and refused options end with the usage text, whose
  wording is left out. `roundbyl()` of the environment is exact below 2^31 bytes.
- `StrVec`: lengths from 2^31 bytes on, where `roundbyl()` returns an `int`
  (`RoundsUp` says up to where it is right).
- `Vectors`: an item is a value, and what the bytes behind `_used` were before
  they are written is not kept. Functions that only read (`get`, `used`, ...) are not
  steps. The model ends (`fault`) when an item is read from a block that has
  moved, an object is used after it was assigned to another, or an item would be
  written behind a block whose growth was refused; nothing is said of what the
  program does then.
- `LogStderr`: one call after the other, with any lengths of a set of natural numbers; the timestamp has whatever
  length `strftime(3)` gave it.
- `NumOps`: the fallbacks are modelled; a compiler's builtins are taken to agree
  with them. All arguments of a call have one width; `Aligns` and `OffsetsFit` take
  the word of `memfun_align` to have 8 bytes, and `Grows` blocks of 4 bytes.

Not modelled: the copy construction, assignment and `walk` of `str.hh`, which xvp
never uses and which would need the aliasing of `Vectors` again in `StrVec`; the
macros of `misc/cc-inline.h`, `dumb-recurse.h` and the `ext-c` headers, which
have no behaviour of their own; the output of `-i`, the wording of messages, and
the build.

## 7. Plan

1. Extend the models: `str` as a client of `Vectors`, with `Vectors!Append` in place of
   the blocks of `StrVec`.
2. Prove the composition of the reader with the run loop, which §2 argues from
   the two refinements: one theorem over `ArgStream` and `Xvp` together.
