------------------------------ MODULE Startup ------------------------------
(***************************************************************************)
(* main() of src/xvp.cc up to run(): parse_opts() and prepare(), which set *)
(* the options and the limits that module Xvp takes as constants.          *)
(*                                                                         *)
(* An option is its letter, "?" one that getopt(3) refuses.  An            *)
(* environment is the sum of its strings, with their NULs, and how many    *)
(* they are, a byte each at least; a path is the length of the file name   *)
(* that execvp looks up.                                                   *)
(***************************************************************************)
EXTENDS Integers, Sequences

CONSTANTS
  Lines,       \* the options of a command line, sequences of letters
  Operands,    \* how many words may follow them
  Envs,        \* environments: [bytes, count]
  Paths,       \* what the kernel copies besides the strings: file names
  Stacks,      \* soft limits of RLIMIT_STACK
  InitUseds,   \* argv_init.used()
  Page,        \* memfun_page_default
  SizeMax,     \* SIZE_MAX + 1
  LegacyMax,   \* the least limit of execve(2)
  KernelCap    \* the greatest

WORD == 8      \* sizeof(size_t), sizeof(char *)
argc_padding == 4

E2BIG == 7
EINVAL == 22

Switch == {"a", "c", "f", "i", "n", "s", "u"}
Letter == Switch \cup {"h", "?"}

ASSUME StartupAssumption ==
  /\ Lines \subseteq Seq(Letter) /\ Operands \subseteq Nat
  /\ Envs \subseteq [bytes : Nat, count : Nat]
  /\ Paths \subseteq Nat /\ Stacks \subseteq Nat /\ InitUseds \subseteq Nat
  /\ Page \in Nat \ {0} /\ Page % 2 = 0
  /\ KernelCap \in Nat /\ LegacyMax \in 0 .. KernelCap /\ LegacyMax < SizeMax
  /\ SizeMax \in Nat \ {0}
  /\ \A s \in Stacks : s < SizeMax
  /\ \A e \in Envs : e.count <= e.bytes /\ e.bytes + 2 * Page < SizeMax

VARIABLES
  line,       \* the options given
  operands,   \* argc - optind at the end of parse_opts()
  todo,       \* the options that getopt(3) has not returned yet
  opt,        \* opt: the options that are set
  env,        \* environ
  path,       \* the file name of <program>
  stack,      \* the limit on the stack
  size_env,
  size_args,
  argc_max,
  pc,         \* "main", "opts", "prepare", "run", "exit"
  code        \* what exit(3) was called with

vars == <<line, operands, todo, opt, env, path, stack, size_env, size_args,
          argc_max, pc, code>>
world == <<line, operands, env, path, stack>>
limits == <<size_env, size_args, argc_max>>

Init ==
  /\ line \in Lines
  /\ operands \in Operands
  /\ todo = line
  /\ opt = {}
  /\ env = [bytes |-> 0, count |-> 0] /\ path = 0 /\ stack = 0
  /\ size_env = 0 /\ size_args = 0 /\ argc_max = 0
  /\ pc = "main"
  /\ code = 0

Exit(e) == pc' = "exit" /\ code' = e

(***************************************************************************)
(* main(): the usage text when nothing is given.                           *)
(***************************************************************************)
Main ==
  /\ pc = "main"
  /\ IF line = <<>> /\ operands = 0 THEN Exit(0)
     ELSE pc' = "opts" /\ UNCHANGED code
  /\ UNCHANGED <<world, todo, opt, limits>>

(***************************************************************************)
(* No option twice, -n and -s not together.                                *)
(***************************************************************************)
AcceptsForgetful(o) == o \notin opt  \* variant: -n and -s together
Accepts(o) == o \notin opt /\ (o \in {"n", "s"} => opt \cap {"n", "s"} = {})

TakeOption ==
  /\ pc = "opts"
  /\ todo # <<>>
  /\ LET o == Head(todo) IN
     IF o = "h" THEN Exit(0) /\ UNCHANGED opt
     ELSE IF o \in Switch /\ Accepts(o)
     THEN opt' = opt \cup {o} /\ UNCHANGED <<pc, code>>
     ELSE Exit(EINVAL) /\ UNCHANGED opt
  /\ todo' = Tail(todo)
  /\ UNCHANGED <<world, limits>>

(***************************************************************************)
(* sysconf(_SC_ARG_MAX) of the C library, and the limit of execve(2).      *)
(***************************************************************************)
Greater(a, b) == IF a > b THEN a ELSE b
Lesser(a, b) == IF a < b THEN a ELSE b
ArgMax == Greater(LegacyMax, stack \div 4)
KernelMax == Greater(LegacyMax, Lesser(KernelCap, stack \div 4))

(***************************************************************************)
(* The end of the options: <program> and <arg file> must follow, or -i be  *)
(* among them.  What the next step looks at is chosen here: execve(2) has  *)
(* let xvp itself in with this environment.                                *)
(***************************************************************************)
OptionsDone ==
  /\ pc = "opts"
  /\ todo = <<>>
  /\ IF operands < 2 /\ "i" \notin opt
     THEN Exit(EINVAL) /\ UNCHANGED <<env, path, stack>>
     ELSE /\ pc' = "prepare"
          /\ env' \in Envs /\ path' \in Paths /\ stack' \in Stacks
          /\ env'.bytes + env'.count * WORD <= KernelMax'
          /\ UNCHANGED code
  /\ UNCHANGED <<line, operands, todo, opt, limits>>

(***************************************************************************)
(* size_env: whole pages, with more than half a page to spare.             *)
(***************************************************************************)
Headroom == Page \div 2
RoundUp(n) == ((n + Page - 1) \div Page) * Page

SizeEnvTight ==  \* variant: the second page is forgotten
  IF "c" \in opt THEN Headroom ELSE RoundUp(env.bytes)

SizeEnv ==
  LET x == RoundUp(env.bytes) IN
  IF "c" \in opt THEN Headroom
  ELSE IF x - env.bytes <= Headroom THEN x + Page ELSE x

(***************************************************************************)
(* size_t arithmetic.                                                      *)
(***************************************************************************)
MinusSigned(a, b) == a - b  \* variant: int for size_t
Minus(a, b) == (a - b) % SizeMax

(***************************************************************************)
(* argv_init: arg0 or <program>, and what is between it and <arg file>; a  *)
(* missing <program> is a null pointer, which append() refuses.            *)
(***************************************************************************)
InitCount ==
  IF operands = 0 THEN IF "a" \in opt THEN 1 ELSE 0
  ELSE Greater(1, operands - 1)

Prepare ==
  /\ pc = "prepare"
  /\ size_env' = SizeEnv
  /\ LET size == Minus(ArgMax, SizeEnv) IN
       /\ argc_max' = Minus(size \div WORD, argc_padding)
       /\ size_args' = Minus(size, argc_padding * WORD)
  /\ \E used \in InitUseds :
       /\ used >= InitCount * WORD /\ (InitCount = 0 => used = 0)
       /\ IF InitCount > argc_max' \/ used + InitCount * WORD > size_args'
          THEN Exit(E2BIG)
          ELSE pc' = "run" /\ UNCHANGED code
  /\ UNCHANGED <<world, todo, opt>>

Done == pc \in {"run", "exit"} /\ UNCHANGED vars

Next == Main \/ TakeOption \/ OptionsDone \/ Prepare \/ Done

Spec == Init /\ [][Next]_vars

----------------------------------------------------------------------------
TypeOK ==
  /\ line \in Seq(Letter) /\ todo \in Seq(Letter) /\ operands \in Nat
  /\ opt \subseteq Switch
  /\ env \in [bytes : Nat, count : Nat] /\ path \in Nat /\ stack \in Nat
  /\ size_env \in Nat
  /\ size_args \in 0 .. SizeMax - 1
  /\ argc_max \in 0 .. SizeMax - 1
  /\ pc \in {"main", "opts", "prepare", "run", "exit"}
  /\ code \in {0, E2BIG, EINVAL}

(***************************************************************************)
(* In whatever order the options come, xvp goes on exactly with the sets   *)
(* that the usage text allows (lines 50-70: no option twice, "-n" and "-s" *)
(* mutually exclusive), all of them set; it ends with 0 before run() only  *)
(* for -h behind legal options, or when nothing is given.                  *)
(***************************************************************************)
Given == {line[i] : i \in DOMAIN line}
Legal(n) ==
  /\ \A i \in 1 .. n : line[i] \in Switch
  /\ \A i, j \in 1 .. n :
       i # j => line[i] # line[j] /\ ~(line[i] = "n" /\ line[j] = "s")
Parsed == pc \in {"prepare", "run"} \/ (pc = "exit" /\ code = E2BIG)

ParsesExact ==
  /\ Parsed => opt = Given
  /\ Parsed \/ pc = "exit" =>
       (Parsed <=> Legal(Len(line)) /\ (operands >= 2 \/ "i" \in Given))
  /\ pc = "exit" /\ code = 0 =>
       \/ line = <<>> /\ operands = 0
       \/ \E i \in DOMAIN line : line[i] = "h" /\ Legal(i - 1)

(***************************************************************************)
(* The largest batch that WithinLimit of module Xvp allows, the            *)
(* environment, the pointers to it and the file name fit execve(2), if the *)
(* last two fit half a page (POSIX_ENV_HEADROOM, line 236), the stack has  *)
(* a limit below what the kernel caps it at, and the environment leaves    *)
(* room for argc_padding: otherwise size_t wraps (lines 244-246).          *)
(***************************************************************************)
EnvBytes == IF "c" \in opt THEN 0 ELSE env.bytes
EnvCount == IF "c" \in opt THEN 0 ELSE env.count
LargestBatch == size_args + argc_padding * WORD - WORD

LimitsFit ==
  pc = "run" /\ stack \div 4 <= KernelCap
    /\ EnvCount * WORD + path <= Headroom
    /\ size_env + argc_padding * WORD <= ArgMax
  => LargestBatch + EnvBytes + EnvCount * WORD + path <= KernelMax

(***************************************************************************)
(* -i prints size_args as "Maximum arguments length, current" beside       *)
(* "Maximum arguments length, system" (lines 341, 342): it is a part of it.*)
(***************************************************************************)
CurrentWithinSystem == pc = "run" => size_args <= ArgMax
=============================================================================
