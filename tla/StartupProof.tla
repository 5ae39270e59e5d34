---------------------------- MODULE StartupProof ----------------------------
(***************************************************************************)
(* Proof that the largest batch fits execve(2), for every page size, every *)
(* width of size_t and every environment (LimitsFit of module Startup).    *)
(***************************************************************************)
EXTENDS Startup, TLAPS

(***************************************************************************)
(* Division with remainder.                                                *)
(***************************************************************************)
LEMMA DivMod ==
  ASSUME NEW n \in Int, NEW m \in Nat \ {0}
  PROVE  /\ n \div m \in Int
         /\ n >= 0 => n \div m >= 0
         /\ n % m \in 0 .. m - 1
         /\ n = m * (n \div m) + (n % m)
BY Z3

(***************************************************************************)
(* A number that fits size_t is not changed.                               *)
(***************************************************************************)
LEMMA MinusExact ==
  ASSUME NEW a \in Nat, NEW b \in Nat, b <= a, a < SizeMax
  PROVE  Minus(a, b) = a - b
BY StartupAssumption, Z3 DEF Minus

(***************************************************************************)
(* Rounding up never rounds down.                                          *)
(***************************************************************************)
LEMMA RoundUpAbove ==
  ASSUME NEW n \in Nat
  PROVE  RoundUp(n) \in Nat /\ RoundUp(n) >= n
<1> DEFINE q == (n + Page - 1) \div Page
           r == (n + Page - 1) % Page
<1>1. n + Page - 1 \in Int /\ n + Page - 1 >= 0 /\ Page \in Nat \ {0}
  BY StartupAssumption
<1>2. q \in Int /\ q >= 0 /\ r \in 0 .. Page - 1 /\ n + Page - 1 = Page * q + r
  BY <1>1, DivMod
<1> HIDE DEF q, r
<1>3. q * Page = Page * q /\ q * Page \in Nat
  BY <1>2, StartupAssumption, Z3
<1>4. q * Page >= n
  BY <1>2, <1>3, StartupAssumption, Z3
<1> QED
  BY <1>3, <1>4 DEF RoundUp, q

(***************************************************************************)
(* size_env is a size, above the environment by POSIX_ENV_HEADROOM.        *)
(***************************************************************************)
LEMMA SizeEnvAbove ==
  ASSUME TypeOK
  PROVE  SizeEnv \in Nat /\ SizeEnv >= EnvBytes + Headroom
<1>1. env.bytes \in Nat
  BY DEF TypeOK
<1>2. Headroom \in Nat /\ Headroom <= Page /\ Page \in Nat
  BY StartupAssumption, Z3 DEF Headroom
<1>3. RoundUp(env.bytes) \in Nat /\ RoundUp(env.bytes) >= env.bytes
  BY <1>1, RoundUpAbove
<1> QED
  BY <1>1, <1>2, <1>3 DEF SizeEnv, EnvBytes

LEMMA ArgMaxType ==
  ASSUME TypeOK, stack < SizeMax
  PROVE  ArgMax \in Nat /\ ArgMax < SizeMax
<1>1. stack \in Nat /\ SizeMax \in Nat
  BY StartupAssumption DEF TypeOK
<1>2. stack \div 4 \in Nat /\ stack \div 4 <= stack
  BY <1>1, Z3
<1> QED
  BY <1>1, <1>2, StartupAssumption DEF ArgMax, Greater

LEMMA MinusType ==
  ASSUME NEW a \in Int, NEW b \in Int
  PROVE  Minus(a, b) \in 0 .. SizeMax - 1
<1>1. a - b \in Int /\ SizeMax \in Nat \ {0}
  BY StartupAssumption
<1> QED
  BY <1>1, DivMod DEF Minus

(***************************************************************************)
(* What run() is started with.                                             *)
(***************************************************************************)
PreparedInv ==
  /\ stack < SizeMax
  /\ pc = "run" =>
       /\ size_env = SizeEnv
       /\ size_args = Minus(Minus(ArgMax, SizeEnv), argc_padding * WORD)

Inv == TypeOK /\ PreparedInv

LEMMA InitInv == Init => Inv
<1> SUFFICES ASSUME Init PROVE Inv
  OBVIOUS
<1>1. TypeOK
  BY StartupAssumption DEF Init, TypeOK
<1> QED
  BY <1>1, StartupAssumption DEF Init, Inv, PreparedInv

LEMMA PrepareInv ==
  ASSUME Inv, Prepare
  PROVE  Inv'
<1>1. ArgMax \in Nat /\ SizeEnv \in Nat
  BY ArgMaxType, SizeEnvAbove DEF Inv, PreparedInv
<1> DEFINE size == Minus(ArgMax, SizeEnv)
<1>2. size \in 0 .. SizeMax - 1
  BY <1>1, MinusType
<1>3. size \div WORD \in Int
  BY <1>2, StartupAssumption, Z3 DEF WORD
<1>4. argc_max' = Minus(size \div WORD, argc_padding)
      /\ size_args' = Minus(size, argc_padding * WORD)
      /\ size_env' = SizeEnv
  BY DEF Prepare
<1> HIDE DEF size
<1>5. argc_max' \in 0 .. SizeMax - 1 /\ size_args' \in 0 .. SizeMax - 1
  BY <1>2, <1>3, <1>4, MinusType DEF argc_padding, WORD
<1>6. pc' \in {"run", "exit"} /\ code' \in {0, E2BIG, EINVAL}
  BY DEF Prepare, Exit, Inv, TypeOK
<1>7. UNCHANGED <<line, operands, env, path, stack, todo, opt>>
  BY DEF Prepare, world
<1>8. TypeOK'
  BY <1>1, <1>4, <1>5, <1>6, <1>7 DEF Inv, TypeOK
<1>9. SizeEnv' = SizeEnv /\ ArgMax' = ArgMax
  BY <1>7 DEF SizeEnv, ArgMax
<1>10. PreparedInv'
  <2>1. size_args' = Minus(Minus(ArgMax, SizeEnv), argc_padding * WORD)
    BY <1>4 DEF size
  <2> QED
    BY <1>4, <1>7, <1>9, <2>1 DEF Inv, PreparedInv, Minus
<1> QED
  BY <1>8, <1>10 DEF Inv

LEMMA OptionsInv ==
  ASSUME Inv, Main \/ TakeOption \/ OptionsDone
  PROVE  Inv'
<1>1. CASE Main
  <2>1. TypeOK'
    BY <1>1 DEF Main, Exit, world, limits, Inv, TypeOK
  <2> QED
    BY <1>1, <2>1 DEF Main, Exit, world, Inv, PreparedInv
<1>2. CASE TakeOption
  <2>1. todo' \in Seq(Letter)
    BY <1>2 DEF TakeOption, Inv, TypeOK
  <2>2. opt' \subseteq Switch
    BY <1>2 DEF TakeOption, Inv, TypeOK
  <2>3. pc' \in {"opts", "exit"} /\ code' \in {0, E2BIG, EINVAL}
    BY <1>2 DEF TakeOption, Exit, Inv, TypeOK
  <2>4. UNCHANGED <<line, operands, env, path, stack, size_env, size_args,
                    argc_max>>
    BY <1>2 DEF TakeOption, world, limits
  <2>5. TypeOK'
    BY <2>1, <2>2, <2>3, <2>4 DEF Inv, TypeOK
  <2> QED
    BY <2>3, <2>4, <2>5 DEF Inv, PreparedInv
<1>3. CASE OptionsDone
  <2>1. /\ env' \in [bytes : Nat, count : Nat] /\ path' \in Nat
        /\ stack' \in Nat /\ stack' < SizeMax
    BY <1>3, StartupAssumption DEF OptionsDone, Inv, TypeOK, PreparedInv
  <2>2. pc' \in {"prepare", "exit"} /\ code' \in {0, E2BIG, EINVAL}
    BY <1>3 DEF OptionsDone, Exit, Inv, TypeOK
  <2>3. UNCHANGED <<line, operands, todo, opt, size_env, size_args, argc_max>>
    BY <1>3 DEF OptionsDone, limits
  <2>4. TypeOK'
    BY <2>1, <2>2, <2>3 DEF Inv, TypeOK
  <2> QED
    BY <2>1, <2>2, <2>4 DEF Inv, PreparedInv
<1> QED
  BY <1>1, <1>2, <1>3

LEMMA StepInv == Inv /\ [Next]_vars => Inv'
<1> SUFFICES ASSUME Inv, [Next]_vars PROVE Inv'
  OBVIOUS
<1>1. CASE UNCHANGED vars
  <2>1. UNCHANGED <<SizeEnv, ArgMax>>
    BY <1>1 DEF vars, SizeEnv, ArgMax
  <2>2. TypeOK'
    BY <1>1 DEF vars, Inv, TypeOK
  <2>3. PreparedInv'
    BY <1>1, <2>1 DEF vars, Inv, PreparedInv, Minus
  <2> QED
    BY <2>2, <2>3 DEF Inv
<1>2. CASE Prepare
  BY <1>2, PrepareInv
<1>3. CASE Main \/ TakeOption \/ OptionsDone
  BY <1>3, OptionsInv
<1> QED
  BY <1>1, <1>2, <1>3 DEF Next, Done

(***************************************************************************)
(* The largest batch that xvp makes, the environment, the pointers to it   *)
(* and the file name fit execve(2): prepare() (lines 232-246) leaves room. *)
(***************************************************************************)
LEMMA InvFits == Inv => LimitsFit
<1> SUFFICES ASSUME Inv,
                    pc = "run", stack \div 4 <= KernelCap,
                    EnvCount * WORD + path <= Headroom,
                    size_env + argc_padding * WORD <= ArgMax
             PROVE  LargestBatch + EnvBytes + EnvCount * WORD + path
                      <= KernelMax
  BY DEF LimitsFit
<1>1. /\ ArgMax \in Nat /\ ArgMax < SizeMax
      /\ SizeEnv \in Nat /\ SizeEnv >= EnvBytes + Headroom
  BY ArgMaxType, SizeEnvAbove DEF Inv, PreparedInv
<1>2. size_env = SizeEnv /\ SizeEnv + 32 <= ArgMax
  BY DEF Inv, PreparedInv, argc_padding, WORD
<1>3. Minus(ArgMax, SizeEnv) = ArgMax - SizeEnv
  BY <1>1, <1>2, MinusExact
<1>4. Minus(ArgMax - SizeEnv, 32) = ArgMax - SizeEnv - 32
  <2>1. ArgMax - SizeEnv \in Nat /\ ArgMax - SizeEnv < SizeMax
        /\ 32 <= ArgMax - SizeEnv
    BY <1>1, <1>2, StartupAssumption
  <2> QED
    BY <2>1, MinusExact
<1>5. size_args = ArgMax - SizeEnv - 32
  <2>1. argc_padding * WORD = 32
    BY DEF argc_padding, WORD
  <2>2. size_args = Minus(Minus(ArgMax, SizeEnv), argc_padding * WORD)
    BY DEF Inv, PreparedInv
  <2> QED
    BY <1>3, <1>4, <2>1, <2>2
<1>6. LargestBatch = ArgMax - SizeEnv - 8
  BY <1>1, <1>5 DEF LargestBatch, argc_padding, WORD
<1>7. ArgMax = KernelMax
  <2>1. stack \div 4 \in Int
    BY Z3 DEF Inv, TypeOK
  <2> QED
    BY <2>1, StartupAssumption DEF ArgMax, KernelMax, Greater, Lesser
<1>8. /\ EnvBytes \in Nat /\ EnvCount * WORD \in Nat
      /\ path \in Nat /\ Headroom \in Nat
  BY StartupAssumption, Z3 DEF Inv, TypeOK, EnvBytes, EnvCount, WORD, Headroom
<1> QED
  BY <1>1, <1>6, <1>7, <1>8

(***************************************************************************)
(* Every variable of Startup keeps its type.                               *)
(***************************************************************************)
THEOREM StartupTypeCorrect == Spec => []TypeOK
<1>1. Inv => TypeOK
  BY DEF Inv
<1> QED
  BY InitInv, StepInv, <1>1, PTL DEF Spec

(***************************************************************************)
(* The limits that prepare() computes are those of execve(2).              *)
(***************************************************************************)
THEOREM LimitsFitHolds == Spec => []LimitsFit
BY InitInv, StepInv, InvFits, PTL DEF Spec

(***************************************************************************)
(* While parse_opts() runs, the options behind it are legal, and those     *)
(* that are set; the others are still to come.                             *)
(***************************************************************************)
Behind == Len(line) - Len(todo)

ParseInv ==
  /\ Behind \in 0 .. Len(line)
  /\ \A i \in 1 .. Len(todo) : todo[i] = line[Behind + i]
  /\ pc = "main" => opt = {} /\ Behind = 0
  /\ pc = "opts" => opt = {line[i] : i \in 1 .. Behind} /\ Legal(Behind)

LEMMA InitParses == Init => ParseInv /\ ParsesExact
<1> SUFFICES ASSUME Init PROVE ParseInv /\ ParsesExact
  OBVIOUS
<1>1. line \in Seq(Letter) /\ todo = line /\ pc = "main" /\ opt = {}
  BY StartupAssumption DEF Init
<1>2. Len(line) \in Nat /\ Behind = 0
  BY <1>1 DEF Behind
<1> QED BY <1>1, <1>2 DEF ParseInv, ParsesExact, Parsed

LEMMA MainParses ==
  ASSUME Inv, ParseInv, Main
  PROVE  ParseInv' /\ ParsesExact'
<1>1. UNCHANGED <<line, operands, todo, opt>> /\ pc = "main"
  BY DEF Main, world
<1>2. Behind' = Behind /\ opt = {} /\ Behind = 0 /\ Given' = Given
  BY <1>1 DEF Behind, ParseInv, Given
<1>3. \/ pc' = "opts"
      \/ pc' = "exit" /\ code' = 0 /\ line = <<>> /\ operands = 0
  BY DEF Main, Exit
<1>4. ParseInv'
  BY <1>1, <1>2, <1>3 DEF ParseInv, Legal
<1>5. ParsesExact'
  <2>1. line = <<>> => Given = {}
    BY DEF Given
  <2> QED BY <1>1, <1>2, <1>3, <2>1 DEF ParsesExact, Parsed, E2BIG
<1> QED BY <1>4, <1>5

(***************************************************************************)
(* An option is refused exactly when it makes the line illegal.            *)
(***************************************************************************)
LEMMA AcceptsLegal ==
  ASSUME Inv, ParseInv, pc = "opts", todo # <<>>
  PROVE  /\ Behind + 1 \in 1 .. Len(line) /\ Head(todo) = line[Behind + 1]
         /\ Head(todo) \in Switch /\ Accepts(Head(todo)) <=> Legal(Behind + 1)
<1> DEFINE k == Behind
           o == Head(todo)
<1>1. /\ line \in Seq(Letter) /\ todo \in Seq(Letter)
      /\ Len(line) \in Nat /\ Len(todo) \in Nat /\ Len(todo) >= 1
  BY DEF Inv, TypeOK
<1>2. k \in Nat /\ k + 1 \in 1 .. Len(line) /\ o = line[k + 1]
  BY <1>1 DEF ParseInv, Behind
<1>3. opt = {line[i] : i \in 1 .. k} /\ Legal(k)
  BY DEF ParseInv
<1> HIDE DEF k, o
<1>4. ASSUME o \in Switch, Accepts(o) PROVE Legal(k + 1)
  <2>1. ASSUME NEW i \in 1 .. k + 1 PROVE line[i] \in Switch
    BY <1>2, <1>3, <1>4 DEF Legal
  <2>2. ASSUME NEW i \in 1 .. k
        PROVE  /\ line[i] # o /\ ~(line[i] = "n" /\ o = "s")
               /\ ~(line[i] = "s" /\ o = "n")
    BY <1>3, <1>4, <2>2 DEF Accepts
  <2>3. ASSUME NEW i \in 1 .. k + 1, NEW j \in 1 .. k + 1, i # j
        PROVE  line[i] # line[j] /\ ~(line[i] = "n" /\ line[j] = "s")
    <3>1. CASE i = k + 1
      BY <1>2, <2>2, <2>3, <3>1
    <3>2. CASE j = k + 1
      BY <1>2, <2>2, <2>3, <3>2
    <3>3. CASE i \in 1 .. k /\ j \in 1 .. k
      BY <1>3, <2>3, <3>3 DEF Legal
    <3> QED BY <1>2, <3>1, <3>2, <3>3
  <2> QED BY <2>1, <2>3 DEF Legal
<1>5. ASSUME Legal(k + 1) PROVE o \in Switch /\ Accepts(o)
  <2>1. o \in Switch
    BY <1>2, <1>5 DEF Legal
  <2>2. ASSUME NEW i \in 1 .. k
        PROVE  /\ line[i] # o /\ ~(line[i] = "n" /\ o = "s")
               /\ ~(o = "n" /\ line[i] = "s")
    <3>1. i \in 1 .. k + 1 /\ k + 1 \in 1 .. k + 1 /\ i # k + 1
      BY <1>2
    <3> QED BY <1>2, <1>5, <3>1 DEF Legal
  <2>3. o \notin opt
    BY <1>3, <2>2
  <2>4. ASSUME o \in {"n", "s"}, NEW x \in opt \cap {"n", "s"} PROVE FALSE
    BY <1>3, <2>2, <2>4
  <2> QED BY <2>1, <2>3, <2>4 DEF Accepts
<1>6. o \in Switch /\ Accepts(o) <=> Legal(k + 1)
  BY <1>4, <1>5
<1> QED BY <1>2, <1>6 DEF k, o

LEMMA LegalPrefix ==
  ASSUME NEW n \in Nat, NEW m \in 0 .. n, Legal(n)
  PROVE  Legal(m)
BY DEF Legal

LEMMA TakeOptionParses ==
  ASSUME Inv, ParseInv, TakeOption
  PROVE  ParseInv' /\ ParsesExact'
<1> DEFINE o == Head(todo)
<1>1. /\ pc = "opts" /\ todo # <<>> /\ todo' = Tail(todo)
      /\ UNCHANGED <<line, operands>>
  BY DEF TakeOption, world
<1>2. /\ line \in Seq(Letter) /\ todo \in Seq(Letter)
      /\ Len(line) \in Nat /\ Len(todo) \in Nat /\ Len(todo) >= 1
  BY <1>1 DEF Inv, TypeOK
<1>3. /\ Behind + 1 \in 1 .. Len(line) /\ o = line[Behind + 1]
      /\ o \in Switch /\ Accepts(o) <=> Legal(Behind + 1)
  BY <1>1, AcceptsLegal
<1>4. /\ Len(todo') = Len(todo) - 1 /\ Behind' = Behind + 1
      /\ \A i \in 1 .. Len(todo') : todo'[i] = todo[i + 1]
  BY <1>1, <1>2 DEF Behind
<1>5. /\ Behind \in Nat /\ opt = {line[i] : i \in 1 .. Behind}
      /\ Legal(Behind)
  BY <1>1, <1>2 DEF ParseInv
<1>6. \A i \in 1 .. Len(todo') : todo'[i] = line'[Behind' + i]
  <2> SUFFICES ASSUME NEW i \in 1 .. Len(todo')
               PROVE  todo'[i] = line[Behind + 1 + i]
    BY <1>1, <1>4
  <2>1. i + 1 \in 1 .. Len(todo) /\ Behind + 1 + i = Behind + (i + 1)
    BY <1>2, <1>4, <1>5
  <2> QED BY <1>4, <2>1 DEF ParseInv
<1>7. ASSUME ~Legal(Behind + 1) PROVE ~Legal(Len(line))
  BY <1>2, <1>3, <1>7, LegalPrefix
<1>8. CASE o = "h"
  <2>1. pc' = "exit" /\ code' = 0
    BY <1>8 DEF TakeOption, Exit
  <2>2. ~Legal(Behind + 1)
    BY <1>3, <1>8 DEF Switch
  <2>3. Behind + 1 \in DOMAIN line /\ line[Behind + 1] = "h"
    BY <1>2, <1>3, <1>5, <1>8
  <2>4. ~Legal(Len(line)) /\ ~Legal(Len(line))'
    BY <1>1, <1>7, <2>2 DEF Legal
  <2>5. (\E i \in DOMAIN line : line[i] = "h" /\ Legal(i - 1))'
    <3>1. PICK i \in DOMAIN line : i = Behind + 1
      BY <2>3
    <3>2. i \in DOMAIN line' /\ line'[i] = "h" /\ i - 1 = Behind
      BY <1>1, <1>5, <2>3, <3>1
    <3>3. Legal(i - 1)'
      BY <1>1, <1>5, <3>2 DEF Legal
    <3> QED BY <3>2, <3>3
  <2>6. ParsesExact'
    BY <2>1, <2>4, <2>5 DEF ParsesExact, Parsed, E2BIG
  <2>7. ParseInv'
    BY <1>1, <1>3, <1>4, <1>6, <2>1 DEF ParseInv
  <2> QED BY <2>6, <2>7
<1>9. CASE o # "h" /\ Legal(Behind + 1)
  <2>1. pc' = "opts" /\ opt' = opt \cup {o}
    BY <1>1, <1>3, <1>9 DEF TakeOption
  <2>2. opt' = {line[i] : i \in 1 .. Behind + 1}
    <3>1. 1 .. Behind + 1 = (1 .. Behind) \cup {Behind + 1}
      BY <1>5
    <3> QED BY <1>3, <1>5, <2>1, <3>1
  <2>3. Legal(Behind)'
    BY <1>1, <1>4, <1>9 DEF Legal
  <2>4. ParseInv'
    BY <1>1, <1>3, <1>4, <1>6, <2>1, <2>2, <2>3 DEF ParseInv
  <2>5. ParsesExact'
    BY <2>1 DEF ParsesExact, Parsed
  <2> QED BY <2>4, <2>5
<1>10. CASE o # "h" /\ ~Legal(Behind + 1)
  <2>1. pc' = "exit" /\ code' = EINVAL
    BY <1>3, <1>10 DEF TakeOption, Exit
  <2>2. ~Legal(Len(line))'
    BY <1>1, <1>7, <1>10 DEF Legal
  <2>3. ParsesExact'
    BY <2>1, <2>2 DEF ParsesExact, Parsed, E2BIG, EINVAL
  <2>4. ParseInv'
    BY <1>1, <1>3, <1>4, <1>6, <2>1 DEF ParseInv
  <2> QED BY <2>3, <2>4
<1> QED BY <1>8, <1>9, <1>10

LEMMA OptionsDoneParses ==
  ASSUME Inv, ParseInv, OptionsDone
  PROVE  ParseInv' /\ ParsesExact'
<1>1. /\ pc = "opts" /\ todo = <<>>
      /\ UNCHANGED <<line, operands, todo, opt>>
  BY DEF OptionsDone
<1>2. line \in Seq(Letter) /\ Len(line) \in Nat /\ Behind = Len(line)
  BY <1>1 DEF Inv, TypeOK, Behind
<1>3. opt = Given /\ Legal(Len(line))
  BY <1>1, <1>2 DEF ParseInv, Given
<1>4. IF operands < 2 /\ "i" \notin opt
      THEN pc' = "exit" /\ code' = EINVAL ELSE pc' = "prepare"
  BY DEF OptionsDone, Exit
<1>5. Behind' = Behind /\ Given' = Given /\ Legal(Len(line))'
  BY <1>1, <1>3 DEF Behind, Given, Legal
<1>6. operands \in Nat
  BY DEF Inv, TypeOK
<1>7. ParsesExact'
  BY <1>1, <1>3, <1>4, <1>5, <1>6 DEF ParsesExact, Parsed, E2BIG, EINVAL
<1>8. ParseInv'
  BY <1>1, <1>4, <1>5 DEF ParseInv
<1> QED BY <1>7, <1>8

LEMMA PrepareParses ==
  ASSUME ParseInv, ParsesExact, Prepare
  PROVE  ParseInv' /\ ParsesExact'
<1>1. UNCHANGED <<line, operands, todo, opt>> /\ pc = "prepare"
  BY DEF Prepare, world
<1>2. pc' = "run" \/ (pc' = "exit" /\ code' = E2BIG)
  BY DEF Prepare, Exit
<1>3. Behind' = Behind /\ Given' = Given
      /\ (Legal(Len(line)) <=> Legal(Len(line))')
  BY <1>1 DEF Behind, Given, Legal
<1>4. ParseInv'
  BY <1>1, <1>2, <1>3 DEF ParseInv
<1>5. ParsesExact'
  BY <1>1, <1>2, <1>3 DEF ParsesExact, Parsed, E2BIG
<1> QED BY <1>4, <1>5

LEMMA StepParses ==
  Inv /\ ParseInv /\ ParsesExact /\ [Next]_vars => ParseInv' /\ ParsesExact'
<1> SUFFICES ASSUME Inv, ParseInv, ParsesExact, [Next]_vars
             PROVE  ParseInv' /\ ParsesExact'
  OBVIOUS
<1>1. CASE UNCHANGED vars
  BY <1>1 DEF vars, ParseInv, Behind, ParsesExact, Parsed, Given, Legal
<1> QED
  BY <1>1, MainParses, TakeOptionParses, OptionsDoneParses, PrepareParses
  DEF Next, Done

(***************************************************************************)
(* parse_opts() (lines 140-224) lets through exactly the command lines     *)
(* that the usage text allows, however long, with all of their options set.*)
(***************************************************************************)
THEOREM ParsesExactHolds == Spec => []ParsesExact
BY InitInv, StepInv, InitParses, StepParses, PTL DEF Spec
=============================================================================
