--------------------------- MODULE ArgStreamProof ---------------------------
(***************************************************************************)
(* The reader of module ArgStream, for every file, every size of the       *)
(* buffers and every way to cut the file: it never writes outside of       *)
(* buf_arg, what joins the batches are the arguments that the bytes read   *)
(* so far mean, and so it implements ArgRunner.                            *)
(***************************************************************************)
EXTENDS ArgStream, WellFoundedInduction, FiniteSetTheorems, TLAPS

LEMMA LeastNul ==
  ASSUME NEW S \in SUBSET Nat, S # {}
  PROVE  Min(S) \in S /\ \A y \in S : Min(S) <= y
<1> DEFINE Less == {ss \in Nat \X Nat : ss[1] < ss[2]}
<1>1. Less = OpToRel(<, Nat)
  BY Zenon DEF OpToRel
<1>2. IsWellFoundedOn(Less, Nat)
  BY <1>1, NatLessThanWellFounded, Zenon
<1> HIDE DEF Less
<1>3. PICK x \in S : \A y \in S : ~(<<y, x>> \in Less)
  BY <1>2, WFMin
<1>4. ASSUME NEW y \in S PROVE x <= y
  <2>1. x \in Nat /\ y \in Nat
    OBVIOUS
  <2>2. y < x => <<y, x>> \in Less
    BY <2>1 DEF Less
  <2> QED
    BY <2>1, <2>2, <1>3
<1> QED
  BY <1>4 DEF Min

LEMMA Empty ==
  ASSUME NEW S
  PROVE  <<>> \in Seq(S) /\ Len(<<>>) = 0
OBVIOUS

(***************************************************************************)
(* strnlen: the bytes before the first NUL, and what is behind it.         *)
(***************************************************************************)
LEMMA BlockBounds ==
  ASSUME buf \in Seq(Byte)
  PROVE  /\ Block \in 0 .. Len(buf) /\ \A i \in 1 .. Block : buf[i] \in Letter
         /\ ~Unfinished => Block + 1 <= Len(buf) /\ buf[Block + 1] = NUL
<1>1. Nuls(buf) \in SUBSET Nat /\ Nuls(buf) = {i \in 1 .. Len(buf) : buf[i] = NUL}
  BY DEF Nuls
<1>2. \A i \in 1 .. Len(buf) : buf[i] \in Byte
  OBVIOUS
<1>3. CASE Nuls(buf) = {}
  BY <1>1, <1>2, <1>3 DEF Block, Unfinished, Byte
<1>4. CASE Nuls(buf) # {}
  <2> DEFINE first == Min(Nuls(buf))
  <2>1. first \in Nuls(buf) /\ \A i \in Nuls(buf) : first <= i
    BY <1>1, <1>4, LeastNul
  <2>2. Block = first - 1
    BY <1>4 DEF Block
  <2> HIDE DEF first
  <2> QED
    BY <1>1, <1>2, <2>1, <2>2 DEF Unfinished, Byte
<1> QED
  BY <1>3, <1>4

LEMMA Blocks ==
  ASSUME buf \in Seq(Byte)
  PROVE  /\ SubSeq(buf, 1, Block) \in Seq(Letter) /\ Len(SubSeq(buf, 1, Block)) = Block
         /\ ~Unfinished => /\ BehindNul \in Seq(Byte)
                           /\ Len(BehindNul) = Len(buf) - Block - 1
                           /\ \A i \in 1 .. Len(BehindNul) :
                                BehindNul[i] = buf[Block + 1 + i]
<1>1. /\ Block \in 0 .. Len(buf) /\ \A i \in 1 .. Block : buf[i] \in Letter
      /\ ~Unfinished => Block + 1 <= Len(buf)
  BY BlockBounds
<1>2. SubSeq(buf, 1, Block) \in Seq(Letter) /\ Len(SubSeq(buf, 1, Block)) = Block
  <2> DEFINE s == SubSeq(buf, 1, Block)
  <2>1. s = [i \in 1 .. Block |-> buf[i]]
    BY <1>1
  <2> QED
    BY <1>1, <2>1
<1>3. ASSUME ~Unfinished
      PROVE  /\ BehindNul \in Seq(Byte) /\ Len(BehindNul) = Len(buf) - Block - 1
             /\ \A i \in 1 .. Len(BehindNul) : BehindNul[i] = buf[Block + 1 + i]
  BY <1>1, <1>3 DEF BehindNul
<1> QED
  BY <1>2, <1>3

(***************************************************************************)
(* The invariant.  buf_arg has all of the part, unless it is too long; an  *)
(* argument that waits for the next batch fits.  And where the part is in  *)
(* the file: Pos bytes are consumed.                                       *)
(***************************************************************************)
StoreInv ==
  /\ TypeOK /\ InBufArg
  /\ ~TooLong(total) => Len(stored) = total
  /\ pend => pc = "top" /\ ~TooLong(total)

Pos == Len(file) - Len(rest) - Len(buf)

PartInv ==
  /\ Len(buf) + Len(rest) <= Len(file)
  /\ \A i \in 1 .. Len(buf) : buf[i] = file[Pos + i]
  /\ \A i \in 1 .. Len(rest) : rest[i] = file[Len(file) - Len(rest) + i]
  /\ pend => Pos >= 1 /\ file[Pos] = NUL
  /\ ~pend => /\ total <= Pos
              /\ \A i \in Pos - total + 1 .. Pos : file[i] # NUL
              /\ total # Pos => file[Pos - total] = NUL
              /\ ~TooLong(total) => \A i \in 1 .. total : stored[i] = file[Pos - total + i]

LEMMA StoredFits ==
  ASSUME StoreInv, ~TooLong(total + Block)
  PROVE  /\ Stored \in Seq(Letter) /\ Len(Stored) = total + Block
         /\ total + Block \in Nat /\ total + Block + 1 < MaxLen
         /\ ~TooLong(total)
         /\ \A i \in 1 .. total : Stored[i] = stored[i]
         /\ \A i \in 1 .. Block : Stored[total + i] = buf[i]
<1>1. /\ Block \in Nat /\ total \in Nat /\ MaxLen \in Nat
      /\ stored \in Seq(Letter) /\ buf \in Seq(Byte)
  BY BlockBounds, StreamAssumption DEF StoreInv, TypeOK
<1>2. total + Block + 1 < MaxLen /\ ~TooLong(total) /\ Len(stored) = total
  BY <1>1 DEF TooLong, StoreInv
<1>3. SubSeq(stored, 1, total) = stored
  BY <1>1, <1>2
<1>4. Stored = stored \o SubSeq(buf, 1, Block)
  BY <1>3 DEF Stored
<1>5. SubSeq(buf, 1, Block) \in Seq(Letter) /\ Len(SubSeq(buf, 1, Block)) = Block
      /\ Block <= Len(buf)
  BY <1>1, Blocks, BlockBounds
<1>6. \A i \in 1 .. Block : SubSeq(buf, 1, Block)[i] = buf[i]
  BY <1>1, <1>5
<1> QED
  BY <1>1, <1>2, <1>4, <1>5, <1>6

StreamInv == StoreInv /\ PartInv

LEMMA StreamInit ==
  Init => StreamInv
<1> SUFFICES ASSUME Init PROVE StreamInv
  OBVIOUS
<1>1. /\ file \in Seq(Byte) /\ rest = file /\ pc = "top" /\ buf = <<>> /\ total = 0
      /\ stored = <<>> /\ pend = FALSE /\ out = <<>> /\ MaxLen \in Nat \ {0}
  BY StreamAssumption DEF Init
<1>5. /\ buf \in Seq(Byte) /\ stored \in Seq(Letter) /\ out \in Seq(Seq(Letter))
      /\ Len(buf) = 0 /\ Len(stored) = 0
  BY <1>1, Empty
<1>6. /\ file \in Seq(Byte) /\ rest = file /\ pc = "top" /\ total = 0 /\ ~pend
      /\ pend \in BOOLEAN /\ MaxLen \in Nat \ {0}
  BY <1>1
<1>2. StoreInv
  BY <1>5, <1>6 DEF StoreInv, TypeOK, InBufArg
<1>3. Pos = 0 /\ Len(file) \in Nat
  BY <1>5, <1>6 DEF Pos
<1>4. PartInv
  BY <1>3, <1>5, <1>6 DEF PartInv
<1> QED
  BY <1>2, <1>4 DEF StreamInv

LEMMA AppendPendingKeeps ==
  ASSUME StreamInv, AppendPending
  PROVE  StreamInv'
<1>1. /\ pc' = "read" /\ pend' = FALSE /\ file' = file /\ rest' = rest /\ buf' = buf
      /\ Pos' = Pos /\ MaxLen \in Nat \ {0}
  BY StreamAssumption DEF AppendPending, Pos
<1>2. CASE pend
  <2>1. total' = 0 /\ stored' = <<>> /\ out' = Append(out, Argument)
    BY <1>2 DEF AppendPending
  <2>2. Argument \in Seq(Letter)
    BY <1>2 DEF StreamInv, StoreInv, TypeOK, Argument
  <2>5. out' \in Seq(Seq(Letter))
    <3>1. out \in Seq(Seq(Letter))
      BY DEF StreamInv, StoreInv, TypeOK
    <3> QED
      BY <2>1, <2>2, <3>1
  <2>6. stored' \in Seq(Letter) /\ Len(stored') = 0 /\ total' = 0
    BY <2>1, Empty
  <2>7. TypeOK'
    BY <1>1, <2>5, <2>6 DEF StreamInv, StoreInv, TypeOK
  <2>8. InBufArg' /\ ~pend'
    BY <1>1, <2>6 DEF InBufArg
  <2>3. StoreInv'
    BY <2>6, <2>7, <2>8 DEF StoreInv
  <2>4. PartInv'
    BY <1>1, <1>2, <2>1 DEF StreamInv, StoreInv, TypeOK, PartInv, Pos
  <2> QED
    BY <2>3, <2>4 DEF StreamInv
<1>3. CASE ~pend
  BY <1>1, <1>3
  DEF AppendPending, StreamInv, StoreInv, TypeOK, InBufArg, TooLong, PartInv, Pos
<1> QED
  BY <1>2, <1>3

LEMMA ReadKeeps ==
  ASSUME StreamInv, Read
  PROVE  StreamInv'
<1>1. /\ pc = "read" /\ pc' = "parse" /\ file' = file /\ total' = total
      /\ stored' = stored /\ pend' = pend /\ out' = out /\ ~pend
      /\ file \in Seq(Byte) /\ rest \in Seq(Byte)
  BY DEF Read, StreamInv, StoreInv, TypeOK
<1>2. CASE buf # <<>>
  BY <1>1, <1>2
  DEF Read, StreamInv, StoreInv, TypeOK, InBufArg, TooLong, PartInv, Pos
<1>3. CASE buf = <<>>
  <2>1. PICK k \in 1 .. Min({ReadSize, Len(rest)}) :
               /\ buf' = SubSeq(rest, 1, k)
               /\ rest' = SubSeq(rest, k + 1, Len(rest))
    BY <1>3 DEF Read
  <2>2. k \in 1 .. Len(rest)
    <3>1. {ReadSize, Len(rest)} \in SUBSET Nat
      BY <1>1, StreamAssumption
    <3>2. Min({ReadSize, Len(rest)}) <= Len(rest) /\ Min({ReadSize, Len(rest)}) \in Nat
      BY <3>1, LeastNul
    <3> QED
      BY <1>1, <3>2
  <2>3. /\ buf' \in Seq(Byte) /\ Len(buf') = k /\ \A i \in 1 .. k : buf'[i] = rest[i]
        /\ rest' \in Seq(Byte) /\ Len(rest') = Len(rest) - k
        /\ \A i \in 1 .. Len(rest) - k : rest'[i] = rest[k + i]
    BY <1>1, <2>1, <2>2
  <2>4. Len(buf) = 0 /\ Len(rest) \in Nat /\ Len(file) \in Nat
    BY <1>1, <1>3
  <2>5. Pos' = Pos
    BY <1>1, <2>2, <2>3, <2>4 DEF Pos
  <2>6. StoreInv'
    BY <1>1, <2>3 DEF StreamInv, StoreInv, TypeOK, InBufArg, TooLong
  <2>7. \A i \in 1 .. k : buf'[i] = file[Pos + i]
    BY <2>2, <2>3, <2>4 DEF StreamInv, PartInv, Pos
  <2>8. \A i \in 1 .. Len(rest') : rest'[i] = file[Len(file) - Len(rest') + i]
    BY <2>2, <2>3, <2>4 DEF StreamInv, PartInv
  <2>9. PartInv'
    BY <1>1, <2>2, <2>3, <2>4, <2>5, <2>7, <2>8 DEF StreamInv, PartInv, TooLong
  <2> QED
    BY <2>6, <2>9 DEF StreamInv
<1> QED
  BY <1>2, <1>3

(***************************************************************************)
(* Consuming the block, with or without the NUL behind it.                 *)
(***************************************************************************)
LEMMA Consumes ==
  ASSUME StreamInv, ~pend, file' = file, rest' = rest,
         \/ Unfinished /\ buf' = <<>>
         \/ ~Unfinished /\ buf' = BehindNul
  PROVE  /\ Pos \in Nat /\ Block \in Nat /\ total \in Nat
         /\ Len(buf') + Len(rest') <= Len(file')
         /\ \A i \in 1 .. Len(buf') : buf'[i] = file'[Pos' + i]
         /\ \A i \in 1 .. Len(rest') : rest'[i] = file'[Len(file') - Len(rest') + i]
         /\ \A i \in 1 .. Block : buf[i] = file[Pos + i] /\ buf[i] # NUL
         /\ Unfinished => Pos' = Pos + Block
         /\ ~Unfinished => Pos' = Pos + Block + 1 /\ file[Pos'] = NUL
<1>1. /\ file \in Seq(Byte) /\ rest \in Seq(Byte) /\ buf \in Seq(Byte) /\ total \in Nat
      /\ Len(file) \in Nat /\ Len(rest) \in Nat /\ Len(buf) \in Nat /\ NUL \notin Letter
  BY StreamAssumption DEF StreamInv, StoreInv, TypeOK
<1>2. /\ Block \in 0 .. Len(buf) /\ \A i \in 1 .. Block : buf[i] \in Letter
      /\ ~Unfinished => Block + 1 <= Len(buf) /\ buf[Block + 1] = NUL
  BY <1>1, BlockBounds
<1>3. /\ Len(buf) + Len(rest) <= Len(file) /\ Pos \in Nat
      /\ \A i \in 1 .. Len(buf) : buf[i] = file[Pos + i]
      /\ \A i \in 1 .. Len(rest) : rest[i] = file[Len(file) - Len(rest) + i]
  BY <1>1 DEF StreamInv, PartInv, Pos
<1>4. ASSUME NEW i \in 1 .. Block PROVE buf[i] = file[Pos + i] /\ buf[i] # NUL
  <2>1. i \in 1 .. Len(buf) /\ buf[i] \in Letter
    BY <1>1, <1>2
  <2> QED
    BY <2>1, <1>1, <1>3
<1>5. CASE Unfinished
  <2>1. buf' = <<>> /\ Len(buf') = 0 /\ Block = Len(buf)
    BY <1>5 DEF Unfinished
  <2>2. Pos' = Pos + Block
    BY <2>1, <1>1 DEF Pos
  <2> QED
    BY <2>1, <2>2, <1>1, <1>2, <1>3, <1>4, <1>5
<1>6. CASE ~Unfinished
  <2>1. /\ buf' \in Seq(Byte) /\ Len(buf') = Len(buf) - Block - 1
        /\ \A i \in 1 .. Len(buf') : buf'[i] = buf[Block + 1 + i]
    BY <1>1, <1>6, Blocks
  <2>2. Pos' = Pos + Block + 1
    BY <2>1, <1>1, <1>2, <1>6 DEF Pos
  <2>3. file[Pos'] = NUL
    BY <2>2, <1>2, <1>3, <1>6
  <2>4. ASSUME NEW i \in 1 .. Len(buf') PROVE buf'[i] = file[Pos' + i]
    <3>1. Block + 1 + i \in 1 .. Len(buf) /\ buf'[i] = buf[Block + 1 + i]
      BY <2>1, <1>1, <1>2, <1>6
    <3>2. Pos' + i = Pos + (Block + 1 + i)
      BY <2>2, <1>2, <1>3
    <3> QED
      BY <3>1, <3>2, <1>3
  <2> QED
    BY <2>1, <2>2, <2>3, <2>4, <1>1, <1>2, <1>3, <1>4, <1>6
<1> QED
  BY <1>5, <1>6

(***************************************************************************)
(* The four ways to go on after strnlen().                                 *)
(***************************************************************************)
LEMMA ParseFacts ==
  ASSUME StreamInv, pc = "parse"
  PROVE  /\ ~pend /\ file \in Seq(Byte) /\ rest \in Seq(Byte) /\ buf \in Seq(Byte)
         /\ total \in Nat /\ stored \in Seq(Letter) /\ out \in Seq(Seq(Letter))
         /\ pend = FALSE /\ MaxLen \in Nat \ {0} /\ Len(stored) < MaxLen
         /\ total <= Pos
         /\ \A i \in Pos - total + 1 .. Pos : file[i] # NUL
         /\ total # Pos => file[Pos - total] = NUL
         /\ ~TooLong(total) => \A i \in 1 .. total : stored[i] = file[Pos - total + i]
BY StreamAssumption DEF StreamInv, StoreInv, TypeOK, InBufArg, PartInv

LEMMA BehindArgument ==
  ASSUME StreamInv, pc = "parse", file' = file, rest' = rest, ~Unfinished,
         buf' = BehindNul, total' = 0, stored' = <<>>, pend' = pend,
         pc' \in {"top", "parse"}, out' \in Seq(Seq(Letter))
  PROVE  StreamInv'
<1>1. /\ buf' \in Seq(Byte) /\ stored' \in Seq(Letter) /\ Len(stored') = 0
  BY ParseFacts, Blocks, Empty
<1>2. TypeOK'
  BY <1>1, ParseFacts DEF TypeOK
<1>3. StoreInv'
  BY <1>1, <1>2, ParseFacts DEF StoreInv, InBufArg
<1>4. /\ Pos \in Nat /\ Block \in Nat
      /\ Len(buf') + Len(rest') <= Len(file')
      /\ \A i \in 1 .. Len(buf') : buf'[i] = file'[Pos' + i]
      /\ \A i \in 1 .. Len(rest') : rest'[i] = file'[Len(file') - Len(rest') + i]
      /\ Pos' = Pos + Block + 1 /\ file[Pos'] = NUL
  BY ParseFacts, Consumes
<1>5. PartInv'
  BY <1>4, ParseFacts DEF PartInv
<1> QED
  BY <1>3, <1>5 DEF StreamInv

LEMMA WithinArgument ==
  ASSUME StreamInv, pc = "parse", file' = file, rest' = rest, Unfinished,
         buf' = <<>>, total' = total + Block, pend' = pend, pc' = pc, out' = out,
         \/ TooLong(total + Block) /\ stored' = stored
         \/ ~TooLong(total + Block) /\ stored' = Stored
  PROVE  StreamInv'
<1>1. /\ Pos \in Nat /\ Block \in Nat /\ total \in Nat
      /\ Len(buf') + Len(rest') <= Len(file')
      /\ \A i \in 1 .. Len(buf') : buf'[i] = file'[Pos' + i]
      /\ \A i \in 1 .. Len(rest') : rest'[i] = file'[Len(file') - Len(rest') + i]
      /\ \A i \in 1 .. Block : buf[i] = file[Pos + i] /\ buf[i] # NUL
      /\ Pos' = Pos + Block
  BY ParseFacts, Consumes
<1>2. /\ stored' \in Seq(Letter) /\ Len(stored') < MaxLen
      /\ ~TooLong(total') =>
           /\ Len(stored') = total' /\ ~TooLong(total)
           /\ \A i \in 1 .. total : stored'[i] = stored[i]
           /\ \A i \in 1 .. Block : stored'[total + i] = buf[i]
  <2>1. CASE TooLong(total + Block) /\ stored' = stored
    BY <2>1, ParseFacts
  <2>2. CASE ~TooLong(total + Block) /\ stored' = Stored
    <3>1. /\ Stored \in Seq(Letter) /\ Len(Stored) = total + Block
          /\ total + Block + 1 < MaxLen /\ ~TooLong(total)
          /\ \A i \in 1 .. total : Stored[i] = stored[i]
          /\ \A i \in 1 .. Block : Stored[total + i] = buf[i]
      BY <2>2, StoredFits DEF StreamInv
    <3> QED
      BY <2>2, <3>1, <1>1, ParseFacts
  <2> QED
    BY <2>1, <2>2
<1>3. TypeOK' /\ pend' = FALSE
  <2>1. buf' \in Seq(Byte) /\ total' \in Nat
    BY <1>1, Empty
  <2> QED
    BY <1>2, <2>1, ParseFacts DEF TypeOK
<1>4. StoreInv'
  BY <1>2, <1>3 DEF StoreInv, InBufArg, TooLong
<1>5. ASSUME NEW i \in Pos' - total' + 1 .. Pos' PROVE file'[i] # NUL
  <2>1. i \in Pos - total + 1 .. Pos \/ i - Pos \in 1 .. Block
    BY <1>1, SMTT(30)
  <2>2. i - Pos \in 1 .. Block => i = Pos + (i - Pos)
    BY <1>1
  <2>3. CASE i \in Pos - total + 1 .. Pos
    BY <2>3, ParseFacts
  <2>4. CASE i - Pos \in 1 .. Block
    <3> DEFINE k == i - Pos
    <3>1. k \in 1 .. Block /\ i = Pos + k
      BY <2>2, <2>4
    <3> HIDE DEF k
    <3>2. file[Pos + k] # NUL
      BY <3>1, <1>1
    <3> QED
      BY <3>1, <3>2
  <2> QED
    BY <2>1, <2>3, <2>4
<1>6. ASSUME ~TooLong(total'), NEW i \in 1 .. total'
      PROVE  stored'[i] = file'[Pos' - total' + i]
  <2>1. Pos' - total' = Pos - total
    BY <1>1
  <2>2. i \in 1 .. total \/ i - total \in 1 .. Block
    BY <1>1
  <2>3. CASE i \in 1 .. total
    BY <2>1, <2>3, <1>2, <1>6, ParseFacts
  <2>4. CASE i - total \in 1 .. Block
    <3>1. i = total + (i - total) /\ Pos - total + i = Pos + (i - total)
      BY <1>1
    <3>2. stored'[i] = buf[i - total] /\ buf[i - total] = file[Pos + (i - total)]
      BY <2>4, <3>1, <1>1, <1>2, <1>6
    <3> QED
      BY <2>1, <3>1, <3>2
  <2> QED
    BY <2>2, <2>3, <2>4
<1>7. /\ total' <= Pos' /\ (total' # Pos' => file'[Pos' - total'] = NUL)
  <2>1. Pos' - total' = Pos - total
    BY <1>1
  <2> QED
    BY <2>1, <1>1, ParseFacts
<1>8. PartInv'
  BY <1>1, <1>3, <1>5, <1>6, <1>7 DEF PartInv, TooLong
<1> QED
  BY <1>4, <1>8 DEF StreamInv

LEMMA ParseKeeps ==
  ASSUME StreamInv, Skip \/ StorePart \/ SetAside \/ TakeArg
  PROVE  StreamInv'
<1>1. pc = "parse" /\ file' = file /\ rest' = rest
  BY DEF Skip, StorePart, SetAside, TakeArg
<1>2. CASE Skip
  <2>1. CASE Unfinished
    BY <1>1, <1>2, <2>1, WithinArgument DEF Skip
  <2>2. CASE ~Unfinished
    BY <1>1, <1>2, <2>2, BehindArgument, ParseFacts DEF Skip
  <2> QED
    BY <2>1, <2>2
<1>3. CASE StorePart
  BY <1>1, <1>3, WithinArgument DEF StorePart
<1>4. CASE TakeArg
  <2>1. /\ Stored \in Seq(Letter) /\ out \in Seq(Seq(Letter))
    BY <1>1, <1>4, StoredFits, ParseFacts DEF TakeArg, StreamInv
  <2>2. out' = Append(out, Stored)
    BY <1>4 DEF TakeArg
  <2>3. out' \in Seq(Seq(Letter))
    BY <2>1, <2>2
  <2> QED
    BY <1>1, <1>4, <2>3, BehindArgument DEF TakeArg
<1>5. CASE SetAside
  <2>1. /\ ~Unfinished /\ stored' = Stored /\ total' = total + Block
        /\ buf' = BehindNul /\ pend' = TRUE /\ pc' = "top" /\ out' = out
    BY <1>5 DEF SetAside
  <2>2. /\ Stored \in Seq(Letter) /\ Len(Stored) = total + Block
        /\ total + Block \in Nat /\ total + Block + 1 < MaxLen
    BY <1>1, <1>5, StoredFits DEF SetAside, StreamInv
  <2>3. buf' \in Seq(Byte)
    BY <1>1, <2>1, ParseFacts, Blocks
  <2>4. TypeOK'
    BY <1>1, <2>1, <2>2, <2>3, ParseFacts DEF TypeOK
  <2>5. StoreInv'
    BY <1>1, <2>1, <2>2, <2>4, ParseFacts DEF StoreInv, InBufArg, TooLong
  <2>6. /\ Pos \in Nat /\ Block \in Nat
        /\ Len(buf') + Len(rest') <= Len(file')
        /\ \A i \in 1 .. Len(buf') : buf'[i] = file'[Pos' + i]
        /\ \A i \in 1 .. Len(rest') : rest'[i] = file'[Len(file') - Len(rest') + i]
        /\ Pos' = Pos + Block + 1 /\ file[Pos'] = NUL
    BY <1>1, <2>1, ParseFacts, Consumes
  <2>7. PartInv'
    BY <1>1, <2>1, <2>6 DEF PartInv
  <2> QED
    BY <2>5, <2>7 DEF StreamInv
<1> QED
  BY <1>2, <1>3, <1>4, <1>5

LEMMA StreamStep ==
  StreamInv /\ [Next]_vars => StreamInv'
<1> SUFFICES ASSUME StreamInv, [Next]_vars PROVE StreamInv'
  OBVIOUS
<1>1. CASE AppendPending
  BY <1>1, AppendPendingKeeps
<1>2. CASE Read
  BY <1>2, ReadKeeps
<1>3. CASE EndOfFile
  BY <1>3
  DEF EndOfFile, StreamInv, StoreInv, TypeOK, InBufArg, TooLong, PartInv, Pos
<1>4. CASE Skip \/ StorePart \/ SetAside \/ TakeArg
  BY <1>4, ParseKeeps
<1>5. CASE BufferDone
  BY <1>5
  DEF BufferDone, StreamInv, StoreInv, TypeOK, InBufArg, TooLong, PartInv, Pos
<1>6. CASE UNCHANGED vars
  BY <1>6 DEF vars, StreamInv, StoreInv, TypeOK, InBufArg, TooLong, PartInv, Pos
<1> QED
  BY <1>1, <1>2, <1>3, <1>4, <1>5, <1>6 DEF Next, Step, Done

(***************************************************************************)
(* However read(2) cuts the file, buf_arg has exactly the bytes of the     *)
(* argument that is being read, and the buffer and the rest are what comes *)
(* next (xvp.cc:414-488).                                                  *)
(***************************************************************************)
THEOREM StreamInvariant == Spec => []StreamInv
<1> QED
  BY StreamInit, StreamStep, PTL DEF Spec

(***************************************************************************)
(* Every variable of ArgStream keeps its type: what is appended to a batch *)
(* has no NUL.                                                             *)
(***************************************************************************)
THEOREM StreamTypeCorrect == Spec => []TypeOK
<1>1. StreamInv => TypeOK
  BY DEF StreamInv, StoreInv
<1> QED
  BY <1>1, StreamInvariant, PTL

(***************************************************************************)
(* The memcpy into buf_arg stays within it and leaves its last byte zero.  *)
(***************************************************************************)
THEOREM InBufArgHolds == Spec => []InBufArg
<1>1. StreamInv => InBufArg
  BY DEF StreamInv, StoreInv
<1> QED
  BY <1>1, StreamInvariant, PTL

LEMMA GreatestOf ==
  ASSUME NEW S \in SUBSET Nat, NEW m \in S, \A n \in S : n <= m
  PROVE  Max(S) = m
<1>1. Max(S) \in S /\ \A n \in S : Max(S) >= n
  BY DEF Max
<1>2. Max(S) \in Nat /\ m \in Nat /\ Max(S) >= m /\ Max(S) <= m
  BY <1>1
<1> HIDE DEF Max
<1> QED
  BY <1>2

(***************************************************************************)
(* Between two arguments' ends, total and buf_arg are the part of the      *)
(* argument that was read, wherever the blocks were cut.                   *)
(***************************************************************************)
THEOREM ExactPartHolds == Spec => []ExactPart
<1>1. StreamInv => ExactPart
  <2> SUFFICES ASSUME StreamInv, ~pend PROVE /\ total = Len(AfterLastNul(Consumed))
                                             /\ ~TooLong(total) =>
                                                  stored = AfterLastNul(Consumed)
    BY DEF ExactPart
  <2> DEFINE s == Consumed
             last == Pos - total
  <2>1. /\ file \in Seq(Byte) /\ rest \in Seq(Byte) /\ buf \in Seq(Byte)
        /\ total \in Nat /\ Len(file) \in Nat /\ Len(rest) \in Nat /\ Len(buf) \in Nat
        /\ Len(buf) + Len(rest) <= Len(file)
        /\ stored \in Seq(Letter) /\ (~TooLong(total) => Len(stored) = total)
    BY DEF StreamInv, StoreInv, TypeOK, PartInv
  <2>2. /\ Pos \in 0 .. Len(file) /\ total <= Pos
        /\ \A i \in Pos - total + 1 .. Pos : file[i] # NUL
        /\ total # Pos => file[Pos - total] = NUL
        /\ ~TooLong(total) => \A i \in 1 .. total : stored[i] = file[Pos - total + i]
    BY <2>1 DEF StreamInv, PartInv, Pos
  <2>3. s = SubSeq(file, 1, Pos)
    BY DEF Consumed, Pos
  <2> HIDE DEF s
  <2>4. s \in Seq(Byte) /\ Len(s) = Pos /\ \A i \in 1 .. Pos : s[i] = file[i]
    BY <2>1, <2>2, <2>3
  <2>5. Nuls(s) = {i \in 1 .. Pos : file[i] = NUL}
    BY <2>2, <2>4 DEF Nuls
  <2>6. last \in Nat /\ last <= Pos
    BY <2>1, <2>2
  <2>7. last \in {0} \cup Nuls(s) /\ \A n \in {0} \cup Nuls(s) : n \in Nat /\ n <= last
    BY <2>1, <2>2, <2>5
  <2>8. Max({0} \cup Nuls(s)) = last
    BY <2>7, GreatestOf
  <2>9. AfterLastNul(s) = SubSeq(s, last + 1, Pos)
    BY <2>4, <2>8 DEF AfterLastNul
  <2> DEFINE part == SubSeq(s, last + 1, Pos)
  <2>10. /\ part \in Seq(Byte) /\ Len(part) = total
         /\ \A i \in 1 .. total : part[i] = s[last + i]
    BY <2>1, <2>2, <2>4, <2>6
  <2>11. \A i \in 1 .. total : part[i] = file[last + i]
    BY <2>1, <2>2, <2>4, <2>6, <2>10
  <2> HIDE DEF part
  <2>12. ASSUME ~TooLong(total) PROVE stored = part
    <3>1. Len(stored) = total /\ \A i \in 1 .. total : stored[i] = part[i]
      BY <2>1, <2>2, <2>11, <2>12
    <3>2. stored = [i \in 1 .. total |-> stored[i]] /\ part = [i \in 1 .. total |-> part[i]]
      BY <3>1, <2>1, <2>10
    <3> QED
      BY <3>1, <3>2
  <2> QED
    BY <2>9, <2>10, <2>12 DEF s, part
<1> QED
  BY <1>1, StreamInvariant, PTL

(***************************************************************************)
(* Counting: the k-th of a bounded set of positions.                       *)
(***************************************************************************)
LEMMA CountUpto ==
  ASSUME NEW S \in SUBSET Nat, NEW i \in Nat
  PROVE  /\ IsFiniteSet(Upto(S, i)) /\ Cardinality(Upto(S, i)) \in Nat
         /\ \A j \in 0 .. i : /\ Cardinality(Upto(S, j)) \in Nat
                             /\ Cardinality(Upto(S, j)) <= Cardinality(Upto(S, i))
                             /\ j < i /\ i \in S =>
                                  Cardinality(Upto(S, j)) < Cardinality(Upto(S, i))
<1>1. \A j \in Nat : IsFiniteSet(Upto(S, j)) /\ Cardinality(Upto(S, j)) \in Nat
  <2> SUFFICES ASSUME NEW j \in Nat
               PROVE  IsFiniteSet(Upto(S, j)) /\ Cardinality(Upto(S, j)) \in Nat
    OBVIOUS
  <2>1. Upto(S, j) \in SUBSET Nat /\ \A n \in Upto(S, j) : n <= j
    BY DEF Upto
  <2>2. IsFiniteSet(Upto(S, j))
    BY <2>1, FS_BoundedSetOfNaturals
  <2> QED
    BY <2>2, FS_CardinalityType
<1>2. ASSUME NEW j \in 0 .. i
      PROVE  /\ Cardinality(Upto(S, j)) <= Cardinality(Upto(S, i))
             /\ j < i /\ i \in S => Cardinality(Upto(S, j)) < Cardinality(Upto(S, i))
  <2>1. Upto(S, j) \in SUBSET Upto(S, i) /\ j \in Nat
    <3>1. \A n \in S : n <= j => n <= i
      <4>1. \A n \in S : n \in Nat
        OBVIOUS
      <4> QED
        BY <4>1
    <3>2. Upto(S, j) \in SUBSET Upto(S, i)
      BY <3>1, Zenon DEF Upto
    <3> QED
      BY <3>2
  <2>2. Cardinality(Upto(S, j)) <= Cardinality(Upto(S, i))
    BY <1>1, <2>1, FS_Subset
  <2>3. ASSUME j < i, i \in S PROVE Cardinality(Upto(S, j)) # Cardinality(Upto(S, i))
    <3>1. i \in Upto(S, i) /\ i \notin Upto(S, j)
      BY <2>3 DEF Upto
    <3> QED
      BY <3>1, <1>1, <2>1, FS_Subset
  <2> QED
    BY <1>1, <2>1, <2>2, <2>3
<1> QED
  BY <1>1, <1>2

LEMMA NthIs ==
  ASSUME NEW S \in SUBSET Nat, NEW i \in S
  PROVE  Nth(S, Cardinality(Upto(S, i))) = i
<1> DEFINE k == Cardinality(Upto(S, i))
           n == Nth(S, k)
<1>1. n \in S /\ Cardinality(Upto(S, n)) = k
  BY DEF Nth
<1> HIDE DEF n
<1>2. ASSUME n < i PROVE FALSE
  <2>1. Cardinality(Upto(S, n)) < Cardinality(Upto(S, i))
    BY <1>1, <1>2, CountUpto
  <2> QED
    BY <1>1, <2>1, CountUpto
<1>3. ASSUME i < n PROVE FALSE
  <2>1. Cardinality(Upto(S, i)) < Cardinality(Upto(S, n))
    BY <1>1, <1>3, CountUpto
  <2> QED
    BY <1>1, <2>1, CountUpto
<1>4. n \in Nat /\ i \in Nat
  BY <1>1
<1>5. n = i
  BY <1>2, <1>3, <1>4
<1> QED
  BY <1>5 DEF n

LEMMA NthExists ==
  ASSUME NEW S \in SUBSET Nat, NEW top \in Nat, \A i \in S : i <= top,
         NEW k \in 1 .. Cardinality(S)
  PROVE  Nth(S, k) \in S /\ Cardinality(Upto(S, Nth(S, k))) = k
<1> DEFINE Enough == {i \in Nat : Cardinality(Upto(S, i)) >= k}
           m == Min(Enough)
<1>0. \A i \in S : i \in Nat
  OBVIOUS
<1>1. Upto(S, top) = S
  BY DEF Upto
<1>2. top \in Enough /\ k \in Nat /\ k >= 1
  BY <1>1, CountUpto
<1>3. m \in Enough /\ \A i \in Enough : m <= i
  BY <1>2, LeastNul
<1> HIDE DEF m
<1>4. m \in Nat /\ Cardinality(Upto(S, m)) >= k /\ Cardinality(Upto(S, m)) \in Nat
  BY <1>3, CountUpto
<1>5. \A i \in 0 .. m - 1 : Cardinality(Upto(S, i)) < k /\ Cardinality(Upto(S, i)) \in Nat
  BY <1>2, <1>3, <1>4, CountUpto
<1> DEFINE before == Upto(S, m) \ {m}
<1>6. IsFiniteSet(before) /\ Cardinality(before) < k /\ Cardinality(before) \in Nat
  <2>1. CASE m = 0
    <3>1. \A i \in S : i <= m => i = m
      BY <1>0, <2>1
    <3>2. before = {}
      BY <3>1 DEF Upto
    <3> QED
      BY <3>2, <1>2, FS_EmptySet
  <2>2. CASE m # 0
    <3>1. m - 1 \in 0 .. m - 1 /\ m - 1 \in Nat
      BY <1>4, <2>2
    <3>3. \A i \in S : (i <= m /\ i # m) <=> i <= m - 1
      BY <1>0, <1>4, <3>1
    <3>2. before = Upto(S, m - 1)
      BY <3>3 DEF Upto
    <3> QED
      BY <3>1, <3>2, <1>5, CountUpto
  <2> QED
    BY <2>1, <2>2
<1>7. m \in S
  <2> SUFFICES ASSUME m \notin S PROVE FALSE
    OBVIOUS
  <2>1. before = Upto(S, m)
    BY DEF Upto
  <2> QED
    BY <2>1, <1>2, <1>4, <1>6
<1>8. Cardinality(Upto(S, m)) = k
  <2>1. Upto(S, m) = before \cup {m}
    BY <1>4, <1>7 DEF Upto
  <2>2. m \notin before
    OBVIOUS
  <2> HIDE DEF before
  <2>3. Cardinality(Upto(S, m)) = Cardinality(before) + 1
    BY <2>1, <2>2, <1>6, FS_AddElement
  <2> QED
    BY <2>3, <1>2, <1>4, <1>6
<1> QED
  BY <1>7, <1>8 DEF Nth

(***************************************************************************)
(* The pieces of a file and of the part of it up to a cut.                 *)
(***************************************************************************)
LEMMA GreatestExists ==
  ASSUME NEW S \in SUBSET Nat, S # {}, NEW top \in Nat, \A i \in S : i <= top
  PROVE  Max(S) \in S /\ \A i \in S : i <= Max(S)
<1> DEFINE Below == {top - i : i \in S}
           m == top - Min(Below)
<1>1. Below \in SUBSET Nat /\ Below # {}
  <2>1. \A i \in S : top - i \in Nat
    OBVIOUS
  <2> QED
    BY <2>1
<1>2. Min(Below) \in Below /\ \A y \in Below : Min(Below) <= y
  BY <1>1, LeastNul
<1> HIDE DEF Below
<1>3. \A i \in S : top - i \in Below /\ i \in Nat
  BY DEF Below
<1>4. PICK i \in S : Min(Below) = top - i
  BY <1>2 DEF Below
<1>5. \A j \in S : j <= i
  BY <1>2, <1>3, <1>4
<1> QED
  BY <1>5, GreatestOf

LEMMA NulsOf ==
  ASSUME NEW s \in Seq(Byte), NEW p \in 0 .. Len(s)
  PROVE  /\ Nuls(s) \in SUBSET (1 .. Len(s))
         /\ SubSeq(s, 1, p) \in Seq(Byte) /\ Len(SubSeq(s, 1, p)) = p
         /\ \A i \in 1 .. p : SubSeq(s, 1, p)[i] = s[i]
         /\ Nuls(SubSeq(s, 1, p)) = {i \in Nuls(s) : i <= p}
<1> DEFINE t == SubSeq(s, 1, p)
<1>1. t \in Seq(Byte) /\ Len(t) = p /\ \A i \in 1 .. p : t[i] = s[i]
  OBVIOUS
<1>2. Nuls(s) = {i \in 1 .. Len(s) : s[i] = NUL} /\ Nuls(t) = {i \in 1 .. Len(t) : t[i] = NUL}
  BY <1>1 DEF Nuls
<1> HIDE DEF t
<1>3. Nuls(t) = {i \in Nuls(s) : i <= p}
  BY <1>1, <1>2
<1> QED
  BY <1>1, <1>2, <1>3 DEF t

LEMMA LastBefore ==
  ASSUME NEW s \in Seq(Byte), NEW i \in 1 .. Len(s)
  PROVE  Max({0} \cup {j \in Nuls(s) : j < i}) \in 0 .. i - 1
<1> DEFINE S == {0} \cup {j \in Nuls(s) : j < i}
<1>1. S \in SUBSET Nat /\ S # {} /\ \A j \in S : j <= i - 1 /\ i - 1 \in Nat
  BY DEF Nuls
<1> HIDE DEF S
<1>2. Max(S) \in S
  BY <1>1, GreatestExists
<1> QED
  BY <1>1, <1>2 DEF S

LEMMA PieceType ==
  ASSUME NEW s \in Seq(Byte), NEW i \in 1 .. Len(s)
  PROVE  PieceBefore(s, i) \in Seq(Byte)
<1> DEFINE last == Max({0} \cup {j \in Nuls(s) : j < i})
<1>1. last \in 0 .. i - 1
  BY LastBefore
<1>2. PieceBefore(s, i) = SubSeq(s, last + 1, i - 1)
  BY DEF PieceBefore
<1> HIDE DEF last
<1> QED
  BY <1>1, <1>2

LEMMA PieceOfCut ==
  ASSUME NEW s \in Seq(Byte), NEW p \in 0 .. Len(s), NEW i \in 1 .. p
  PROVE  PieceBefore(SubSeq(s, 1, p), i) = PieceBefore(s, i)
<1> DEFINE t == SubSeq(s, 1, p)
           last == Max({0} \cup {j \in Nuls(s) : j < i})
<1>1. t \in Seq(Byte) /\ Len(t) = p /\ (\A k \in 1 .. p : t[k] = s[k])
      /\ Nuls(t) = {k \in Nuls(s) : k <= p} /\ Nuls(s) \in SUBSET (1 .. Len(s))
  BY NulsOf
<1> HIDE DEF t
<1>2. {j \in Nuls(t) : j < i} = {j \in Nuls(s) : j < i}
  BY <1>1
<1>3. last \in 0 .. i - 1
  BY LastBefore
<1>4. PieceBefore(t, i) = SubSeq(t, last + 1, i - 1)
      /\ PieceBefore(s, i) = SubSeq(s, last + 1, i - 1)
  BY <1>2 DEF PieceBefore
<1> HIDE DEF last
<1>5. SubSeq(t, last + 1, i - 1) = SubSeq(s, last + 1, i - 1)
  BY <1>1, <1>3
<1> QED
  BY <1>4, <1>5 DEF t

LEMMA PieceSince ==
  ASSUME NEW s \in Seq(Byte), NEW i \in Nuls(s), NEW last \in 0 .. i - 1,
         last # 0 => s[last] = NUL, \A k \in last + 1 .. i - 1 : s[k] # NUL
  PROVE  PieceBefore(s, i) = SubSeq(s, last + 1, i - 1)
<1>1. Nuls(s) = {k \in 1 .. Len(s) : s[k] = NUL} /\ i \in 1 .. Len(s)
  BY DEF Nuls
<1> DEFINE S == {0} \cup {j \in Nuls(s) : j < i}
<1>2. S \in SUBSET Nat /\ last \in S /\ \A j \in S : j <= last
  BY <1>1
<1> HIDE DEF S
<1>3. Max(S) = last
  BY <1>2, GreatestOf
<1> QED
  BY <1>3 DEF PieceBefore, S

LEMMA FitsOf ==
  ASSUME NEW s \in Seq(Byte), NEW p \in 0 .. Len(s)
  PROVE  /\ FitNuls(s) \in SUBSET (1 .. Len(s)) /\ IsFiniteSet(FitNuls(s))
         /\ Cardinality(FitNuls(s)) \in Nat
         /\ FitNuls(SubSeq(s, 1, p)) = Upto(FitNuls(s), p)
<1>1. FitNuls(s) \in SUBSET (1 .. Len(s))
  BY NulsOf DEF FitNuls
<1>2. IsFiniteSet(FitNuls(s))
  <2>1. IsFiniteSet(1 .. Len(s))
    BY FS_Interval
  <2> QED
    BY <1>1, <2>1, FS_Subset
<1> DEFINE t == SubSeq(s, 1, p)
<1>3. Nuls(t) = {i \in Nuls(s) : i <= p} /\ Nuls(s) \in SUBSET (1 .. Len(s))
  BY NulsOf
<1>4. \A i \in Nuls(t) : PieceBefore(t, i) = PieceBefore(s, i)
  <2> SUFFICES ASSUME NEW i \in Nuls(t) PROVE PieceBefore(t, i) = PieceBefore(s, i)
    OBVIOUS
  <2>1. i \in 1 .. p
    BY <1>3
  <2> QED
    BY <2>1, PieceOfCut
<1> HIDE DEF t
<1>5. FitNuls(t) = Upto(FitNuls(s), p)
  BY <1>3, <1>4 DEF FitNuls, Upto
<1> QED
  BY <1>1, <1>2, <1>5, FS_CardinalityType DEF t

(***************************************************************************)
(* The arguments of the file up to a cut are the first ones of the file.   *)
(***************************************************************************)
LEMMA FittingType ==
  ASSUME NEW s \in Seq(Byte)
  PROVE  Fitting(s) \in Seq(Seq(Byte)) /\ Len(Fitting(s)) = Cardinality(FitNuls(s))
<1> DEFINE n == Cardinality(FitNuls(s))
<1>1. n \in Nat /\ FitNuls(s) \in SUBSET (1 .. Len(s)) /\ FitNuls(s) \in SUBSET Nat
  <2>1. Len(s) \in 0 .. Len(s)
    OBVIOUS
  <2> QED
    BY <2>1, FitsOf
<1>2. ASSUME NEW k \in 1 .. n PROVE PieceBefore(s, Nth(FitNuls(s), k)) \in Seq(Byte)
  <2>1. Len(s) \in Nat /\ \A i \in FitNuls(s) : i <= Len(s)
    BY <1>1
  <2>2. Nth(FitNuls(s), k) \in FitNuls(s)
    BY <1>1, <2>1, NthExists
  <2> QED
    BY <1>1, <2>2, PieceType
<1>3. Fitting(s) = [k \in 1 .. n |-> PieceBefore(s, Nth(FitNuls(s), k))]
  BY DEF Fitting
<1> HIDE DEF n
<1> QED
  BY <1>1, <1>2, <1>3 DEF n

LEMMA FittingOfCut ==
  ASSUME NEW s \in Seq(Byte), NEW p \in 0 .. Len(s)
  PROVE  LET n == Cardinality(Upto(FitNuls(s), p)) IN
         /\ n \in 0 .. Len(Fitting(s))
         /\ Fitting(SubSeq(s, 1, p)) = SubSeq(Fitting(s), 1, n)
<1> DEFINE t == SubSeq(s, 1, p)
           F == FitNuls(s)
           U == Upto(F, p)
           n == Cardinality(U)
<1>1. F \in SUBSET (1 .. Len(s)) /\ F \in SUBSET Nat /\ FitNuls(t) = U
  BY FitsOf
<1>2. U \in SUBSET Nat /\ (\A i \in U : i <= p) /\ U \in SUBSET F
  BY <1>1 DEF Upto
<1>3. n \in Nat /\ n <= Cardinality(F) /\ Cardinality(F) = Len(Fitting(s))
      /\ Fitting(s) \in Seq(Seq(Byte))
  <2>1. IsFiniteSet(F)
    BY FitsOf
  <2>2. n <= Cardinality(F) /\ IsFiniteSet(U)
    BY <1>2, <2>1, FS_Subset
  <2> QED
    BY <2>2, FS_CardinalityType, FittingType
<1>4. t \in Seq(Byte) /\ Len(t) = p
  BY NulsOf
<1>5. Len(Fitting(t)) = n /\ Fitting(t) \in Seq(Seq(Byte))
  BY <1>1, <1>4, FittingType
<1> HIDE DEF t, F, U
<1>6. ASSUME NEW k \in 1 .. n PROVE Fitting(t)[k] = Fitting(s)[k]
  <2>1. p \in Nat
    OBVIOUS
  <2>2. Nth(U, k) \in U /\ Cardinality(Upto(U, Nth(U, k))) = k
    BY <1>2, <2>1, NthExists
  <2> DEFINE i == Nth(U, k)
  <2>3. i \in F /\ i <= p /\ i \in 1 .. p
    <3>1. i \in U
      BY <2>2
    <3> HIDE DEF i
    <3>2. i \in F /\ i <= p
      BY <3>1, <1>2
    <3>3. i \in 1 .. Len(s)
      BY <3>2, <1>1
    <3> QED
      BY <3>2, <3>3
  <2>4. Upto(U, i) = Upto(F, i)
    <3> HIDE DEF i
    <3>1. \A j \in F : j \in Nat
      BY <1>1
    <3>2. \A j \in F : j <= i => j <= p
      BY <2>3, <3>1
    <3> QED
      BY <3>2 DEF Upto, U
  <2>5. Nth(F, k) = i
    BY <1>1, <2>2, <2>3, <2>4, NthIs
  <2>6. PieceBefore(t, i) = PieceBefore(s, i)
    BY <2>3, PieceOfCut DEF t
  <2> HIDE DEF i
  <2>7. Fitting(t)[k] = PieceBefore(t, i)
    BY <1>1 DEF Fitting, i
  <2>8. Fitting(s)[k] = PieceBefore(s, Nth(F, k))
    <3>1. k \in 1 .. Cardinality(F)
      BY <1>3
    <3> QED
      BY <3>1 DEF Fitting, F
  <2> QED
    BY <2>5, <2>6, <2>7, <2>8
<1>7. Fitting(t) = SubSeq(Fitting(s), 1, n)
  BY <1>3, <1>5, <1>6
<1> QED
  BY <1>3, <1>7 DEF t, U, F

LEMMA NoFitsBetween ==
  ASSUME NEW s \in Seq(Byte), NEW p \in 0 .. Len(s), NEW q \in p .. Len(s),
         \A i \in p + 1 .. q : s[i] # NUL
  PROVE  Upto(FitNuls(s), q) = Upto(FitNuls(s), p)
<1>1. FitNuls(s) \in SUBSET {i \in 1 .. Len(s) : s[i] = NUL}
  BY DEF FitNuls, Nuls
<1> QED
  BY <1>1 DEF Upto

LEMMA FitsAtNul ==
  ASSUME NEW s \in Seq(Byte), NEW q \in Nuls(s), NEW p \in 0 .. q - 1,
         \A i \in p + 1 .. q - 1 : s[i] # NUL
  PROVE  LET n == Cardinality(Upto(FitNuls(s), p)) IN
         IF Len(PieceBefore(s, q)) + 1 < MaxLen
         THEN /\ Cardinality(Upto(FitNuls(s), q)) = n + 1
              /\ n + 1 \in 1 .. Len(Fitting(s))
              /\ Fitting(s)[n + 1] = PieceBefore(s, q)
         ELSE Cardinality(Upto(FitNuls(s), q)) = n
<1> DEFINE F == FitNuls(s)
           n == Cardinality(Upto(F, p))
<1>1. q \in 1 .. Len(s) /\ F \in SUBSET Nat
      /\ F = {i \in Nuls(s) : Len(PieceBefore(s, i)) + 1 < MaxLen}
  BY DEF FitNuls, Nuls
<1>2. Upto(F, q - 1) = Upto(F, p)
  <2>1. p \in 0 .. Len(s) /\ q - 1 \in p .. Len(s)
    BY <1>1
  <2> QED
    BY <2>1, NoFitsBetween
<1>3. IsFiniteSet(Upto(F, p)) /\ n \in Nat
  BY <1>1, CountUpto
<1> HIDE DEF F
<1>4. CASE q \in F
  <2>1. Upto(F, q) = Upto(F, p) \cup {q} /\ q \notin Upto(F, p)
    <3>1. Upto(F, q) = Upto(F, q - 1) \cup {q} /\ q \notin Upto(F, q - 1)
      BY <1>1, <1>4 DEF Upto
    <3> QED
      BY <3>1, <1>2
  <2>2. Cardinality(Upto(F, q)) = n + 1
    BY <2>1, <1>3, FS_AddElement
  <2>3. Nth(F, n + 1) = q
    BY <2>2, <1>1, <1>4, NthIs
  <2>4. n + 1 \in 1 .. Len(Fitting(s)) /\ Len(Fitting(s)) = Cardinality(F)
    <3>1. Cardinality(Upto(F, q)) \in 0 .. Len(Fitting(s))
      <4>1. q \in 0 .. Len(s)
        BY <1>1
      <4> QED
        BY <4>1, FittingOfCut DEF F
    <3> QED
      BY <3>1, <2>2, <1>3, FittingType DEF F
  <2>5. Fitting(s)[n + 1] = PieceBefore(s, q)
    BY <2>3, <2>4 DEF Fitting, F
  <2> QED
    BY <1>1, <1>4, <2>2, <2>4, <2>5 DEF F
<1>5. CASE q \notin F
  <2>1. Upto(F, q) = Upto(F, q - 1)
    BY <1>1, <1>5 DEF Upto
  <2> QED
    BY <1>1, <1>2, <1>5, <2>1 DEF F
<1> QED
  BY <1>4, <1>5

LEMMA OneMore ==
  ASSUME NEW X, NEW s \in Seq(X), NEW n \in 0 .. Len(s) - 1
  PROVE  SubSeq(s, 1, n + 1) = Append(SubSeq(s, 1, n), s[n + 1])
         /\ Len(SubSeq(s, 1, n)) = n
OBVIOUS

(***************************************************************************)
(* The batches have the arguments of what is consumed, but the one that    *)
(* waits in buf_arg for the next batch.                                    *)
(***************************************************************************)
Given == Cardinality(Upto(FitNuls(file), Pos))

OutInv == (IF pend THEN Append(out, Argument) ELSE out) = SubSeq(Fitting(file), 1, Given)

LEMMA StreamFacts ==
  ASSUME StreamInv
  PROVE  /\ file \in Seq(Byte) /\ Pos \in 0 .. Len(file) /\ out \in Seq(Seq(Letter))
         /\ rest \in Seq(Byte) /\ buf \in Seq(Byte) /\ total \in Nat
         /\ Fitting(file) \in Seq(Seq(Byte))
         /\ Len(Fitting(file)) = Cardinality(FitNuls(file))
         /\ Given \in 0 .. Len(Fitting(file))
         /\ Fitting(Consumed) = SubSeq(Fitting(file), 1, Given)
<1>1. /\ file \in Seq(Byte) /\ rest \in Seq(Byte) /\ buf \in Seq(Byte) /\ total \in Nat
      /\ out \in Seq(Seq(Letter))
      /\ Len(buf) + Len(rest) <= Len(file)
  BY DEF StreamInv, StoreInv, TypeOK, PartInv
<1>2. Pos \in 0 .. Len(file) /\ Consumed = SubSeq(file, 1, Pos)
  BY <1>1 DEF Pos, Consumed
<1> QED
  BY <1>1, <1>2, FittingType, FittingOfCut DEF Given

(***************************************************************************)
(* The argument that ends at the next NUL of the block.                    *)
(***************************************************************************)
LEMMA ArgumentEnds ==
  ASSUME StreamInv, pc = "parse", ~Unfinished, file' = file, rest' = rest,
         buf' = BehindNul
  PROVE  IF TooLong(total + Block)
         THEN Given' = Given
         ELSE /\ Given' = Given + 1 /\ Given + 1 <= Len(Fitting(file))
              /\ Fitting(file)[Given + 1] = Stored
<1> DEFINE q == Pos + Block + 1
           last == Pos - total
<1>1. /\ Pos \in Nat /\ Block \in Nat /\ total \in Nat
      /\ \A i \in 1 .. Block : buf[i] = file[Pos + i] /\ buf[i] # NUL
      /\ Pos' = q /\ file[q] = NUL /\ Len(buf') + Len(rest') <= Len(file)
      /\ file \in Seq(Byte) /\ buf' \in Seq(Byte) /\ rest \in Seq(Byte)
  BY ParseFacts, Consumes, Blocks
<1>2. q \in 1 .. Len(file) /\ q = Len(file) - Len(rest') - Len(buf')
  BY <1>1 DEF Pos
<1>3. q \in Nuls(file)
  BY <1>1, <1>2 DEF Nuls
<1>4. /\ last \in 0 .. Pos /\ (last # 0 => file[last] = NUL)
      /\ \A i \in last + 1 .. Pos : file[i] # NUL
      /\ ~TooLong(total) => \A i \in 1 .. total : stored[i] = file[last + i]
      /\ MaxLen \in Nat
  BY <1>1, ParseFacts
<1>5. ASSUME NEW i \in Pos + 1 .. q - 1 PROVE file[i] # NUL
  <2> DEFINE k == i - Pos
  <2>1. k \in 1 .. Block /\ i = Pos + k
    BY <1>1
  <2> HIDE DEF k
  <2>2. file[Pos + k] # NUL
    BY <2>1, <1>1
  <2> QED
    BY <2>1, <2>2
<1> DEFINE piece == PieceBefore(file, q)
<1>6. piece = SubSeq(file, last + 1, q - 1)
  <2>1. last \in 0 .. q - 1
    BY <1>1, <1>4
  <2>2. \A i \in last + 1 .. q - 1 : file[i] # NUL
    <3> SUFFICES ASSUME NEW i \in last + 1 .. q - 1 PROVE file[i] # NUL
      OBVIOUS
    <3>1. i \in last + 1 .. Pos \/ i \in Pos + 1 .. q - 1
      BY <1>1, <1>4
    <3> QED
      BY <3>1, <1>4, <1>5
  <2> QED
    BY <1>1, <1>3, <1>4, <2>1, <2>2, PieceSince
<1> HIDE DEF piece
<1>13. /\ last \in Nat /\ total + Block \in Nat /\ q = last + (total + Block) + 1
       /\ q <= Len(file)
  <2>1. total \in Nat /\ Block \in Nat /\ Pos \in Nat /\ last \in 0 .. Pos
    BY <1>1, <1>4
  <2>2. q <= Len(file)
    BY <1>2
  <2> QED
    BY <2>1, <2>2
<1> HIDE DEF last, q
<1>7. /\ piece \in Seq(Byte) /\ Len(piece) = total + Block
      /\ \A i \in 1 .. total + Block : piece[i] = file[last + i]
  <2> DEFINE len == total + Block
  <2>1. len \in Nat /\ q = last + len + 1 /\ last \in Nat /\ q <= Len(file)
    BY <1>13
  <2> HIDE DEF len
  <2>2. piece = SubSeq(file, last + 1, last + len) /\ file \in Seq(Byte)
        /\ last + len <= Len(file)
    BY <1>1, <1>6, <2>1
  <2>3. piece \in Seq(Byte) /\ Len(piece) = len
    BY <2>1, <2>2
  <2>4. \A i \in 1 .. len : piece[i] = file[last + i]
    BY <2>1, <2>2
  <2> QED
    BY <2>3, <2>4 DEF len
<1> USE DEF q
<1>8. Given' = Cardinality(Upto(FitNuls(file), q)) /\ Given \in Nat
  BY <1>1, StreamFacts DEF Given
<1>9. IF Len(piece) + 1 < MaxLen
      THEN /\ Given' = Given + 1 /\ Given + 1 \in 1 .. Len(Fitting(file))
           /\ Fitting(file)[Given + 1] = piece
      ELSE Given' = Given
  <2>1. Pos \in 0 .. q - 1
    BY <1>1
  <2> HIDE DEF q
  <2> QED
    BY <1>1, <1>3, <1>5, <1>8, <2>1, FitsAtNul DEF Given, piece
<1>10. ASSUME ~TooLong(total + Block) PROVE piece = Stored
  <2>1. /\ Stored \in Seq(Letter) /\ Len(Stored) = total + Block /\ ~TooLong(total)
        /\ \A i \in 1 .. total : Stored[i] = stored[i]
        /\ \A i \in 1 .. Block : Stored[total + i] = buf[i]
    BY <1>10, StoredFits DEF StreamInv
  <2>2. ASSUME NEW i \in 1 .. total + Block PROVE Stored[i] = piece[i]
    <3>1. CASE i <= total
      <4>1. i \in 1 .. total
        BY <3>1, <1>1
      <4> QED
        BY <4>1, <1>4, <1>7, <2>1 DEF last
    <3>2. CASE i > total
      <4> DEFINE k == i - total
      <4>1. k \in 1 .. Block /\ i = total + k /\ last + i = Pos + k
        BY <3>2, <1>1 DEF last
      <4> HIDE DEF k
      <4>2. Stored[total + k] = file[Pos + k] /\ piece[i] = file[last + i]
        BY <4>1, <2>1, <1>1, <1>7
      <4> QED
        BY <4>1, <4>2
    <3> QED
      BY <3>1, <3>2, <1>1
  <2>3. /\ Stored = [i \in 1 .. total + Block |-> Stored[i]]
        /\ piece = [i \in 1 .. total + Block |-> piece[i]]
    BY <1>7, <2>1
  <2> QED
    BY <2>2, <2>3
<1>11. TooLong(total + Block) <=> ~(Len(piece) + 1 < MaxLen)
  BY <1>1, <1>4, <1>7 DEF TooLong
<1> QED
  BY <1>8, <1>9, <1>10, <1>11, StreamFacts

LEMMA ArgumentGoesOn ==
  ASSUME StreamInv, pc = "parse", Unfinished, file' = file, rest' = rest, buf' = <<>>
  PROVE  Given' = Given
<1>1. /\ Pos \in Nat /\ Block \in Nat /\ file \in Seq(Byte) /\ rest \in Seq(Byte)
      /\ \A i \in 1 .. Block : buf[i] = file[Pos + i] /\ buf[i] # NUL
      /\ Pos' = Pos + Block /\ Len(buf') + Len(rest') <= Len(file)
  BY ParseFacts, Consumes
<1>2. Pos + Block \in Pos .. Len(file) /\ Pos \in 0 .. Len(file)
  BY <1>1, StreamFacts, Empty DEF Pos
<1>3. ASSUME NEW i \in Pos + 1 .. Pos + Block PROVE file[i] # NUL
  <2> DEFINE k == i - Pos
  <2>1. k \in 1 .. Block /\ i = Pos + k
    BY <1>1
  <2> HIDE DEF k
  <2>2. file[Pos + k] # NUL
    BY <2>1, <1>1
  <2> QED
    BY <2>1, <2>2
<1>4. Upto(FitNuls(file), Pos + Block) = Upto(FitNuls(file), Pos)
  BY <1>1, <1>2, <1>3, NoFitsBetween
<1> QED
  BY <1>1, <1>4 DEF Given

(***************************************************************************)
(* What each step adds to the batches.                                     *)
(***************************************************************************)
LEMMA OutInit ==
  Init => OutInv
<1> SUFFICES ASSUME Init PROVE OutInv
  OBVIOUS
<1>1. StreamInv
  BY StreamInit
<1>2. Pos = 0 /\ out = <<>> /\ ~pend
  <2>1. /\ file \in Seq(Byte) /\ rest = file /\ buf = <<>> /\ out = <<>> /\ ~pend
    BY <1>1, StreamFacts DEF Init
  <2>2. Len(buf) = 0 /\ Len(file) \in Nat /\ Len(rest) = Len(file)
    BY <2>1, Empty
  <2>3. Pos = 0
    BY <2>2 DEF Pos
  <2> QED
    BY <2>1, <2>3
<1>3. Upto(FitNuls(file), 0) = {}
  <2>1. FitNuls(file) \in SUBSET (1 .. Len(file))
    BY <1>1, StreamFacts, FitsOf
  <2> QED
    BY <2>1 DEF Upto
<1>4. Given = 0
  BY <1>2, <1>3, FS_EmptySet DEF Given
<1>5. SubSeq(Fitting(file), 1, 0) = <<>>
  BY <1>1, StreamFacts
<1> QED
  BY <1>2, <1>4, <1>5 DEF OutInv

LEMMA ParseGives ==
  ASSUME StreamInv, OutInv, Skip \/ StorePart \/ SetAside \/ TakeArg
  PROVE  /\ OutInv' /\ file' = file
         /\ \/ out' = out
            \/ /\ out = SubSeq(Fitting(file), 1, Given) /\ Given + 1 <= Len(Fitting(file))
               /\ out' = SubSeq(Fitting(file), 1, Given + 1)
<1>1. pc = "parse" /\ file' = file /\ rest' = rest /\ ~pend
  BY ParseFacts DEF Skip, StorePart, SetAside, TakeArg
<1>2. out = SubSeq(Fitting(file), 1, Given) /\ Given \in 0 .. Len(Fitting(file))
      /\ Fitting(file) \in Seq(Seq(Byte))
  BY <1>1, StreamFacts DEF OutInv
<1>3. ASSUME ~TooLong(total + Block), ~Unfinished, buf' = BehindNul
      PROVE  /\ Given' = Given + 1 /\ Given + 1 <= Len(Fitting(file))
             /\ Append(out, Stored) = SubSeq(Fitting(file), 1, Given')
  <2>1. /\ Given' = Given + 1 /\ Given + 1 <= Len(Fitting(file))
        /\ Fitting(file)[Given + 1] = Stored
    BY <1>1, <1>3, ArgumentEnds
  <2>2. Given \in 0 .. Len(Fitting(file)) - 1
    BY <1>2, <2>1
  <2> QED
    BY <1>2, <2>1, <2>2, OneMore
<1>4. CASE Skip
  <2>1. Given' = Given
    BY <1>1, <1>4, ArgumentGoesOn, ArgumentEnds DEF Skip
  <2>2. out' = out /\ pend' = pend
    BY <1>4 DEF Skip
  <2> QED
    BY <1>1, <1>2, <2>1, <2>2 DEF OutInv
<1>5. CASE StorePart
  <2>1. Given' = Given
    BY <1>1, <1>5, ArgumentGoesOn DEF StorePart
  <2>2. out' = out /\ pend' = pend
    BY <1>5 DEF StorePart
  <2> QED
    BY <1>1, <1>2, <2>1, <2>2 DEF OutInv
<1>6. CASE SetAside
  <2>1. /\ ~TooLong(total + Block) /\ ~Unfinished /\ buf' = BehindNul
        /\ out' = out /\ pend' = TRUE /\ stored' = Stored /\ total' = total + Block
    BY <1>6 DEF SetAside
  <2>2. Argument' = Stored
    <3>1. Stored \in Seq(Letter) /\ Len(Stored) = total + Block
      BY <2>1, StoredFits DEF StreamInv
    <3>2. SubSeq(Stored, 1, total + Block) = Stored
      BY <3>1
    <3> QED
      BY <2>1, <3>2 DEF Argument
  <2> QED
    BY <1>1, <1>3, <2>1, <2>2 DEF OutInv
<1>7. CASE TakeArg
  <2>1. /\ ~TooLong(total + Block) /\ ~Unfinished /\ buf' = BehindNul
        /\ out' = Append(out, Stored) /\ pend' = pend
    BY <1>7 DEF TakeArg
  <2> QED
    BY <1>1, <1>2, <1>3, <2>1 DEF OutInv
<1> QED
  BY <1>4, <1>5, <1>6, <1>7

LEMMA PendingGiven ==
  ASSUME StreamInv, OutInv, AppendPending
  PROVE  /\ OutInv' /\ file' = file
         /\ \/ out' = out
            \/ /\ Len(out) + 1 = Given /\ out' = SubSeq(Fitting(file), 1, Given)
<1>1. file' = file /\ Pos' = Pos /\ pend' = FALSE /\ Given' = Given
  BY DEF AppendPending, Pos, Given
<1>2. Given \in 0 .. Len(Fitting(file)) /\ Fitting(file) \in Seq(Seq(Byte))
      /\ out \in Seq(Seq(Letter))
  BY StreamFacts
<1>3. CASE pend
  <2>1. out' = Append(out, Argument) /\ out' = SubSeq(Fitting(file), 1, Given)
    BY <1>3 DEF AppendPending, OutInv
  <2>2. Len(out') = Len(out) + 1 /\ Len(out') = Given
    <3>1. Argument \in Seq(Letter)
      BY <1>3 DEF StreamInv, StoreInv, TypeOK, Argument
    <3>2. Len(Append(out, Argument)) = Len(out) + 1
      BY <1>2, <3>1
    <3>3. Len(SubSeq(Fitting(file), 1, Given)) = Given
      BY <1>2
    <3> QED
      BY <2>1, <3>2, <3>3
  <2> QED
    BY <1>1, <2>1, <2>2 DEF OutInv
<1>4. CASE ~pend
  BY <1>1, <1>4 DEF AppendPending, OutInv
<1> QED
  BY <1>3, <1>4

LEMMA OthersGiveNothing ==
  ASSUME StreamInv, OutInv, Read \/ EndOfFile \/ BufferDone \/ UNCHANGED vars
  PROVE  OutInv' /\ file' = file /\ out' = out /\ pend' = pend
<1>1. file' = file /\ out' = out /\ pend' = pend /\ stored' = stored /\ total' = total
  BY DEF Read, EndOfFile, BufferDone, vars
<1>2. Pos' = Pos
  <2>1. CASE Read
    <3>1. CASE buf # <<>>
      BY <1>1, <2>1, <3>1 DEF Read, Pos
    <3>2. CASE buf = <<>>
      <4>1. PICK k \in 1 .. Min({ReadSize, Len(rest)}) :
                   /\ buf' = SubSeq(rest, 1, k)
                   /\ rest' = SubSeq(rest, k + 1, Len(rest))
        BY <2>1, <3>2 DEF Read
      <4>2. rest \in Seq(Byte) /\ file \in Seq(Byte) /\ Len(buf) = 0
        BY <3>2, StreamFacts
      <4>3. k \in 1 .. Len(rest)
        <5>1. {ReadSize, Len(rest)} \in SUBSET Nat
          BY <4>2, StreamAssumption
        <5>2. Min({ReadSize, Len(rest)}) <= Len(rest) /\ Min({ReadSize, Len(rest)}) \in Nat
          BY <5>1, LeastNul
        <5> QED
          BY <4>2, <5>2
      <4>4. Len(buf') = k /\ Len(rest') = Len(rest) - k
        BY <4>1, <4>2, <4>3
      <4> QED
        BY <1>1, <4>2, <4>3, <4>4 DEF Pos
    <3> QED
      BY <3>1, <3>2
  <2>2. CASE EndOfFile \/ BufferDone \/ UNCHANGED vars
    BY <2>2 DEF EndOfFile, BufferDone, vars, Pos
  <2> QED
    BY <2>1, <2>2
<1> QED
  BY <1>1, <1>2 DEF OutInv, Given, Argument

LEMMA OutStep ==
  StreamInv /\ OutInv /\ [Next]_vars => OutInv'
<1> SUFFICES ASSUME StreamInv, OutInv, [Next]_vars PROVE OutInv'
  OBVIOUS
<1>1. CASE AppendPending
  BY <1>1, PendingGiven
<1>2. CASE Skip \/ StorePart \/ SetAside \/ TakeArg
  BY <1>2, ParseGives
<1>3. CASE Read \/ EndOfFile \/ BufferDone \/ UNCHANGED vars
  BY <1>3, OthersGiveNothing
<1> QED
  BY <1>1, <1>2, <1>3 DEF Next, Step, Done

(***************************************************************************)
(* At any point the reader has handed over, or keeps in arg_pend, exactly  *)
(* the arguments of what it has consumed (xvp.cc:425-475).                 *)
(***************************************************************************)
THEOREM GivenInvariant == Spec => [](StreamInv /\ OutInv)
<1>1. Init => StreamInv /\ OutInv
  BY StreamInit, OutInit
<1>2. StreamInv /\ OutInv /\ [Next]_vars => (StreamInv /\ OutInv)'
  BY StreamStep, OutStep
<1> QED
  BY <1>1, <1>2, PTL DEF Spec

(***************************************************************************)
(* However read(2) cuts the file and wherever batches end, the batches     *)
(* have the arguments of what is consumed, complete, in order and each     *)
(* once; only the too long ones are missing.                               *)
(***************************************************************************)
THEOREM ExactArgumentsHolds == Spec => []ExactArguments
<1>1. StreamInv /\ OutInv => ExactArguments
  <2> SUFFICES ASSUME StreamInv, OutInv PROVE ExactArguments
    OBVIOUS
  <2>1. out \in Seq(Seq(Letter)) /\ Fitting(Consumed) = SubSeq(Fitting(file), 1, Given)
    BY StreamFacts
  <2>2. CASE pend
    <3>1. out \o <<Argument>> = Append(out, Argument)
      BY <2>1
    <3> QED
      BY <2>1, <2>2, <3>1 DEF ExactArguments, OutInv
  <2>3. CASE ~pend
    <3>1. out \o <<>> = out
      BY <2>1
    <3> QED
      BY <2>1, <2>3, <3>1 DEF ExactArguments, OutInv
  <2> QED
    BY <2>2, <2>3
<1> QED
  BY <1>1, GivenInvariant, PTL

(***************************************************************************)
(* The reader keeps the promise of ArgRunner: each argument that fits      *)
(* joins the batches in its turn, and all of them have when it is done.    *)
(***************************************************************************)
LEMMA GivesOne ==
  ASSUME Given \in Nat, Given <= Len(Fitting(file)), Len(out) + 1 = Given,
         Len(Fitting(file)) \in Nat, Len(out) \in Nat,
         out' = SubSeq(Fitting(file), 1, Given), file' = file,
         pc # "done", pc' # "done"
  PROVE  Promise!Next
<1>1. 1 \in 1 .. Len(Fitting(file)) - Len(out)
  OBVIOUS
<1>2. Promise!RunBatch(1)
  BY DEF Promise!RunBatch
<1> QED
  BY <1>1, <1>2 DEF Promise!Next

LEMMA StepKeepsPromise ==
  StreamInv /\ OutInv /\ [Next]_vars => [Promise!Next]_(Promise!vars)
<1> SUFFICES ASSUME StreamInv, OutInv, [Next]_vars PROVE [Promise!Next]_(Promise!vars)
  OBVIOUS
<1>1. /\ Given \in 0 .. Len(Fitting(file)) /\ Fitting(file) \in Seq(Seq(Byte))
      /\ out \in Seq(Seq(Letter))
      /\ Len(Fitting(file)) \in Nat /\ Len(out) \in Nat
  BY StreamFacts
<1>2. CASE AppendPending
  <2>1. pc # "done" /\ pc' # "done" /\ file' = file
    BY <1>2 DEF AppendPending
  <2>2. CASE out' = out
    BY <2>1, <2>2 DEF Promise!vars
  <2>3. CASE Len(out) + 1 = Given /\ out' = SubSeq(Fitting(file), 1, Given)
    BY <1>1, <2>1, <2>3, GivesOne
  <2> QED
    BY <1>2, <2>2, <2>3, PendingGiven
<1>3. CASE Skip \/ StorePart \/ SetAside \/ TakeArg
  <2>1. pc # "done" /\ pc' # "done" /\ file' = file
    BY <1>3 DEF Skip, StorePart, SetAside, TakeArg
  <2>2. CASE out' = out
    BY <2>1, <2>2 DEF Promise!vars
  <2>3. CASE /\ out = SubSeq(Fitting(file), 1, Given) /\ Given + 1 <= Len(Fitting(file))
             /\ out' = SubSeq(Fitting(file), 1, Given + 1)
    <3>1. Len(out) = Given
      BY <1>1, <2>3
    <3>2. 1 \in 1 .. Len(Fitting(file)) - Len(out)
      BY <1>1, <2>3, <3>1
    <3>3. Promise!RunBatch(1)
      BY <2>1, <2>3, <3>1 DEF Promise!RunBatch
    <3> QED
      BY <3>2, <3>3 DEF Promise!Next
  <2> QED
    BY <1>3, <2>2, <2>3, ParseGives
<1>4. CASE EndOfFile
  <2>1. /\ pc = "read" /\ buf = <<>> /\ rest = <<>> /\ pc' = "done" /\ file' = file
        /\ out' = out
    BY <1>4 DEF EndOfFile
  <2>2. ~pend
    BY <2>1 DEF StreamInv, StoreInv
  <2>3. Pos = Len(file) /\ file \in Seq(Byte)
    BY <2>1, StreamFacts, Empty DEF Pos
  <2>4. Upto(FitNuls(file), Len(file)) = FitNuls(file)
    <3>1. FitNuls(file) \in SUBSET (1 .. Len(file))
      BY <2>3, StreamFacts, FitsOf
    <3> QED
      BY <3>1 DEF Upto
  <2>5. Given = Len(Fitting(file))
    BY <2>3, <2>4, StreamFacts DEF Given
  <2>6. out = Fitting(file)
    <3>1. out = SubSeq(Fitting(file), 1, Len(Fitting(file)))
      BY <2>2, <2>5 DEF OutInv
    <3> QED
      BY <1>1, <3>1
  <2>7. Promise!Finish
    BY <2>1, <2>6 DEF Promise!Finish
  <2> QED
    BY <2>7 DEF Promise!Next
<1>5. CASE Read \/ BufferDone
  BY <1>5 DEF Read, BufferDone, Promise!vars
<1>6. CASE UNCHANGED vars
  BY <1>6 DEF vars, Promise!vars
<1> QED
  BY <1>2, <1>3, <1>4, <1>5, <1>6 DEF Next, Step, Done

(***************************************************************************)
(* The reader keeps the promise of ArgRunner: every append hands over the  *)
(* next argument of the file, and at the end of the loop of run() none is  *)
(* left (xvp.cc:414-488).                                                  *)
(***************************************************************************)
THEOREM StreamImplements == Spec => Implements
<1>1. Init => Promise!Init
  <2> SUFFICES ASSUME Init PROVE Promise!Init
    OBVIOUS
  <2>1. file \in Files /\ out = <<>> /\ pc = "top"
    BY DEF Init
  <2>2. Fitting(file) \in FittingFiles
    BY <2>1 DEF FittingFiles
  <2> QED
    BY <2>1, <2>2 DEF Promise!Init
<1> QED
  BY <1>1, GivenInvariant, StepKeepsPromise, PTL DEF Spec, Implements, Promise!Spec
=============================================================================
