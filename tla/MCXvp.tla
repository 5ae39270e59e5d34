------------------------------- MODULE MCXvp -------------------------------
(***************************************************************************)
(* Small instances of Xvp.  In all of them <program> and one common        *)
(* argument take 32 bytes with their pointers and a batch ends at 70.      *)
(***************************************************************************)
EXTENDS XvpInv

FitArg == {"a", "b", "c", "e"}
OverArg == {"a", "b", "c", "d", "e", "t"}

(***************************************************************************)
(* "b" fills a batch alone and is longer than all of argc_padding: a batch *)
(* that took it unchecked would be over the limit.  "d" never fits.  "t"   *)
(* is what parts of two arguments give, and is in no file.                 *)
(***************************************************************************)
MCArgLen == [a |-> 0, b |-> 36, c |-> 7, d |-> 90, e |-> 10, t |-> 9]
TornArg == {"t"}

(***************************************************************************)
(* A block may end inside of "b" and "d", and between "c" and its NUL.     *)
(***************************************************************************)
MCCuts == [a |-> {}, b |-> {20}, c |-> {7}, d |-> {50}, e |-> {}, t |-> {}]
LiveCuts == [MCCuts EXCEPT !["b"] = {}]

(***************************************************************************)
(* Every argument fits: "b" fills a batch, "a" and "c" share one, "e" is   *)
(* set aside and is the last batch.                                        *)
(***************************************************************************)
FitFile == <<"b", "c", "a", "e">>

(***************************************************************************)
(* "b" fills the last batch, so xvp itself has nothing to execute.         *)
(***************************************************************************)
ExactFile == <<"c", "e", "b">>

(***************************************************************************)
(* "b" is set aside from the batch of "c", "a" from the batch of "b".      *)
(***************************************************************************)
AsideFile == <<"c", "b", "a">>

(***************************************************************************)
(* One batch, that is not full.                                            *)
(***************************************************************************)
ShortFile == <<"a", "c">>

(***************************************************************************)
(* "d" does not fit beside argv_init.  Where it is the first, it is set    *)
(* aside from an empty batch, and a second process reads the file.         *)
(***************************************************************************)
OverFile == <<"d", "c">>
LateOverFile == <<"c", "d", "a">>

FitFiles == {FitFile, AsideFile, ExactFile, ShortFile, <<>>}
AllFiles == FitFiles \cup {OverFile, LateOverFile}
OnlyFit == {FitFile}
OnlyOver == {OverFile}

NoOptions == [noWait |-> FALSE, strict |-> FALSE, force |-> FALSE,
              unlink |-> FALSE]
Strict == [NoOptions EXCEPT !.strict = TRUE]

EveryOption == {o \in OptionSet : ~(o.noWait /\ o.strict)}
OnlyStrict == {Strict}
OnlyPlain == {NoOptions}
NoUnlink == {o \in EveryOption : ~o.unlink}
=============================================================================
