------------------------------ MODULE LogStderr ------------------------------
(***************************************************************************)
(* The buffers of include/rockdrilla/io/log-stderr.h: a message is put     *)
(* together in an array that is sized beforehand, and the text for an      *)
(* error number in one of fixed size.  A string is its length; a message m *)
(* has the lengths of its timestamp, prefix, text and suffix, 0 for a null *)
(* pointer; an error those of what is before the path, of the path and of  *)
(* the text for the number.                                                *)
(***************************************************************************)
EXTENDS Integers

CONSTANTS
  PATH_MAX,
  Plain,     \* sizeof(b) in vlog_stderr_error
  Lengths    \* the lengths that strings may have

ASSUME LogAssumption == PATH_MAX \in Nat /\ Plain \in Nat /\ Lengths \subseteq Nat

VARIABLE logged   \* the call: what kind it is, and its lengths

Message ==
  [of : {"message"}, ts : Lengths, pre : Lengths, args : Lengths, suf : Lengths]
Error == [of : {"error"}, head : Lengths, path : Lengths, text : Lengths]

(***************************************************************************)
(* One call after the other, with any strings.                             *)
(***************************************************************************)
Call == logged \in Message \cup Error
LogSpec == Call /\ [][Call']_logged

(***************************************************************************)
(* vlog_stderr: buf_len, then x behind each part that is written.          *)
(***************************************************************************)
Spaced(n) == IF n > 0 THEN n + 1 ELSE 0

BufLenPlainSuffix(m) ==  \* variant: no space before the suffix, no padding
  m.ts + 1 + Spaced(m.pre) + m.args + m.suf + 1
BufLen(m) == m.ts + 1 + Spaced(m.pre) + m.args + 1 + Spaced(m.suf) + 8

TextAt(m) == m.ts + 1 + Spaced(m.pre)
SuffixAt(m) == TextAt(m) + m.args
Written(m) == SuffixAt(m) + Spaced(m.suf) + 1

(***************************************************************************)
(* vsnprintf needs room for a NUL behind the text and cuts the text when   *)
(* there is none.                                                          *)
(***************************************************************************)
TextRoom(m) == BufLen(m) - TextAt(m)

(***************************************************************************)
(* vlog_stderr_error and vlog_stderr_path_error: the head with the number  *)
(* and the path, the text of the error behind it, and a NUL.               *)
(***************************************************************************)
ErrorSize(named) == IF named THEN Plain + PATH_MAX ELSE Plain
ErrorEnd(head, path, text) == head + path + text + 1

----------------------------------------------------------------------------
(***************************************************************************)
(* The text of a message is never cut, and nothing is written behind its   *)
(* buffer (log-stderr.h:106-147).                                          *)
(***************************************************************************)
MessageFits(m) == m.args + 1 <= TextRoom(m) /\ Written(m) <= BufLen(m)

(***************************************************************************)
(* The suffix for an error fits as long as the path is one that the system *)
(* takes, not longer than PATH_MAX, and the rest is shorter than the plain *)
(* buffer (log-stderr.h:150-180).                                          *)
(***************************************************************************)
ErrorFits(head, path, text) ==
  path <= PATH_MAX /\ head + text < Plain =>
    ErrorEnd(head, path, text) <= ErrorSize(path > 0)

(***************************************************************************)
(* No message and no error text is longer than the array it is put         *)
(* together in, whatever the lengths of their parts.                       *)
(***************************************************************************)
MessagesFit ==
  /\ logged.of = "message" => MessageFits(logged)
  /\ logged.of = "error" => ErrorFits(logged.head, logged.path, logged.text)
=============================================================================
