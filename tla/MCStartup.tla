----------------------------- MODULE MCStartup -----------------------------
(***************************************************************************)
(* Every sequence of at most three options, around pages of 4096 bytes: an *)
(* environment that fills a page, half of it or neither, few and many      *)
(* variables; and ones so large that size_t (30 bits here) wraps.          *)
(***************************************************************************)
EXTENDS Startup

MaxOptions == 3
MCLines == UNION {[1 .. n -> Letter] : n \in 0 .. MaxOptions}
MCEnvs ==
  {e \in [bytes : {0, 1, 2047, 2048, 2049, 4095, 4096, 126976, 129023, 131040},
          count : {0, 1, 255, 1000}]
     : e.bytes >= e.count /\ (e.count = 0 => e.bytes = 0)}
MCStacks == {524288, 8388608, 134217728}
=============================================================================
