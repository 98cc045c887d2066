----------------------------- MODULE MCSkwPort -----------------------------
(* SkwPort for TLC.  Each load is large in one respect: a stream that      *)
(* wraps the ring, messages with late answers, a port opened and closed    *)
(* again, a crash.                                                         *)
EXTENDS SkwPort

Load(b, s, o, c, k, e) ==
  [bytes |-> b, sends |-> s, opens |-> o, closes |-> c, crashes |-> k, errors |-> e]

MCLoads == {Load(5, 0, 1, 0, 0, 0), Load(1, 2, 1, 0, 0, 1), Load(2, 1, 1, 0, 0, 1), Load(3, 0, 2, 1, 0, 0),
            Load(1, 1, 2, 1, 0, 0), Load(1, 0, 2, 1, 1, 0), Load(0, 1, 1, 1, 1, 0)}
=============================================================================
