---------------------------- MODULE SkwByteFifo ----------------------------
(***************************************************************************)
(* What a port of the SDIO platform driver promises its reader: a bounded  *)
(* byte queue.  A packet's payload joins the queue as a whole or not at    *)
(* all, a reader takes a prefix of the queue, and opening the port may     *)
(* throw away what a former user left.  SkwPort is shown to implement it.  *)
(***************************************************************************)
EXTENDS Integers, Sequences, Functions

CONSTANTS Capacity,      \* the most bytes the queue holds, a positive number
          Byte           \* the numbers of the bytes

VARIABLES queue,         \* bytes accepted and not read
          out            \* the bytes the last read returned

fifoVars == <<queue, out>>

FifoInit == queue = <<>> /\ out = <<>>

\* A payload that fits joins the queue.  Bytes are numbered in the order
\* they were sent, so a payload is a run of numbers above all earlier ones.
Accept == \E b \in Byte :
            /\ \A x \in Range(queue) \cup Range(out) : x < b
            /\ \E n \in 1 .. (Capacity - Len(queue)) :
                 queue' = queue \o [i \in 1 .. n |-> b + i - 1]
            /\ UNCHANGED out

\* A read takes a prefix.
Take == \E n \in 1 .. Len(queue) :
          /\ out' = SubSeq(queue, 1, n)
          /\ queue' = SubSeq(queue, n + 1, Len(queue))

\* A new user starts with an empty queue.
Clear == queue' = <<>> /\ UNCHANGED out

FifoNext == Accept \/ Take \/ Clear

FifoSpec == FifoInit /\ [][FifoNext]_fifoVars
=============================================================================
