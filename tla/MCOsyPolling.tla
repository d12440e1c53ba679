---------------------------- MODULE MCOsyPolling ----------------------------
(* Instances of OsyPolling: one or two application threads with a handful of calls. *)
EXTENDS OsyPolling

CONSTANTS p, q,                     \* application threads
          e1, e2,                   \* data pool elements
          read1,                    \* calls
          register1, register2, stop

MCOp ==
    [c \in Calls |-> CASE c = read1 -> "read"
                      [] c \in {register1, register2} -> "register"
                      [] c = stop -> "stop"]

MCElement == [c \in Calls |-> IF c = register2 THEN e2 ELSE e1]

\* Where there are two threads, q only registers.
MCCaller == [c \in Calls |-> IF q \in Pollers /\ c = register1 THEN q ELSE p]
=============================================================================
