----------------------------- MODULE MCOsyTpCan -----------------------------
(* Instances of OsyTpCan: a tester, one or two ECUs, and a handful of services. *)
EXTENDS OsyTpCan, TLC

CONSTANTS tester, ecu, ecu2,                  \* nodes
          single, short, long, omf,
          tooLongOmf,                         \* services of the tester
          answer, longest, event,             \* services of ecu
          answer2                             \* a service of ecu2

\* Both ECUs answer to the tester, the tester begins with the first.
MCPartner == [n \in Nodes |-> IF n = tester THEN ecu ELSE tester]

\* single takes one frame, short, omf and the answers two or three; longest has
\* 17 consecutive frames, so that its sequence number passes 15, and tooLongOmf
\* 16, one more than the openSYDE numbering has numbers for.
ByteCount ==
    (single :> 5) @@ (short :> 13) @@ (long :> 20) @@ (longest :> 125) @@
    (omf :> 13) @@ (tooLongOmf :> 118) @@
    (answer :> 15) @@ (event :> 8) @@ (answer2 :> 13)

MCSize == [s \in Services |-> ByteCount[s]]

MCSource ==
    [s \in Services |-> CASE s \in {answer, longest, event} -> ecu
                          [] s = answer2 -> ecu2
                          [] OTHER -> tester]

\* No frame of a former server gets into a queue after it was cleared.
NoStray == ~faults.stray
=============================================================================
