------------------------------- MODULE MCServer -------------------------------
(***************************************************************************)
(* Instances of Server for TLC.                                            *)
(***************************************************************************)
EXTENDS Server, TLC

CONSTANTS s1, s2, m1, m2

OwnIDs == [s \in Streams |-> s]

\* Bound: streams are called in order; rooms are numbered in the order of extraction.
InOrder ==
  /\ call[s2] # "none" => call[s1] # "none"
  /\ phase[m2] # "free" => phase[m1] # "free"

\* Bound: the first client clicks only in ready checks, and leaves, if it does, when the
\* server is draining; the second never clicks nor leaves, and gets its status pushes.
PatientClients ==
  /\ acceptReq[s1] # Unprompted
  /\ client[s1] = "gone" => main \in {"draining", "stopped"}
  /\ client[s1] # "cancel"
  /\ acceptReq[s2] = None /\ client[s2] = "open"
  /\ handler[s2] = "leaving" => evt[s2] # None

\* These bounds concern clients and pushes to them, of which no fairness is assumed: they
\* keep no goroutine of the server from its next step.
PatientInOrder == InOrder /\ PatientClients
===============================================================================
