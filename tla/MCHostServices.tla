---------------------------- MODULE MCHostServices ----------------------------
(* Small instances of the components of HostServices for TLC.              *)
EXTENDS HostServices

CONSTANTS t1, t2, j1, a1, a2, b1, A, B

\* The goals of all claims read each other's results.
MCReadable == [c \in ClaimId |-> ClaimId]

\* Two stores opened in one process, and one in another.
MCProcOf == [c \in Conn |-> IF c = b1 THEN B ELSE A]

\* One task edits in two batches, the other one checks; a worker serves one at a time.
MCPlan   == [t \in Task |-> IF t = t1 THEN <<1, 2>> ELSE <<0>>]
MCServes == [w \in Worker |-> 1]

\* Jobs are told apart by nothing but who asks for them, and the number of them does not
\* matter if all ask for the same one.
UpToRenaming == uses[t1] = j1 /\ (maxJobs = 1 => uses[t2] # j1)

\* A search is safe and run by Bash, an edit is exclusive and not to be interrupted:
\* searches around an edit, and a misnomer in the places where it matters.
Response ==
  {<<"search", "search", "edit">>, <<"search", "edit", "search">>, <<"edit", "search", "search">>,
   <<"misnomer", "search", "edit">>, <<"search", "misnomer", "search">>, <<"edit", "misnomer", "search">>}

MCInit ==
  /\ Init
  /\ focus = "jobs" => UpToRenaming
  /\ focus = "tools" => kind \in Response

FairSpec == MCInit /\ [][Next]_vars /\ Fairness
=============================================================================
