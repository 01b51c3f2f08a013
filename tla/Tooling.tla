------------------------------- MODULE Tooling -------------------------------
(***************************************************************************)
(* The host side of the repository: the microcar binary (MicrocarRun), the *)
(* dogfood harness that runs it as a child process (Harness) and the       *)
(* verdicts of the harness's lanes on the trace it prints (Lanes).  The    *)
(* harness knows the binary only by its exit code and its two output       *)
(* streams, so that a behaviour exercises one of the three.                *)
(***************************************************************************)
EXTENDS MicrocarRun, Harness, Lanes

toolVars == << hostVars, harnessVars, laneVars >>

Init == \/ HostInit /\ HarnessIdle /\ LaneIdle
        \/ HostIdle /\ HarnessInit /\ LaneIdle
        \/ HostIdle /\ HarnessIdle /\ LaneInit

Next == \/ HostNext /\ UNCHANGED << harnessVars, laneVars >>
        \/ HarnessNext /\ UNCHANGED << hostVars, laneVars >>
        \/ LaneNext /\ UNCHANGED << hostVars, harnessVars >>

(* Reader threads and the polling thread are scheduled, and the deadline   *)
(* of a poll passes.  Nothing is assumed of the child.                     *)
Spec == Init /\ [][Next]_toolVars /\ HarnessFairness
=============================================================================
