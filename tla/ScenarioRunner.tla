--------------------------- MODULE ScenarioRunner ---------------------------
(***************************************************************************)
(* One call of run_scenario_args (dogfood/src/runner.rs): the child        *)
(* process, its two pipes, the two reader threads and the polling thread,  *)
(* as a record and the steps on it.  A step is an operator with a guard    *)
(* and an effect; the caller picks the session that moves.                 *)
(*                                                                         *)
(* A program is what a child does when left alone: the lines it writes and *)
(* how it ends (an exit code, Hangs, or NoChild when it cannot be          *)
(* started).  Lines are names; the caller says what they parse to.         *)
(***************************************************************************)
EXTENDS Integers, Sequences, SequencesExt

CONSTANTS PipeLines,     \* lines a pipe holds before its writer blocks
          TAIL_LINES     \* 20 in runner.rs

Hangs == -1
NoChild == -2
NoCode == -1             \* exit_code == None

(* The header, blank lines and the final marker are not trace events.      *)
is_trace_event(line) == line \notin {"=== name ===", "", "PASS", "FAIL"}
tail(v, n) == SubSeq(v, IF Len(v) > n THEN Len(v) - n + 1 ELSE 1, Len(v))
panicked(errs) == "panicked" \in Range(errs)

(* Spawn, with both readers started; a spawn error has nothing to join.    *)
spawn(prog) ==
  [prog |-> prog, child |-> IF prog.end = NoChild THEN "none" ELSE "alive",
   out |-> prog.out, err |-> prog.err, pout |-> << >>, perr |-> << >>,
   stdout |-> << >>, stderr |-> << >>,
   pc |-> IF prog.end = NoChild THEN "returned" ELSE "poll",
   timed_out |-> FALSE, exit_status |-> NoCode, wait_failed |-> FALSE]

(* The child writes a line when the pipe has room, and ends when all is    *)
(* written.                                                                *)
CanWriteOut(s) == s.child = "alive" /\ s.out # << >> /\ Len(s.pout) < PipeLines
WriteOut(s) == [s EXCEPT !.out = Tail(@), !.pout = Append(@, Head(s.out))]
CanWriteErr(s) == s.child = "alive" /\ s.err # << >> /\ Len(s.perr) < PipeLines
WriteErr(s) == [s EXCEPT !.err = Tail(@), !.perr = Append(@, Head(s.err))]
CanExit(s) == s.child = "alive" /\ s.out = << >> /\ s.err = << >> /\ s.prog.end # Hangs
ChildExit(s) == [s EXCEPT !.child = "exited"]

(* read_all_lines on each pipe.                                            *)
CanReadOut(s) == s.pc # "returned" /\ s.pout # << >>
ReadOut(s) == [s EXCEPT !.stdout = Append(@, Head(s.pout)), !.pout = Tail(@)]
CanReadErr(s) == s.pc # "returned" /\ s.perr # << >>
ReadErr(s) == [s EXCEPT !.stderr = Append(@, Head(s.perr)), !.perr = Tail(@)]

(* The end of file follows the child's end.                                *)
ReadersDone(s) == s.child # "alive" /\ s.pout = << >> /\ s.perr = << >>

(* try_wait: the child has exited; or it has not and the deadline is past, *)
(* so that it is about to be killed; or try_wait itself fails.             *)
CanSeeExit(s) == s.pc = "poll" /\ s.child = "exited"
SeeExit(s) == [s EXCEPT !.pc = "join", !.exit_status = s.prog.end]
CanExpire(s) == s.pc = "poll" /\ s.child = "alive"
Expire(s) == [s EXCEPT !.pc = "kill"]
CanFailWait(s) == s.pc = "poll"
FailWait(s) == [s EXCEPT !.pc = "join", !.wait_failed = TRUE]

(* Fault: on a timeout the child is abandoned, not killed.                 *)
Kill_faulty(s) == [s EXCEPT !.pc = "join", !.timed_out = TRUE]

(* kill and wait; the child may have exited since try_wait looked.         *)
Kill(s) == [s EXCEPT !.pc = "join", !.timed_out = TRUE,
                     !.child = IF @ = "alive" THEN "killed" ELSE @]

(* Fault: the result is built without waiting for the readers.             *)
CanReturn_faulty(s) == s.pc = "join"

(* Both readers are joined before the result is built.                     *)
CanReturn(s) == s.pc = "join" /\ ReadersDone(s)
Return(s) == [s EXCEPT !.pc = "returned"]

status(s) ==
  CASE s.timed_out -> "Timeout"
    [] ~s.timed_out /\ s.exit_status = 0 -> "Pass"
    [] ~s.timed_out /\ s.exit_status # 0 /\ panicked(s.stderr) -> "Panic"
    [] OTHER -> "Fail"

ScenarioRun(s) ==
  [status |-> status(s), exit_code |-> s.exit_status,
   trace |-> SelectSeq(s.stdout, is_trace_event),
   stderr_tail |-> IF s.child = "none" THEN << "failed to spawn" >> ELSE tail(s.stderr, TAIL_LINES)]

(* run_scenario_v2 (topology.rs) polls in the same way with no pipes, and  *)
(* reads what the child left in its trace file: the records the child      *)
(* writes when its run is over, or nothing.                                *)
V2Edges(s) == IF s.child = "exited" /\ s.prog.end = 0 THEN s.prog.edges ELSE << >>

------------------------------------------------------------------------------
(* The verdict of a finished run is the truth about its child: no line the *)
(* child wrote is lost, even when it is killed; Pass means it exited with  *)
(* 0 in time after writing all it had to say; an exit code is the child's  *)
(* own; Panic means it wrote a panic and did not succeed, unless try_wait  *)
(* failed and the exit status is unknown; Timeout is the only verdict of a *)
(* killed child (run_scenario_args).                                       *)
VerdictTruthful(s) ==
  LET r == ScenarioRun(s)
      wrote == SubSeq(s.prog.out, 1, Len(s.prog.out) - Len(s.out))
      own == s.child = "exited"
  IN s.pc = "returned" =>
       /\ r.trace = SelectSeq(wrote, is_trace_event)
       /\ r.status = "Pass" => own /\ s.prog.end = 0 /\ s.out = << >>
       /\ r.exit_code # NoCode => own /\ r.exit_code = s.prog.end
       /\ r.status = "Panic" => panicked(s.prog.err) /\ (s.wait_failed \/ (own /\ s.prog.end # 0))
       /\ s.child = "killed" => r.status = "Timeout"
=============================================================================
