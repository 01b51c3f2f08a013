------------------------------- MODULE Harness -------------------------------
(***************************************************************************)
(* The dogfood harness (dogfood/src/bin/harness.rs and the lanes it        *)
(* drives).  A subcommand is a sequence of checks; a check runs batches of *)
(* scenarios, one batch after the other, the scenarios of a batch on       *)
(* threads of their own, and is judged when its last batch has been        *)
(* joined.  The exit code is the conjunction of the checks.                *)
(***************************************************************************)
EXTENDS TraceInvariants, ScenarioRunner

CONSTANTS Programs,     \* scenario -> the programs its child may turn out to be
          LineOf,       \* line -> what it parses to
          Normalized,   \* line -> the line without addresses and spacing
          Directives,   \* lane -> the expectations of its scenario
          Repeats       \* --repeats, -n and --churn

VARIABLES command,      \* the subcommand, "none" for no harness
          check,        \* index of the check in its plan
          sessions,     \* the runs of the current batch
          runs,         \* the results of the check's earlier batches
          ok,           \* all checks so far passed
          truth,        \* history: what the children did bears the checks out
          code          \* the exit code, Running before
harnessVars == << command, check, sessions, runs, ok, truth, code >>

Running == -1

(* The plans.  A batch is a sequence of scenarios.                         *)
Check(kind, batches) == [kind |-> kind, batches |-> batches]
Times(n, x) == [i \in 1 .. IF n = 0 THEN 1 ELSE n |-> x]

check_solo_vs_repeat(s) == Check("repeat", Times(Repeats, << s >>))
run_simfarm(s) == Check("simfarm", << << s >>, Times(Repeats, s) >>)
run_churn(s) == Check("churn", Times(Repeats, << s >>))
run_panic_isolation(s, bad) == Check("isolation", << << s >>, << s, bad >> >>)
run_sibling_isolation(s, bad) == Check("sibling", << << s, bad >> >>)
run_one(s) == Check("gym", << << s >>, << s >> >>)
run_seed(failing, fix) == Check("seed", << << failing >>, << fix >> >>)

(* A corpus is a directory of scenarios; here it holds one or two.         *)
cmd_run == << check_solo_vs_repeat("good") >>
cmd_run_all == << check_solo_vs_repeat("good"), check_solo_vs_repeat("ota") >>
cmd_telematics == << check_solo_vs_repeat("telematics") >>
(* --churn 0 skips the churn check; the bad scenario's file exists.        *)
cmd_simfarm == << run_simfarm("good") >>
                 \o (IF Repeats > 0 THEN << run_churn("good") >> ELSE << >>)
                 \o << run_panic_isolation("good", "bad") >>
cmd_toml_zoo == << Check("case", << << "bad" >> >>), run_sibling_isolation("good", "bad") >>
cmd_topology == << Check("topology", << << "topology" >>, << "topology_v2" >> >>) >>
cmd_diagnostics == << Check("diagnostics", << << "diagnostics" >> >>) >>
cmd_charging == << Check("charging", << << "charging" >> >>) >>
cmd_ota == << Check("ota", << << "ota" >> >>) >>
cmd_debug_gym == << run_one("good") >>
cmd_debug_gym_corpus == << run_seed("failing", "fixed") >>

Plans == [run |-> cmd_run, run_all |-> cmd_run_all, telematics |-> cmd_telematics,
          simfarm |-> cmd_simfarm, toml_zoo |-> cmd_toml_zoo, topology |-> cmd_topology,
          diagnostics |-> cmd_diagnostics, charging |-> cmd_charging, ota |-> cmd_ota,
          debug_gym |-> cmd_debug_gym, debug_gym_corpus |-> cmd_debug_gym_corpus]
plan == Plans[command]

------------------------------------------------------------------------------
(* The verdict of a check, from the results of its runs in order.          *)
normalized_hash(trace) == [i \in DOMAIN trace |-> Normalized[trace[i]]]
Parsed(trace) == [i \in DOMAIN trace |-> LineOf[trace[i]]]
Clean(r) == r.run.status = "Pass"
SameTrace(rs) == \A i \in DOMAIN rs :
                   normalized_hash(rs[i].run.trace) = normalized_hash(rs[1].run.trace)

(* ScenarioSummary: the status and the invariants of the first run only.   *)
repeat_passed(rs) ==
  /\ Clean(rs[1]) /\ SameTrace(rs)
  /\ ~any_failed(check_default(rs[1].run.status, Parsed(rs[1].run.trace)))

(* Fault: only the hashes are compared, as if a failed run had none.       *)
simfarm_passed_faulty(rs) == SameTrace(rs)

simfarm_passed(rs) == SameTrace(rs) /\ \A i \in DOMAIN rs : Clean(rs[i])
churn_passed(rs) == /\ Cardinality({i \in DOMAIN rs : Clean(rs[i])}) = Len(rs)
                    /\ Cardinality({normalized_hash(rs[i].run.trace) : i \in DOMAIN rs}) = 1
isolated(rs) == /\ Clean(rs[2]) /\ SameTrace(<< rs[1], rs[2] >>)
                /\ rs[3].run.status # "Panic"

parse_error_kind(r) == IF "error [kind]" \in Range(r.stderr_tail) THEN "kind" ELSE "none"
ScenarioError == 2
evaluate_case(rs) == /\ rs[1].run.status # "Panic"
                     /\ rs[1].run.exit_code = ScenarioError
                     /\ parse_error_kind(rs[1].run) = "kind"
sibling_isolated(rs) == /\ Clean(rs[1]) /\ rs[2].run.status # "Panic"
                        /\ rs[2].run.exit_code = ScenarioError

gym_passed(rs) ==
  gym_run_one([rs[1].run EXCEPT !.trace = Parsed(normalized_hash(@))],
              [rs[2].run EXCEPT !.trace = Parsed(normalized_hash(@))], Directives["debug_gym"])
seed_passed(rs) == /\ Len(rs) = 2 /\ Clean(rs[1]) /\ Clean(rs[2])
                   /\ corpus_evaluate("start_session_in_drive",
                                      Parsed(rs[1].run.trace), Parsed(rs[2].run.trace))

passed(kind, rs) ==
  LET st == rs[1].run.status
      trace == Parsed(rs[1].run.trace)
  IN CASE kind = "repeat" -> repeat_passed(rs)
       [] kind = "simfarm" -> simfarm_passed(rs)
       [] kind = "churn" -> churn_passed(rs)
       [] kind = "isolation" -> isolated(rs)
       [] kind = "case" -> evaluate_case(rs)
       [] kind = "sibling" -> sibling_isolated(rs)
       [] kind = "gym" -> gym_passed(rs)
       [] kind = "seed" -> seed_passed(rs)
       [] kind = "ota" -> run_ota_scenario(st, Directives[kind], trace)
       [] kind = "charging" -> run_charging_scenario(st, Directives[kind], trace)
       [] kind = "diagnostics" -> run_diagnostics_scenario(st, Directives[kind], trace)
       [] kind = "topology" ->
            run_topology_scenario(st, Directives[kind], trace, IF Len(rs) = 2 THEN rs[2].edges ELSE << >>)

(* A seed's fixed run and a topology's trace run wait for a clean first.   *)
GoesOn(kind, rs) == kind \notin {"seed", "topology"} \/ Clean(Last(rs))

------------------------------------------------------------------------------
(* What the children did: their own exit codes and the events they wrote.  *)
Fact(s) == [ended |-> IF s.child = "exited" THEN s.prog.end ELSE NoCode,
            wrote |-> SelectSeq(SubSeq(s.prog.out, 1, Len(s.prog.out) - Len(s.out)), is_trace_event),
            crashed |-> s.child = "exited" /\ s.prog.end # 0 /\ panicked(s.prog.err) /\ ~s.timed_out,
            complained |-> "error [kind]" \in Range(s.prog.err)]
Result(s) == [run |-> ScenarioRun(s), edges |-> V2Edges(s), fact |-> Fact(s)]

Ended(r, c) == r.fact.ended = c
Agree(r, q) == normalized_hash(r.fact.wrote) = normalized_hash(q.fact.wrote)
Evidence(kind, rs) ==
  CASE kind = "repeat" -> Ended(rs[1], 0) /\ \A i \in DOMAIN rs : Agree(rs[i], rs[1])
    [] kind \in {"simfarm", "churn", "gym"} ->
         \A i \in DOMAIN rs : Ended(rs[i], 0) /\ Agree(rs[i], rs[1])
    [] kind = "isolation" -> Ended(rs[2], 0) /\ Agree(rs[1], rs[2]) /\ ~rs[3].fact.crashed
    [] kind = "case" -> Ended(rs[1], 2) /\ rs[1].fact.complained /\ ~rs[1].fact.crashed
    [] kind = "sibling" -> Ended(rs[1], 0) /\ Ended(rs[2], 2) /\ ~rs[2].fact.crashed
    [] kind = "seed" -> Len(rs) = 2 /\ \A i \in 1 .. 2 : Ended(rs[i], 0)
    [] OTHER -> Ended(rs[1], 0)

------------------------------------------------------------------------------
HarnessInit == /\ command \in DOMAIN Plans \cup {"cockpit"}
               /\ check = 1 /\ sessions = << >> /\ runs = << >>
               /\ ok = TRUE /\ truth = TRUE /\ code = Running
HarnessIdle == /\ command = "none" /\ check = 1 /\ sessions = << >> /\ runs = << >>
               /\ ok = TRUE /\ truth = TRUE /\ code = 0

(* Bad arguments, no microcar binary, an unreadable or empty corpus.       *)
UsageError == /\ code = Running /\ check = 1 /\ sessions = << >> /\ runs = << >>
              /\ code' = 2
              /\ UNCHANGED << command, check, sessions, runs, ok, truth >>

(* The integration test of the costar repository: cargo's own verdict.     *)
cmd_cockpit == /\ command = "cockpit" /\ code = Running
               /\ code' \in {0, 1, 2}
               /\ UNCHANGED << command, check, sessions, runs, ok, truth >>

Working == command \in DOMAIN Plans /\ code = Running /\ check <= Len(plan)
RunsOf(batches) == FoldLeft(LAMBDA n, b : n + Len(b), 0, batches)
Planned == RunsOf(plan[check].batches)
Batch == LET bs == plan[check].batches
         IN bs[CHOOSE b \in DOMAIN bs : RunsOf(SubSeq(bs, 1, b - 1)) = Len(runs)]

(* run_concurrent: a batch starts, each scenario in a thread.              *)
StartBatch == /\ Working /\ sessions = << >> /\ Len(runs) < Planned
              /\ runs # << >> => GoesOn(plan[check].kind, runs)
              /\ \E ps \in [DOMAIN Batch -> UNION {Programs[s] : s \in Range(Batch)}] :
                   /\ \A i \in DOMAIN Batch : ps[i] \in Programs[Batch[i]]
                   /\ sessions' = [i \in DOMAIN Batch |-> spawn(ps[i])]
              /\ UNCHANGED << command, check, runs, ok, truth, code >>

(* All threads joined: the batch's results join the check's.               *)
JoinBatch == /\ sessions # << >> /\ \A i \in DOMAIN sessions : sessions[i].pc = "returned"
             /\ runs' = runs \o [i \in DOMAIN sessions |-> Result(sessions[i])]
             /\ sessions' = << >>
             /\ UNCHANGED << command, check, ok, truth, code >>

FinishCheck == /\ Working /\ sessions = << >> /\ runs # << >>
               /\ Len(runs) = Planned \/ ~GoesOn(plan[check].kind, runs)
               /\ ok' = (ok /\ passed(plan[check].kind, runs))
               /\ truth' = (truth /\ Evidence(plan[check].kind, runs))
               /\ check' = check + 1 /\ runs' = << >>
               /\ UNCHANGED << command, sessions, code >>

finish == /\ command \in DOMAIN Plans /\ code = Running /\ check > Len(plan)
          /\ code' = IF ok THEN 0 ELSE 1
          /\ UNCHANGED << command, check, sessions, runs, ok, truth >>

------------------------------------------------------------------------------
Step(i, Can(_), Do(_)) == /\ i \in DOMAIN sessions /\ Can(sessions[i])
                          /\ sessions' = [sessions EXCEPT ![i] = Do(sessions[i])]
                          /\ UNCHANGED << command, check, runs, ok, truth, code >>

Child(i) == \/ Step(i, CanWriteOut, WriteOut)
            \/ Step(i, CanWriteErr, WriteErr)
            \/ Step(i, CanExit, ChildExit)
Reader(i) == \/ Step(i, CanReadOut, ReadOut)
             \/ Step(i, CanReadErr, ReadErr)
Poll(i) == \/ Step(i, CanSeeExit, SeeExit)
           \/ Step(i, CanExpire, Expire)
           \/ Step(i, LAMBDA s : s.pc = "kill", Kill)
           \/ Step(i, CanReturn, Return)
WaitError(i) == Step(i, CanFailWait, FailWait)

HarnessNext == \/ UsageError \/ cmd_cockpit \/ StartBatch \/ JoinBatch \/ FinishCheck \/ finish
               \/ \E i \in DOMAIN sessions : Child(i) \/ Reader(i) \/ Poll(i) \/ WaitError(i)

MaxBatch == 2
HarnessFairness == \A i \in 1 .. MaxBatch : WF_harnessVars(Reader(i)) /\ WF_harnessVars(Poll(i))

------------------------------------------------------------------------------
(* Every finished run reports what its child did; see VerdictTruthful      *)
(* (run_scenario_args).                                                    *)
RunVerdictTruthful == \A i \in DOMAIN sessions : VerdictTruthful(sessions[i])

(* A run returns whatever its child does: hang, fill a pipe, or exit       *)
(* between the last look and the kill.  The exception is a failing         *)
(* try_wait, which neither kills nor waits and leaves the readers on a     *)
(* child that may never end (run_scenario_args).                           *)
RunnerReturns ==
  \A i \in 1 .. MaxBatch :
    (i \in DOMAIN sessions) ~>
      (i \in DOMAIN sessions =>
         \/ sessions[i].pc = "returned"
         \/ sessions[i].wait_failed /\ sessions[i].child = "alive")

(* The harness calls a check passed only when the children bear it out:    *)
(* they exited with the code the check asks for, by themselves, and wrote  *)
(* the same events up to addresses.  Of the repeats only the first must    *)
(* have exited with 0, and of a bad sibling only a crash before the        *)
(* deadline is refused.  Exit code 0 means that every check of the         *)
(* subcommand ran and passed (passed() of each report, the exit codes of   *)
(* the cmd_* functions).                                                   *)
HarnessExitTruthful == /\ ok => truth
                       /\ code = 0 /\ command \in DOMAIN Plans => ok /\ check > Len(plan)
=============================================================================
