--------------------------- MODULE DataPlatformCi ---------------------------
(***************************************************************************)
(* .github/workflows/data-platform-ci.yml over the pushes to main and the  *)
(* dispatches on it, and the same two programs run by hand:                *)
(* run_slim_ci.py, whose runs share one database and one checkout, and     *)
(* run_phase8a_validation.py.                                              *)
(***************************************************************************)
EXTENDS SlimCi

CONSTANTS LocalIds,       \* run ids given by hand
          FirstRevision,  \* main at the start
          MaxLoad         \* bound on what is started, see Load

ASSUME WorkflowAssumption ==
  /\ FirstRevision \in Revisions
  /\ LocalIds \subseteq Seq(STRING)

VARIABLES history,  \* main, oldest first: each revision with the run of its push
          now       \* 0, or 1 once the deadlines of the revisions have passed

vars == <<ciVars, history, now>>

Init == CiInit /\ history = <<[revision |-> FirstRevision, run |-> 0]>> /\ now = 0

Main == Last(history).revision

InWorkflow(r) == r \in DOMAIN runs /\ runs[r].place = r
ByHand(r) == r \in DOMAIN runs /\ runs[r].place = Local
IsGate(r) == r \in DOMAIN runs /\ runs[r].at = "gate"

\* A run of Slim CI counts three, a gate by hand two.
Load == 3 * Len(runs) - Cardinality({r \in DOMAIN runs : IsGate(r)})
CanStart(load) == Load + load <= MaxLoad

\* Both jobs are over, with a verdict or without, or the first one failed.
Ended(r) == ~Running(r) /\ (runs[r].outcome = "passed" => runs[r].gate # Absent)

-----------------------------------------------------------------------------
(* The workflow. *)

\* What is started on main cancels the run in progress.
StartOnMain(base, current) ==
  /\ CanStart(3)
  /\ runs' = Append([r \in DOMAIN runs |-> IF InWorkflow(r) /\ ~Ended(r) THEN End(r, "cancelled")
                                          ELSE runs[r]],
                    Started(Len(runs) + 1, <<"gha">>, base, current))
  /\ UNCHANGED <<schemas, directories, now>>

\* Mutant of the next: a push that finds a run in progress is not run itself.
PushYields(revision) ==
  /\ IF \E r \in DOMAIN runs : InWorkflow(r) /\ ~Ended(r)
     THEN /\ CanStart(3)
          /\ runs' = Append(runs, [Started(Len(runs) + 1, <<"gha">>, Main, revision) EXCEPT
                                     !.at = "end", !.outcome = "cancelled"])
          /\ UNCHANGED <<schemas, directories, now>>
     ELSE StartOnMain(Main, revision)
  /\ history' = Append(history, [revision |-> revision, run |-> Len(runs) + 1])

\* A push is compared with the revision before it.  One that does not resolve
\* (a new branch, a forced push) is a base that BuildBase gives up.
Push(revision) ==
  /\ StartOnMain(Main, revision)
  /\ history' = Append(history, [revision |-> revision, run |-> Len(runs) + 1])

\* workflow_dispatch knows no revision before: nothing is compared.
Dispatch == StartOnMain(Absent, Main) /\ UNCHANGED history

\* The second job needs the first one; it is given no previous manifest.  A job
\* that fails otherwise counts as invalid.  Its timeout-minutes are 20.
Phase8A(r) ==
  /\ InWorkflow(r) /\ runs[r].outcome = "passed" /\ runs[r].gate = Absent
  /\ now' \in now..1
  /\ \E gate \in Outcomes(Absent, Tree[runs[r].current], now, now') \cup {"timed_out"} :
       runs' = [runs EXCEPT ![r].gate = gate]
  /\ UNCHANGED <<schemas, directories, history>>

\* A command of the first job hangs.
Hang(r) ==
  /\ InWorkflow(r) /\ Running(r) /\ runs[r].at # "hung"
  /\ Goto(r, "hung")
  /\ UNCHANGED <<schemas, directories, history, now>>

\* timeout-minutes: 45.
JobTimeout(r) ==
  /\ InWorkflow(r) /\ At(r, "hung")
  /\ runs' = [runs EXCEPT ![r] = End(r, "timed_out")]
  /\ UNCHANGED <<schemas, directories, history, now>>

-----------------------------------------------------------------------------
(* By hand. *)

\* --base-ref HEAD against the working tree, whatever it holds by now;
\* --no-base-state is again a base that is given up.
StartLocal(id, revision) ==
  /\ CanStart(3)
  /\ runs' = Append(runs, Started(Local, id, Main, revision))
  /\ UNCHANGED <<schemas, directories, history, now>>

Approvals == {r \in DOMAIN runs : IsGate(r) /\ runs[r].gate = "passed"}

\* run_phase8a_validation.py --previous-manifest --previous-cost-policy, of
\* the revision that passed last.  A run id that is taken is invalid as well.
LocalGate(revision) ==
  LET previous == IF Approvals = {} THEN Absent ELSE runs[Max(Approvals)].current
      before == IF previous = Absent THEN Absent ELSE Tree[previous]
  IN /\ CanStart(2)
     /\ now' \in now..1
     /\ \E gate \in Outcomes(before, Tree[revision], now, now') :
          runs' = Append(runs, [Started(Local, <<"gate">>, previous, revision) EXCEPT
                                  !.at = "gate", !.outcome = "ended", !.gate = gate])
     /\ UNCHANGED <<schemas, directories, history>>

\* The deadlines of exemptions and waivers pass.
DeadlinesPass == now = 0 /\ now' = 1 /\ UNCHANGED <<ciVars, history>>

Workflow == \E r \in DOMAIN runs :
  InWorkflow(r) /\ (JobTimeout(r) \/ Phase8A(r) \/ (SlimStep(r) /\ UNCHANGED <<history, now>>))

Hands == \/ \E id \in LocalIds, revision \in Revisions : StartLocal(id, revision)
         \/ \E revision \in Revisions : LocalGate(revision)
         \/ \E r \in DOMAIN runs :
              ByHand(r) /\ (SlimStep(r) \/ Escape(r)) /\ UNCHANGED <<history, now>>

Next == \/ \E revision \in Revisions : Push(revision)
        \/ Dispatch
        \/ \E r \in DOMAIN runs : Hang(r)
        \/ Workflow \/ Hands \/ DeadlinesPass

\* The runners of the workflow go on; nothing is assumed of runs by hand.
Spec == Init /\ [][Next]_vars /\ WF_vars(Workflow)

-----------------------------------------------------------------------------
(* Properties. *)

TypeOK ==
  /\ history \in Seq([revision : Revisions, run : Nat]) /\ history # <<>> /\ now \in 0..1
  /\ \A r \in DOMAIN runs :
       /\ runs[r].place \in {Local, r}
       /\ runs[r].outcome \in {"running", "passed", "failed", "escaped", "cancelled",
                               "timed_out", "ended"}
       /\ runs[r].gate \in {Absent, "passed", "blocked", "invalid", "timed_out"}
  /\ \A s \in schemas : ByHand(s.by) /\ s.id = runs[s.by].id
  /\ directories \subseteq {<<runs[r].place, runs[r].id>> : r \in DOMAIN runs}

\* slim_ci.py:444, 478.  A schema that is still there belongs to a run id in
\* use, or to a run whose exception escaped, or to one whose summary says that
\* its cleanup failed: no other end of a run leaves one behind.
SchemasAccountedFor ==
  \A s \in schemas : \E r \in DOMAIN runs :
    /\ ByHand(r) /\ runs[r].id = s.id
    /\ Running(r) \/ runs[r].outcome = "escaped" \/ runs[r].unclean

\* What a consumer of a revision's marts relies on.
Promises(tree) ==
  UNION {LET node == tree.models[m]
         IN {<<m, "column", c, node.columns[c].type>> : c \in DOMAIN node.columns}
            \cup {<<m, "accepts null", c>> : c \in {d \in DOMAIN node.columns :
                                                     ~node.columns[d].required}}
            \cup {<<m, "test", t>> : t \in TestsForModel(tree, m)}
            \cup {<<m, "grain", node.grain>>}
            \cup (IF node.enforced THEN {<<m, "contract">>} ELSE {})
         : m \in Published(tree)}

\* The push of history[i] compared it with the revision before, and passed.
Green(i) ==
  LET r == runs[history[i].run] IN r.outcome = "passed" /\ r.mode = "state_modified_plus"

\* contracts.py:302.  As long as the run of every push compared it with the
\* one before and passed, nothing an earlier revision promised is taken back.
GreenChainKeepsPromises ==
  \A i, j \in DOMAIN history :
    /\ i < j
    /\ \A k \in (i + 1)..j : Green(k)
    => Promises(Tree[history[i].revision]) \subseteq Promises(Tree[history[j].revision])

\* bigquery_policy_diff.py:110, bigquery_compatibility.py:169.  From one local
\* gate to a later one no required mart loses or changes its partition, drops
\* its filter or changes its merge key, not even by way of a revision in
\* which its policy is missing.
PolicyNeverWeakens ==
  \A r, s \in Approvals : r < s =>
    \A m \in RequiredModels :
      LET old == BigQuery(Tree[runs[r].current], m)
          new == BigQuery(Tree[runs[s].current], m)
      IN old # Absent /\ new # Absent =>
           old.partition = new.partition /\ old.merge_key = new.merge_key /\ (old.filter => new.filter)

\* bigquery_cost_policy.py:129, bigquery_compatibility.py:219.  What a gate
\* passes on an exemption or a waiver was in force when the gate looked at it:
\* for a waiver that is later, when the exemptions may have run out.
PassedInForce ==
  [][\A r \in DOMAIN runs' :
       runs'[r].gate = "passed" /\ (r \in DOMAIN runs => runs[r].gate # "passed") =>
         LET tree == Tree[runs'[r].current]
         IN /\ \A m \in Published(tree) :
                 BigQuery(tree, m).partition = Absent => BigQuery(tree, m).exemption.until > now
            /\ tree.fixture.estimate >= CostOf(tree.cost, tree.fixture.model).blocking =>
                 tree.fixture.waiver.until > now']_runs

\* Red, or green and with a gate; a run that was cancelled or hung has none.
HasVerdict(r) ==
  \/ runs[r].outcome \in {"failed", "escaped"}
  \/ runs[r].outcome = "passed" /\ runs[r].gate \in {"passed", "blocked", "invalid"}

TimedOut(r) == "timed_out" \in {runs[r].outcome, runs[r].gate}

WorkflowRuns == {r \in DOMAIN runs : InWorkflow(r)}

\* data-platform-ci.yml:14, 19, 144.  However pushes and dispatches cancel runs
\* and commands hang, every run is over in the end, and the last one is of the
\* revision main ends up with and has a verdict on it, unless it hung itself.
LatestPushJudged ==
  <>[](/\ \A r \in WorkflowRuns : Ended(r)
       /\ WorkflowRuns # {} =>
            LET last == Max(WorkflowRuns)
            IN runs[last].current = Main /\ (HasVerdict(last) \/ TimedOut(last)))

\* slim_ci.py:215, "Drop only schemas created for this run": what a step of a
\* run drops, that run created.
OnlyOwnSchemasDropped ==
  [][\A s \in schemas \ schemas' : runs'[s.by] # runs[s.by]]_schemas
=============================================================================
