------------------------ MODULE DataPlatformCiProofs ------------------------
(***************************************************************************)
(* Proofs about the CI workflow and the runs by hand, for any revisions of *)
(* the project, any run ids and any number of runs.                        *)
(*                                                                         *)
(* Most steps advance one run that is running (Advance); pushes,           *)
(* dispatches and gates append one.  AdvanceKeeps is the one argument      *)
(* about the former.                                                       *)
(***************************************************************************)
EXTENDS DataPlatformCi, SequenceTheorems, TLAPS

-----------------------------------------------------------------------------
(* The inductive invariant. *)

Phases == {"mkdir", "base", "checks", "build", "cleanup", "recover", "hung", "gate", "end"}
Ids == LocalIds \cup {<<"gha">>, <<"gate">>}
Run == [place : {Local} \cup Nat, id : Ids, base : Revisions \cup {Absent}, current : Revisions,
        at : Phases, mode : {"full_ci_fallback", "state_modified_plus"},
        outcome : {"running", "passed", "failed", "escaped", "cancelled", "timed_out", "ended"},
        unclean : BOOLEAN, gate : {Absent, "passed", "blocked", "invalid", "timed_out"}]

\* A run has a base when it says so, and has come past the checks only with
\* a verdict on the two revisions.
Judged(r) ==
  /\ runs[r].mode = "state_modified_plus" => runs[r].base \in Revisions
  /\ runs[r].outcome = "passed" \/ (Running(r) /\ runs[r].at \in {"build", "cleanup"}) =>
       Verdict[IF runs[r].mode = "full_ci_fallback" THEN Absent ELSE runs[r].base][runs[r].current]

\* A gate is no run of Slim CI; what it passed is compatible.
GateRun(r) ==
  IsGate(r) =>
    /\ runs[r].outcome = "ended"
    /\ runs[r].gate = "passed" => \E t \in 0 .. 1 : Compatible(Tree[runs[r].current], t)

RunInv ==
  /\ runs \in Seq(Run)
  /\ \A r \in DOMAIN runs :
       /\ runs[r].place \in {Local, r}
       /\ Judged(r) /\ GateRun(r)
       /\ ByHand(r) /\ Running(r) => runs[r].id \in LocalIds

\* A push appends its revision and its run, and of these only the last one may
\* be running.
HistoryInv ==
  /\ history \in Seq([revision : Revisions, run : Nat]) /\ history # <<>> /\ now \in 0 .. 1
  /\ \A i \in 2 .. Len(history) :
       LET r == history[i].run
       IN /\ InWorkflow(r)
          /\ runs[r].base = history[i - 1].revision /\ runs[r].current = history[i].revision
          /\ Running(r) => i = Len(history)

\* The previous revision is the latest that passed.
LatestApproval == Approvals # {} => \E x \in Approvals : \A y \in Approvals : y <= x

SchemaInv ==
  /\ \A s \in schemas : ByHand(s.by) /\ s.id = runs[s.by].id
  /\ directories \subseteq {<<runs[r].place, runs[r].id>> : r \in DOMAIN runs}
  /\ SchemasAccountedFor

IndInv ==
  RunInv /\ HistoryInv /\ SchemaInv /\ LatestApproval
    /\ GreenChainKeepsPromises /\ PolicyNeverWeakens

-----------------------------------------------------------------------------
(* What the checks of two revisions say. *)

\* The changes of columns that block; nothing else of these names is found.
ColumnBlocking == {"published_column_rename", "published_column_removed",
                   "incompatible_data_type_change", "nullable_to_required"}

LEMMA NoColumnChange ==
  ASSUME NEW old, NEW new, \A f \in CompareColumns(old, new) : f.change \notin Blocking
  PROVE  \A c \in DOMAIN old : /\ c \in DOMAIN new /\ old[c].type = new[c].type
                               /\ ~old[c].required => ~new[c].required
<1>. DEFINE changes == ColumnChanges(old, new)
<1>1. ASSUME NEW k \in ColumnBlocking PROVE changes[k] = {} /\ k \in DOMAIN changes
  <2>1. k \in DOMAIN changes /\ k \in Blocking
    BY DEF ColumnBlocking, ColumnChanges, Blocking
  <2>2. \A c \in changes[k] : [column |-> c, change |-> k] \in CompareColumns(old, new)
    <3>. HIDE DEF changes
    <3>1. CompareColumns(old, new)
            = UNION {{[column |-> c, change |-> j] : c \in changes[j]} : j \in DOMAIN changes}
      BY DEF CompareColumns, changes
    <3>. QED
      BY <2>1, <3>1
  <2>3. \A c : [column |-> c, change |-> k].change = k
    OBVIOUS
  <2>. HIDE DEF changes
  <2>. QED
    BY <2>1, <2>2, <2>3
<1>2. /\ changes["published_column_rename"] = Renamed(old, new)
      /\ changes["published_column_removed"] = DOMAIN old \ (DOMAIN new \cup Renamed(old, new))
      /\ changes["incompatible_data_type_change"]
           = {c \in DOMAIN old \cap DOMAIN new : old[c].type # new[c].type}
      /\ changes["nullable_to_required"]
           = {c \in DOMAIN old \cap DOMAIN new : ~old[c].required /\ new[c].required}
  BY DEF ColumnChanges
<1>. HIDE DEF changes
<1>3. Renamed(old, new) = {} /\ DOMAIN old \ (DOMAIN new \cup Renamed(old, new)) = {}
  BY <1>1, <1>2 DEF ColumnBlocking
<1>4. DOMAIN old \subseteq DOMAIN new
  BY <1>3
<1>5. \A c \in DOMAIN old \cap DOMAIN new : old[c].type = new[c].type
  BY <1>1, <1>2 DEF ColumnBlocking
<1>6. \A c \in DOMAIN old \cap DOMAIN new : ~(~old[c].required /\ new[c].required)
  BY <1>1, <1>2 DEF ColumnBlocking
<1>. QED
  BY <1>4, <1>5, <1>6

LEMMA NoModelChange ==
  ASSUME NEW previous, NEW current, NEW m,
         \A k \in ModelChanges(previous, current, m) : k \notin Blocking
  PROVE  LET old == previous.models[m]
             new == current.models[m]
         IN /\ old.enforced => new.enforced
            /\ old.grain = new.grain
            /\ TestsForModel(previous, m) \subseteq TestsForModel(current, m)
<1>1. previous.models[m].enforced /\ ~current.models[m].enforced =>
        "contract_removed" \in ModelChanges(previous, current, m)
  BY DEF ModelChanges
<1>2. previous.models[m].grain # current.models[m].grain =>
        "grain_changed" \in ModelChanges(previous, current, m)
  BY DEF ModelChanges
<1>3. ~(TestsForModel(previous, m) \subseteq TestsForModel(current, m)) =>
        "required_test_removed" \in ModelChanges(previous, current, m)
  BY DEF ModelChanges
<1>. QED
  BY <1>1, <1>2, <1>3 DEF Blocking

\* A comparison that blocks nothing takes no promise back.
LEMMA ComparisonKeepsPromises ==
  ASSUME NEW old, NEW new, old # Absent, ContractStatus(old, new) # "blocked"
  PROVE  Promises(old) \subseteq Promises(new)
<1>1. \A f \in ContractFindings(old, new) : f.change \notin Blocking
  BY DEF ContractStatus
<1>2. Published(old) \subseteq Published(new)
  <2>. SUFFICES ASSUME NEW m \in Published(old), m \notin Published(new) PROVE FALSE
    OBVIOUS
  <2>. DEFINE f == [model |-> m, column |-> Absent, change |-> "published_model_removed"]
  <2>1. f \in ContractFindings(old, new)
    BY DEF ContractFindings
  <2>. QED
    BY <1>1, <2>1 DEF Blocking
<1>3. ASSUME NEW m \in Published(old)
      PROVE  /\ \A f \in CompareColumns(old.models[m].columns, new.models[m].columns) :
                  f.change \notin Blocking
             /\ \A k \in ModelChanges(old, new, m) : k \notin Blocking
  <2>1. m \in Published(old) \cap Published(new)
    BY <1>2
  <2>2. ModelFindings(old, new, m) \subseteq ContractFindings(old, new)
    BY <2>1 DEF ContractFindings
  <2>3. ASSUME NEW f \in CompareColumns(old.models[m].columns, new.models[m].columns)
        PROVE  f.change \notin Blocking
    <3>1. [model |-> m, column |-> f.column, change |-> f.change] \in ModelFindings(old, new, m)
      BY DEF ModelFindings
    <3>. QED
      BY <1>1, <2>2, <3>1
  <2>4. ASSUME NEW k \in ModelChanges(old, new, m) PROVE k \notin Blocking
    <3>1. [model |-> m, column |-> Absent, change |-> k] \in ModelFindings(old, new, m)
      BY DEF ModelFindings
    <3>. QED
      BY <1>1, <2>2, <3>1
  <2>. QED
    BY <2>3, <2>4
<1>. SUFFICES ASSUME NEW p \in Promises(old) PROVE p \in Promises(new)
  OBVIOUS
<1>. DEFINE PromisesOf(tree, m) ==
              LET node == tree.models[m]
              IN {<<m, "column", c, node.columns[c].type>> : c \in DOMAIN node.columns}
                   \cup {<<m, "accepts null", c>> : c \in {d \in DOMAIN node.columns :
                                                          ~node.columns[d].required}}
                   \cup {<<m, "test", t>> : t \in TestsForModel(tree, m)}
                   \cup {<<m, "grain", node.grain>>}
                   \cup (IF node.enforced THEN {<<m, "contract">>} ELSE {})
<1>4. /\ Promises(old) = UNION {PromisesOf(old, m) : m \in Published(old)}
      /\ Promises(new) = UNION {PromisesOf(new, m) : m \in Published(new)}
  BY DEF Promises
<1>5. ASSUME NEW m \in Published(old) PROVE PromisesOf(old, m) \subseteq PromisesOf(new, m)
  <2>. DEFINE a == old.models[m].columns
              b == new.models[m].columns
  <2>1. \A c \in DOMAIN a : /\ c \in DOMAIN b /\ a[c].type = b[c].type
                            /\ ~a[c].required => ~b[c].required
    BY <1>3, NoColumnChange
  <2>2. /\ old.models[m].enforced => new.models[m].enforced
        /\ old.models[m].grain = new.models[m].grain
        /\ TestsForModel(old, m) \subseteq TestsForModel(new, m)
    BY <1>3, NoModelChange
  <2>. HIDE DEF a, b
  <2>3. {<<m, "column", c, a[c].type>> : c \in DOMAIN a}
          \subseteq {<<m, "column", c, b[c].type>> : c \in DOMAIN b}
    BY <2>1
  <2>4. {<<m, "accepts null", c>> : c \in {d \in DOMAIN a : ~a[d].required}}
          \subseteq {<<m, "accepts null", c>> : c \in {d \in DOMAIN b : ~b[d].required}}
    BY <2>1
  <2>5. {<<m, "test", t>> : t \in TestsForModel(old, m)}
          \subseteq {<<m, "test", t>> : t \in TestsForModel(new, m)}
    BY <2>2
  <2>. QED
    BY <2>2, <2>3, <2>4, <2>5 DEF a, b
<1>. HIDE DEF PromisesOf
<1>6. PICK m \in Published(old) : p \in PromisesOf(old, m)
  BY <1>4
<1>. QED
  BY <1>2, <1>4, <1>5, <1>6

\* So does a verdict that had a base to compare with.
LEMMA VerdictKeepsPromises ==
  ASSUME NEW b \in Revisions, NEW c \in Revisions, Verdict[b][c]
  PROVE  Promises(Tree[b]) \subseteq Promises(Tree[c])
<1>1. b # Absent /\ Tree[b] # Absent
  BY TreeAssumption
<1>2. Verdict[b][c] = (/\ ConventionsHold(Tree[c])
                       /\ ContractStatus(IF b = Absent THEN Absent ELSE Tree[b], Tree[c]) # "blocked")
  BY DEF Verdict
<1>3. ContractStatus(Tree[b], Tree[c]) # "blocked"
  BY <1>1, <1>2
<1>. QED
  BY <1>1, <1>3, ComparisonKeepsPromises

\* What the gate passed is compatible, within its cost policy, and weakens
\* nothing that the previous revision had.
LEMMA GatePassed ==
  ASSUME NEW before, NEW tree, NEW t, NEW l, Gate(before, tree, t, l) = "passed"
  PROVE  /\ Compatible(tree, t) /\ CostDecision(tree.cost, tree.fixture, l) \in {"pass", "warn"}
         /\ ~PolicyDiffBlocks(before, tree)
BY DEF Gate

LEMMA GateOutcome ==
  ASSUME NEW before, NEW tree, NEW t, NEW l, NEW g \in Outcomes(before, tree, t, l)
  PROVE  /\ g \in {"passed", "blocked", "invalid"}
         /\ g = "passed" => Gate(before, tree, t, l) = "passed"
BY DEF Outcomes, Gate

\* Exemptions and waivers are looked at with their deadlines.
LEMMA PassedWhileInForce ==
  ASSUME NEW before, NEW tree, NEW t, NEW l, Gate(before, tree, t, l) = "passed"
  PROVE  /\ \A m \in Published(tree) :
              BigQuery(tree, m).partition = Absent => BigQuery(tree, m).exemption.until > t
         /\ tree.fixture.estimate >= CostOf(tree.cost, tree.fixture.model).blocking =>
              tree.fixture.waiver.until > l
<1>1. ASSUME NEW m \in Published(tree), BigQuery(tree, m).partition = Absent
      PROVE  BigQuery(tree, m).exemption.until > t
  <2>1. ModelHolds(tree.models[m], t)
    BY GatePassed DEF Compatible
  <2>2. PartitionHolds(BigQuery(tree, m), DOMAIN tree.models[m].columns, t)
    BY <2>1 DEF ModelHolds, BigQuery
  <2>. QED
    BY <1>1, <2>2 DEF PartitionHolds, InForce
<1>2. ASSUME tree.fixture.estimate >= CostOf(tree.cost, tree.fixture.model).blocking
      PROVE  tree.fixture.waiver.until > l
  <2>1. ~CostErrors(CostOf(tree.cost, tree.fixture.model), tree.fixture, l)
    BY GatePassed DEF CostDecision
  <2>2. WaiverCovers(tree.fixture, l)
    BY <1>2, <2>1 DEF CostErrors
  <2>. QED
    BY <2>2 DEF WaiverCovers, WaiverValid, InForce
<1>. QED
  BY <1>1, <1>2

\* A compatible revision has a policy for each required mart.
LEMMA CompatibleHasPolicy ==
  ASSUME NEW v \in Revisions, NEW t, Compatible(Tree[v], t), NEW m \in RequiredModels
  PROVE  m \in WithPolicy(Tree[v]) /\ BigQuery(Tree[v], m) # Absent
<1>1. PICK n \in Published(Tree[v]) : m = Tree[v].models[n].name
  BY DEF Compatible
<1>2. n = m
  BY <1>1, MartAssumption
<1>3. ModelHolds(Tree[v].models[m], t)
  BY <1>2 DEF Compatible
<1>. QED
  BY <1>2, <1>3 DEF ModelHolds, WithPolicy, BigQuery

NotWeaker(old, new) ==
  /\ old.partition = new.partition /\ old.merge_key = new.merge_key
  /\ old.filter => new.filter

LEMMA DifferenceNotWeaker ==
  ASSUME NEW u \in Revisions, NEW v \in Revisions, NEW s, NEW t,
         Compatible(Tree[u], s), Compatible(Tree[v], t), ~PolicyDiffBlocks(Tree[u], Tree[v]),
         NEW m \in RequiredModels
  PROVE  NotWeaker(BigQuery(Tree[u], m), BigQuery(Tree[v], m))
<1>. DEFINE old == BigQuery(Tree[u], m)
            new == BigQuery(Tree[v], m)
            Parts == [field : STRING, type : STRING, granularity : STRING]
<1>1. m \in WithPolicy(Tree[u]) /\ m \in WithPolicy(Tree[v])
  BY CompatibleHasPolicy
<1>2. ~PolicyBroken(old, new)
  BY <1>1, TreeAssumption DEF PolicyDiffBlocks
<1>3. old.partition \in {Absent} \cup Parts /\ new.partition \in {Absent} \cup Parts
  BY <1>1, MartAssumption DEF WithPolicy
<1>. HIDE DEF old, new
<1>4. /\ PartitionPart(old, "field") = PartitionPart(new, "field")
      /\ PartitionPart(old, "type") = PartitionPart(new, "type")
      /\ PartitionPart(old, "granularity") = PartitionPart(new, "granularity")
      /\ old.merge_key = new.merge_key /\ (old.filter => new.filter)
  BY <1>2 DEF PolicyBroken
<1>5. old.partition = new.partition
  <2>1. \A p \in Parts : p.field \in STRING
    OBVIOUS
  <2>2. CASE old.partition = Absent \/ new.partition = Absent
    BY <1>3, <1>4, <2>1, <2>2, TreeAssumption DEF PartitionPart
  <2>3. CASE old.partition # Absent /\ new.partition # Absent
    <3>1. /\ old.partition.field = new.partition.field
          /\ old.partition.type = new.partition.type
          /\ old.partition.granularity = new.partition.granularity
      BY <1>4, <2>3 DEF PartitionPart
    <3>. QED
      BY <1>3, <2>3, <3>1
  <2>. QED
    BY <2>2, <2>3
<1>. QED
  BY <1>4, <1>5 DEF NotWeaker, old, new

-----------------------------------------------------------------------------
(* A step of a run that is running. *)

Same(r) ==
  /\ runs'[r].place = runs[r].place /\ runs'[r].id = runs[r].id
  /\ runs'[r].base = runs[r].base /\ runs'[r].current = runs[r].current

\* The other runs stay as they are.
Touch(r) ==
  /\ runs' \in Seq(Run) /\ DOMAIN runs' = DOMAIN runs
  /\ \A k \in DOMAIN runs \ {r} : runs'[k] = runs[k]
  /\ Same(r)

Advance(r) ==
  /\ Running(r) /\ Touch(r) /\ Judged(r)'
  /\ runs'[r].gate = runs[r].gate /\ runs'[r].at # "gate"

\* What is left of the run's schemas is accounted for by the run.
Accounts(r) == Running(r)' \/ runs'[r].outcome = "escaped" \/ runs'[r].unclean
SchemasOf(r) ==
  /\ schemas' \subseteq schemas \/ (ByHand(r) /\ \A s \in schemas' \ schemas : s.by = r /\ s.id = runs[r].id)
  /\ ByHand(r) => \A s \in schemas' : s.id = runs[r].id => Accounts(r)
  /\ directories' \subseteq directories \cup {<<runs[r].place, runs[r].id>>}

LEMMA UpdateRun ==
  ASSUME RunInv, NEW r \in DOMAIN runs, NEW u \in Run, runs' = [runs EXCEPT ![r] = u],
         u.place = runs[r].place, u.id = runs[r].id, u.base = runs[r].base, u.current = runs[r].current
  PROVE  Touch(r) /\ runs'[r] = u
<1>1. runs \in Seq(Run) /\ DOMAIN runs = 1 .. Len(runs)
  <2>. HIDE DEF Run
  <2>. QED
    BY DEF RunInv
<1>. HIDE DEF Run
<1>2. runs' \in Seq(Run) /\ Len(runs') = Len(runs)
  BY <1>1, ExceptSeq
<1>3. runs'[r] = u /\ DOMAIN runs' = DOMAIN runs /\ \A k \in DOMAIN runs \ {r} : runs'[k] = runs[k]
  BY <1>1
<1>. QED
  BY <1>2, <1>3 DEF Touch, Same

LEMMA RunFields ==
  ASSUME RunInv, NEW r \in DOMAIN runs
  PROVE  runs[r] \in Run
<1>. HIDE DEF Run
<1>. QED
  BY DEF RunInv

LEMMA GotoRun ==
  ASSUME RunInv, NEW r, Running(r), NEW phase \in Phases \ {"gate"}, Goto(r, phase),
         phase \in {"build", "cleanup"} =>
           runs[r].at \in {"build", "cleanup"}
             \/ Verdict[IF runs[r].mode = "full_ci_fallback" THEN Absent ELSE runs[r].base][runs[r].current]
  PROVE  Advance(r) /\ Running(r)'
<1>. DEFINE u == [runs[r] EXCEPT !.at = phase]
<1>1. r \in DOMAIN runs /\ runs[r] \in Run
  BY RunFields DEF Running
<1>2. u \in Run /\ runs' = [runs EXCEPT ![r] = u]
  BY <1>1 DEF Goto, Run
<1>3. /\ u.place = runs[r].place /\ u.id = runs[r].id /\ u.base = runs[r].base
      /\ u.current = runs[r].current /\ u.gate = runs[r].gate /\ u.at = phase
      /\ u.mode = runs[r].mode /\ u.outcome = runs[r].outcome
  BY <1>1 DEF Run
<1>. HIDE DEF u
<1>4. Touch(r) /\ runs'[r] = u
  BY <1>1, <1>2, <1>3, UpdateRun
<1>5. Judged(r)'
  BY <1>1, <1>3, <1>4 DEF Judged, Running, RunInv
<1>. QED
  BY <1>1, <1>3, <1>4, <1>5 DEF Advance, Running, Touch

LEMMA EndRun ==
  ASSUME RunInv, NEW r, Running(r), NEW o \in {"passed", "failed", "escaped", "timed_out"},
         runs' = [runs EXCEPT ![r] = End(r, o)], o = "passed" => runs[r].at = "cleanup"
  PROVE  Advance(r) /\ runs'[r].outcome = o
<1>. DEFINE u == End(r, o)
<1>1. r \in DOMAIN runs /\ runs[r] \in Run
  BY RunFields DEF Running
<1>2. /\ u \in Run /\ u.place = runs[r].place /\ u.id = runs[r].id /\ u.base = runs[r].base
      /\ u.current = runs[r].current /\ u.gate = runs[r].gate /\ u.at = "end"
      /\ u.mode = runs[r].mode /\ u.outcome = o
  BY <1>1 DEF Run, End, Phases
<1>. HIDE DEF u
<1>3. Touch(r) /\ runs'[r] = u
  BY <1>1, <1>2, UpdateRun DEF u
<1>4. Judged(r)'
  BY <1>1, <1>2, <1>3 DEF Judged, Running, RunInv
<1>. QED
  BY <1>1, <1>2, <1>3, <1>4 DEF Advance

\* The pattern of a run id finds the schemas of that run id.
LEMMA OwnFound ==
  ASSUME RunInv, NEW r, Running(r), ByHand(r), NEW s \in schemas, s.id = runs[r].id
  PROVE  s \in Found(r)
<1>. DEFINE id == runs[r].id
            tail == <<"_", "layer">>
            Chars == STRING \cup {"_", "layer"}
<1>1. id \in Seq(Chars)
  <2>1. id \in Seq(STRING)
    BY WorkflowAssumption DEF RunInv, Running
  <2>2. Len(id) \in Nat /\ id \in [1 .. Len(id) -> STRING]
    BY <2>1, LenProperties
  <2>3. [1 .. Len(id) -> STRING] \subseteq [1 .. Len(id) -> Chars]
    OBVIOUS
  <2>. HIDE DEF Chars, id
  <2>. QED
    BY <2>2, <2>3, SeqDef
<1>2. tail \in Seq(Chars) /\ Len(tail) = 2 /\ tail[1] = "_"
  <2>1. \A x, y \in Chars : <<x, y>> \in Seq(Chars) /\ Len(<<x, y>>) = 2 /\ <<x, y>>[1] = x
    <3>. HIDE DEF Chars
    <3>. QED
      OBVIOUS
  <2>2. "_" \in Chars /\ "layer" \in Chars
    OBVIOUS
  <2>. HIDE DEF Chars
  <2>. QED
    BY <2>1, <2>2
<1>. HIDE DEF tail, id, Chars
<1>3. id \o tail \in Seq(Chars) /\ Len(id \o tail) = Len(id) + 2
  <2>1. Len(id \o tail) = Len(id) + Len(tail) /\ id \o tail \in Seq(Chars)
    BY <1>1, <1>2, ConcatProperties
  <2>. QED
    BY <1>2, <2>1
<1>4. Len(id) \in Nat /\ DOMAIN id = 1 .. Len(id)
  BY <1>1, LenProperties
<1>5. \A i \in 1 .. Len(id) + Len(tail) :
        (id \o tail)[i] = IF i <= Len(id) THEN id[i] ELSE tail[i - Len(id)]
  BY <1>1, <1>2, ConcatProperties
<1>6. \A i \in DOMAIN id : id[i] = (id \o tail)[i]
  <2>. SUFFICES ASSUME NEW i \in DOMAIN id PROVE id[i] = (id \o tail)[i]
    OBVIOUS
  <2>1. \A n \in Nat : \A k \in 1 .. n : k \in 1 .. n + 2 /\ k <= n
    OBVIOUS
  <2>2. i \in 1 .. Len(id) + Len(tail) /\ i <= Len(id)
    BY <1>2, <1>4, <2>1, Zenon
  <2>. QED
    BY <1>5, <2>2
<1>7. (id \o tail)[Len(id) + 1] = "_"
  <2>0. \A n \in Nat : n + 1 \in 1 .. n + 2 /\ ~(n + 1 <= n) /\ (n + 1) - n = 1
    OBVIOUS
  <2>1. /\ Len(id) + 1 \in 1 .. Len(id) + Len(tail) /\ ~(Len(id) + 1 <= Len(id))
        /\ (Len(id) + 1) - Len(id) = 1
    BY <1>2, <1>4, <2>0, Zenon
  <2>2. (id \o tail)[Len(id) + 1] = tail[(Len(id) + 1) - Len(id)]
    BY <1>5, <2>1
  <2>. QED
    BY <1>2, <2>1, <2>2
<1>8. Len(id \o tail) > Len(id)
  BY <1>3, <1>4
<1>9. SchemaName(s) = id \o tail
  BY DEF SchemaName, id, tail
<1>10. Like(id, SchemaName(s))
  BY <1>6, <1>7, <1>8, <1>9 DEF Like
<1>. QED
  BY <1>10 DEF Found, ByHand, id

LEMMA CreateSchemas ==
  ASSUME RunInv, NEW r, Running(r), NEW side
  PROVE  \/ Create(r, side) = schemas
         \/ ByHand(r) /\ \A s \in Create(r, side) \ schemas : s.by = r /\ s.id = runs[r].id
BY DEF Create, ByHand, Running

LEMMA MakeStateAdvances ==
  ASSUME RunInv, NEW r, MakeState(r) PROVE Advance(r) /\ SchemasOf(r)
<1>1. /\ Running(r) /\ schemas' = schemas
      /\ Goto(r, "base") \/ Goto(r, "recover")
      /\ directories' \subseteq directories \cup {<<runs[r].place, runs[r].id>>}
  BY DEF MakeState, At
<1>2. Advance(r) /\ Running(r)'
  BY <1>1, GotoRun DEF Phases
<1>. QED
  BY <1>1, <1>2 DEF SchemasOf, Accounts

LEMMA BuildBaseAdvances ==
  ASSUME RunInv, NEW r, BuildBase(r) PROVE Advance(r) /\ SchemasOf(r)
<1>1. Running(r) /\ directories' = directories
  BY DEF BuildBase, At
<1>. PICK next \in {"checks", "recover"} :
           \/ /\ "unresolved" \in Bases(r) /\ Goto(r, next) /\ UNCHANGED schemas
           \/ /\ "resolved" \in Bases(r)
              /\ runs' = [runs EXCEPT ![r].at = next, ![r].mode = "state_modified_plus"]
              /\ schemas' = Create(r, "base") \/ UNCHANGED schemas
  BY DEF BuildBase, Onward
<1>2. CASE Goto(r, next) /\ UNCHANGED schemas
  <2>1. Advance(r) /\ Running(r)'
    BY <1>1, <1>2, GotoRun DEF Phases
  <2>. QED
    BY <1>1, <1>2, <2>1 DEF SchemasOf, Accounts
<1>3. CASE /\ "resolved" \in Bases(r)
           /\ runs' = [runs EXCEPT ![r].at = next, ![r].mode = "state_modified_plus"]
           /\ schemas' = Create(r, "base") \/ UNCHANGED schemas
  <2>. DEFINE u == [runs[r] EXCEPT !.at = next, !.mode = "state_modified_plus"]
  <2>1. r \in DOMAIN runs /\ runs[r] \in Run
    BY <1>1, RunFields DEF Running
  <2>2. u \in Run /\ runs' = [runs EXCEPT ![r] = u]
    BY <1>3, <2>1 DEF Run, Phases
  <2>3. /\ u.place = runs[r].place /\ u.id = runs[r].id /\ u.base = runs[r].base
        /\ u.current = runs[r].current /\ u.gate = runs[r].gate /\ u.at = next
        /\ u.outcome = "running"
    BY <1>1, <2>1 DEF Run, Running
  <2>4. u.base \in Revisions
    BY <1>3, <2>1, <2>3 DEF Bases, Run
  <2>. HIDE DEF u
  <2>5. Touch(r) /\ runs'[r] = u
    BY <2>1, <2>2, <2>3, UpdateRun
  <2>6. Judged(r)' /\ Running(r)'
    BY <2>1, <2>3, <2>4, <2>5 DEF Judged, Running, Touch
  <2>7. Advance(r)
    BY <1>1, <2>3, <2>5, <2>6 DEF Advance
  <2>. QED
    BY <1>1, <1>3, <2>6, <2>7, CreateSchemas DEF SchemasOf, Accounts
<1>. QED
  BY <1>2, <1>3

LEMMA ChecksAdvances ==
  ASSUME RunInv, NEW r, Checks(r) PROVE Advance(r) /\ SchemasOf(r)
<1>. DEFINE base == IF runs[r].mode = "full_ci_fallback" THEN Absent ELSE runs[r].base
<1>1. /\ Running(r) /\ UNCHANGED <<schemas, directories>>
      /\ Goto(r, IF Verdict[base][runs[r].current] THEN "build" ELSE "recover")
  BY DEF Checks, At
<1>2. Advance(r) /\ Running(r)'
  BY <1>1, GotoRun DEF Phases
<1>. QED
  BY <1>1, <1>2 DEF SchemasOf, Accounts

LEMMA BuildCurrentAdvances ==
  ASSUME RunInv, NEW r, BuildCurrent(r) PROVE Advance(r) /\ SchemasOf(r)
<1>1. /\ Running(r) /\ runs[r].at = "build" /\ directories' = directories
      /\ schemas' \in {schemas, Create(r, "current")}
  BY DEF BuildCurrent, At, AfterSelected
<1>2. Advance(r) /\ Running(r)'
  <2>1. PICK next \in {"cleanup", "recover"} : Goto(r, next)
    BY DEF BuildCurrent, Onward
  <2>. QED
    BY <1>1, <2>1, GotoRun DEF Phases
<1>. QED
  BY <1>1, <1>2, CreateSchemas DEF SchemasOf, Accounts

LEMMA CleanupAdvances ==
  ASSUME RunInv, NEW r, Cleanup(r) PROVE Advance(r) /\ SchemasOf(r)
<1>1. Running(r) /\ runs[r].at = "cleanup" /\ directories' = directories
  BY DEF Cleanup, At
<1>2. CASE runs' = [runs EXCEPT ![r] = End(r, "passed")] /\ schemas' = schemas \ Found(r)
  <2>1. Advance(r)
    BY <1>1, <1>2, EndRun
  <2>2. ByHand(r) => \A s \in schemas' : s.id # runs[r].id
    BY <1>1, <1>2, OwnFound
  <2>. QED
    BY <1>1, <1>2, <2>1, <2>2 DEF SchemasOf
<1>3. CASE Goto(r, "recover") /\ UNCHANGED schemas
  <2>1. Advance(r) /\ Running(r)'
    BY <1>1, <1>3, GotoRun DEF Phases
  <2>. QED
    BY <1>1, <1>3, <2>1 DEF SchemasOf, Accounts
<1>4. CASE runs' = [runs EXCEPT ![r] = End(r, "escaped")] /\ UNCHANGED schemas
  <2>1. Advance(r) /\ runs'[r].outcome = "escaped"
    BY <1>1, <1>4, EndRun
  <2>. QED
    BY <1>1, <1>4, <2>1 DEF SchemasOf, Accounts
<1>. QED
  BY <1>2, <1>3, <1>4 DEF Cleanup

LEMMA RecoverAdvances ==
  ASSUME RunInv, NEW r, Recover(r) PROVE Advance(r) /\ SchemasOf(r)
<1>1. Running(r) /\ runs[r].at = "recover" /\ directories' = directories
  BY DEF Recover, At
<1>2. CASE runs' = [runs EXCEPT ![r] = End(r, "failed")] /\ schemas' = schemas \ Found(r)
  <2>1. Advance(r)
    BY <1>1, <1>2, EndRun
  <2>2. ByHand(r) => \A s \in schemas' : s.id # runs[r].id
    BY <1>1, <1>2, OwnFound
  <2>. QED
    BY <1>1, <1>2, <2>1, <2>2 DEF SchemasOf
<1>3. CASE /\ runs' = [runs EXCEPT ![r] = [End(r, "failed") EXCEPT !.unclean = TRUE]]
           /\ UNCHANGED schemas
  <2>. DEFINE u == [End(r, "failed") EXCEPT !.unclean = TRUE]
  <2>1. r \in DOMAIN runs /\ runs[r] \in Run
    BY <1>1, RunFields DEF Running
  <2>2. /\ u \in Run /\ u.place = runs[r].place /\ u.id = runs[r].id /\ u.base = runs[r].base
        /\ u.current = runs[r].current /\ u.gate = runs[r].gate /\ u.at = "end"
        /\ u.mode = runs[r].mode /\ u.outcome = "failed" /\ u.unclean
    BY <2>1 DEF Run, End, Phases
  <2>. HIDE DEF u
  <2>3. Touch(r) /\ runs'[r] = u
    BY <1>3, <2>1, <2>2, UpdateRun DEF u
  <2>4. Judged(r)'
    BY <2>1, <2>2, <2>3 DEF Judged, Running, RunInv
  <2>5. Advance(r) /\ Accounts(r)
    BY <1>1, <2>2, <2>3, <2>4 DEF Advance, Accounts
  <2>. QED
    BY <1>1, <1>3, <2>5 DEF SchemasOf
<1>. QED
  BY <1>2, <1>3 DEF Recover

LEMMA SlimStepAdvances ==
  ASSUME RunInv, NEW r, SlimStep(r) PROVE Advance(r) /\ SchemasOf(r)
BY MakeStateAdvances, BuildBaseAdvances, ChecksAdvances, BuildCurrentAdvances, CleanupAdvances,
   RecoverAdvances DEF SlimStep

LEMMA EndsAlone ==
  ASSUME RunInv, NEW r, Running(r), NEW o \in {"escaped", "timed_out"},
         ByHand(r) => o = "escaped",
         runs' = [runs EXCEPT ![r] = End(r, o)], UNCHANGED <<schemas, directories>>
  PROVE  Advance(r) /\ SchemasOf(r)
<1>1. Advance(r) /\ runs'[r].outcome = o
  BY EndRun
<1>. QED
  BY <1>1 DEF SchemasOf, Accounts

LEMMA EscapeAdvances ==
  ASSUME RunInv, NEW r, Escape(r) PROVE Advance(r) /\ SchemasOf(r)
BY EndsAlone DEF Escape

LEMMA HangAdvances ==
  ASSUME RunInv, NEW r, Hang(r) PROVE Advance(r) /\ SchemasOf(r)
<1>1. Running(r) /\ Goto(r, "hung") /\ UNCHANGED <<schemas, directories>>
  BY DEF Hang
<1>2. Advance(r) /\ Running(r)'
  BY <1>1, GotoRun DEF Phases
<1>. QED
  BY <1>1, <1>2 DEF SchemasOf, Accounts

LEMMA JobTimeoutAdvances ==
  ASSUME RunInv, NEW r, JobTimeout(r) PROVE Advance(r) /\ SchemasOf(r)
<1>1. Running(r) /\ ~ByHand(r)
  BY TreeAssumption DEF JobTimeout, At, InWorkflow, ByHand, RunInv
<1>. QED
  BY <1>1, EndsAlone DEF JobTimeout

\* Where a run is and what it compares never change.
LEMMA PlacesStay ==
  ASSUME NEW r, Touch(r), r \in DOMAIN runs
  PROVE  \A k \in DOMAIN runs : /\ runs'[k].place = runs[k].place /\ runs'[k].id = runs[k].id
                                /\ runs'[k].base = runs[k].base /\ runs'[k].current = runs[k].current
BY DEF Touch, Same

LEMMA HandsStay ==
  ASSUME NEW r, Touch(r), r \in DOMAIN runs
  PROVE  \A k : (ByHand(k)' <=> ByHand(k)) /\ (InWorkflow(k)' <=> InWorkflow(k))
<1>1. DOMAIN runs' = DOMAIN runs
  BY DEF Touch
<1>. QED
  BY <1>1, PlacesStay DEF ByHand, InWorkflow

LEMMA SchemasAdvance ==
  ASSUME SchemaInv, NEW r, Advance(r), SchemasOf(r)
  PROVE  SchemaInv'
<1>1. r \in DOMAIN runs /\ Touch(r) /\ DOMAIN runs' = DOMAIN runs
  BY DEF Advance, Running, Touch
<1>2. ASSUME NEW s \in schemas' PROVE ByHand(s.by)' /\ s.id = runs'[s.by].id
  <2>1. ByHand(s.by) /\ s.id = runs[s.by].id
    BY DEF SchemaInv, SchemasOf
  <2>. QED
    BY <1>1, <2>1, HandsStay, PlacesStay DEF ByHand
<1>3. directories' \subseteq {<<runs'[k].place, runs'[k].id>> : k \in DOMAIN runs'}
  <2>1. directories \subseteq {<<runs[k].place, runs[k].id>> : k \in DOMAIN runs}
    BY DEF SchemaInv
  <2>. SUFFICES ASSUME NEW d \in directories'
                PROVE  \E k \in DOMAIN runs' : d = <<runs'[k].place, runs'[k].id>>
    OBVIOUS
  <2>2. PICK k \in DOMAIN runs : d = <<runs[k].place, runs[k].id>>
    BY <1>1, <2>1 DEF SchemasOf
  <2>. QED
    BY <1>1, <2>2, PlacesStay
<1>4. ASSUME NEW s \in schemas'
      PROVE  \E k \in DOMAIN runs : /\ ByHand(k)' /\ runs'[k].id = s.id
                                    /\ Running(k)' \/ runs'[k].outcome = "escaped" \/ runs'[k].unclean
  <2>1. CASE ByHand(r) /\ runs[r].id = s.id
    BY <1>1, <2>1, HandsStay, PlacesStay DEF SchemasOf, Accounts
  <2>2. CASE ~(ByHand(r) /\ runs[r].id = s.id)
    <3>1. s \in schemas
      BY <2>2 DEF SchemasOf
    <3>2. PICK k \in DOMAIN runs : /\ ByHand(k) /\ runs[k].id = s.id
                                   /\ Running(k) \/ runs[k].outcome = "escaped" \/ runs[k].unclean
      BY <3>1 DEF SchemaInv, SchemasAccountedFor
    <3>3. k # r /\ runs'[k] = runs[k]
      BY <1>1, <2>2, <3>2 DEF Touch
    <3>. QED
      BY <1>1, <3>2, <3>3, HandsStay DEF Running
  <2>. QED
    BY <2>1, <2>2
<1>. QED
  BY <1>1, <1>2, <1>3, <1>4 DEF SchemaInv, SchemasAccountedFor

LEMMA RunsAdvance ==
  ASSUME RunInv, NEW r, Advance(r)
  PROVE  RunInv'
<1>1. r \in DOMAIN runs /\ Touch(r) /\ DOMAIN runs' = DOMAIN runs /\ Running(r)
  BY DEF Advance, Running, Touch
<1>2. runs' \in Seq(Run)
  BY <1>1 DEF Touch
<1>3. ASSUME NEW k \in DOMAIN runs
      PROVE  /\ runs'[k].place \in {Local, k} /\ Judged(k)' /\ GateRun(k)'
             /\ ByHand(k)' /\ Running(k)' => runs'[k].id \in LocalIds
  <2>1. /\ runs[k].place \in {Local, k} /\ Judged(k) /\ GateRun(k)
        /\ ByHand(k) /\ Running(k) => runs[k].id \in LocalIds
    BY DEF RunInv
  <2>2. CASE k = r
    <3>1. Judged(k)' /\ GateRun(k)'
      BY <2>2 DEF Advance, GateRun, IsGate
    <3>. QED
      BY <1>1, <2>1, <2>2, <3>1, HandsStay, PlacesStay
  <2>3. CASE k # r
    <3>1. runs'[k] = runs[k]
      BY <1>1, <2>3 DEF Touch
    <3>. QED
      BY <1>1, <2>1, <3>1 DEF Judged, GateRun, IsGate, ByHand, Running
  <2>. QED
    BY <2>2, <2>3
<1>. QED
  BY <1>1, <1>2, <1>3 DEF RunInv

LEMMA Entries ==
  ASSUME NEW h \in Seq([revision : Revisions, run : Nat])
  PROVE  \A i \in 1 .. Len(h) : h[i].revision \in Revisions /\ h[i].run \in Nat
<1>. DEFINE S == [revision : Revisions, run : Nat]
<1>1. \A p \in S : p.revision \in Revisions /\ p.run \in Nat
  OBVIOUS
<1>2. h \in Seq(S)
  OBVIOUS
<1>. HIDE DEF S
<1>3. \A i \in 1 .. Len(h) : h[i] \in S
  BY <1>2, ElementOfSeq
<1>. QED
  BY <1>1, <1>3

\* Without a push, a step ends runs of the workflow or starts others.
LEMMA HistoryStays ==
  ASSUME HistoryInv, UNCHANGED history, now' \in 0 .. 1, DOMAIN runs \subseteq DOMAIN runs',
         \A k \in DOMAIN runs : /\ runs'[k].place = runs[k].place /\ runs'[k].base = runs[k].base
                                /\ runs'[k].current = runs[k].current
                                /\ Running(k)' => Running(k)
  PROVE  HistoryInv'
<1>1. \A k \in DOMAIN runs : InWorkflow(k)' <=> InWorkflow(k)
  BY DEF InWorkflow
<1>2. ASSUME NEW i \in 2 .. Len(history)
      PROVE  LET k == history[i].run
             IN /\ InWorkflow(k)'
                /\ runs'[k].base = history[i - 1].revision /\ runs'[k].current = history[i].revision
                /\ Running(k)' => i = Len(history)
  <2>1. LET k == history[i].run
        IN /\ InWorkflow(k)
           /\ runs[k].base = history[i - 1].revision /\ runs[k].current = history[i].revision
           /\ Running(k) => i = Len(history)
    BY DEF HistoryInv
  <2>2. history[i].run \in DOMAIN runs
    BY <2>1 DEF InWorkflow
  <2>. QED
    BY <1>1, <2>1, <2>2
<1>3. history \in Seq([revision : Revisions, run : Nat]) /\ history # <<>>
  BY DEF HistoryInv
<1>. QED
  BY <1>2, <1>3 DEF HistoryInv

LEMMA HistoryAdvances ==
  ASSUME HistoryInv, NEW r, Advance(r), UNCHANGED <<history, now>>
  PROVE  HistoryInv'
<1>1. r \in DOMAIN runs /\ Touch(r) /\ DOMAIN runs' = DOMAIN runs /\ Running(r)
  BY DEF Advance, Running, Touch
<1>2. \A k : Running(k)' => Running(k)
  BY <1>1 DEF Touch, Running
<1>. QED
  BY <1>1, <1>2, HistoryStays, PlacesStay DEF HistoryInv

\* The step that makes a push green is the last one's, and it was judged.
LEMMA ChainAdvances ==
  ASSUME RunInv, HistoryInv, GreenChainKeepsPromises, NEW r, Advance(r), UNCHANGED <<history, now>>
  PROVE  GreenChainKeepsPromises'
<1>1. r \in DOMAIN runs /\ Touch(r) /\ DOMAIN runs' = DOMAIN runs /\ Running(r)
  BY DEF Advance, Running, Touch
<1>2. /\ history \in Seq([revision : Revisions, run : Nat]) /\ Len(history) \in Nat
      /\ DOMAIN history = 1 .. Len(history)
  BY LenProperties DEF HistoryInv
<1>. SUFFICES ASSUME NEW i \in DOMAIN history, NEW j \in DOMAIN history, i < j,
                     \A k \in (i + 1) .. j : Green(k)'
              PROVE  Promises(Tree[history[i].revision]) \subseteq Promises(Tree[history[j].revision])
  BY DEF GreenChainKeepsPromises
<1>3. i \in Nat /\ j \in Nat /\ 1 <= i /\ j <= Len(history) /\ j \in 2 .. Len(history)
  BY <1>2
<1>4. ASSUME NEW k \in (i + 1) .. j, history[k].run # r PROVE Green(k)
  <2>1. k \in 2 .. Len(history)
    BY <1>3
  <2>2. history[k].run \in DOMAIN runs
    BY <2>1 DEF HistoryInv, InWorkflow
  <2>3. runs'[history[k].run] = runs[history[k].run]
    BY <1>1, <1>4, <2>2 DEF Touch
  <2>. QED
    BY <2>3 DEF Green
<1>5. ASSUME NEW k \in (i + 1) .. j, history[k].run = r PROVE k = j
  <2>1. k \in 2 .. Len(history) /\ Running(history[k].run)
    BY <1>1, <1>3, <1>5
  <2>2. k = Len(history)
    BY <2>1 DEF HistoryInv
  <2>. QED
    BY <1>3, <2>2
<1>6. CASE history[j].run # r
  <2>1. \A k \in (i + 1) .. j : Green(k)
    BY <1>4, <1>5, <1>6
  <2>. QED
    BY <2>1 DEF GreenChainKeepsPromises
<1>7. CASE history[j].run = r
  <2>. DEFINE b == history[j - 1].revision
              c == history[j].revision
  <2>1. j - 1 \in DOMAIN history /\ b \in Revisions /\ c \in Revisions
    <3>1. j - 1 \in 1 .. Len(history) /\ j \in 1 .. Len(history)
      BY <1>2, <1>3
    <3>. QED
      BY <1>2, <3>1, Entries
  <2>2. runs'[r].base = b /\ runs'[r].current = c
    <3>1. runs[r].base = b /\ runs[r].current = c
      BY <1>3, <1>7 DEF HistoryInv
    <3>. QED
      BY <1>1, <3>1, PlacesStay
  <2>3. runs'[r].outcome = "passed" /\ runs'[r].mode = "state_modified_plus"
    BY <1>3, <1>7 DEF Green
  <2>4. Verdict[b][c]
    BY <2>2, <2>3 DEF Advance, Judged
  <2>5. Promises(Tree[b]) \subseteq Promises(Tree[c])
    BY <2>1, <2>4, VerdictKeepsPromises
  <2>6. CASE i = j - 1
    BY <2>5, <2>6
  <2>7. CASE i < j - 1
    <3>1. \A k \in (i + 1) .. (j - 1) : Green(k)
      BY <1>3, <1>4, <1>5
    <3>2. Promises(Tree[history[i].revision]) \subseteq Promises(Tree[b])
      BY <2>1, <2>7, <3>1 DEF GreenChainKeepsPromises
    <3>. QED
      BY <2>5, <3>2
  <2>. QED
    BY <1>3, <2>6, <2>7
<1>. QED
  BY <1>6, <1>7

\* A step that leaves the gates that passed, and their revisions, alone.
SameApprovals ==
  Approvals' = Approvals /\ \A k \in Approvals : runs'[k].current = runs[k].current

LEMMA ApprovalsStay ==
  ASSUME LatestApproval, PolicyNeverWeakens, SameApprovals
  PROVE  LatestApproval' /\ PolicyNeverWeakens'
BY DEF LatestApproval, PolicyNeverWeakens, SameApprovals

LEMMA ApprovalsAdvance ==
  ASSUME RunInv, NEW r, Advance(r)
  PROVE  SameApprovals
<1>1. r \in DOMAIN runs /\ Touch(r) /\ DOMAIN runs' = DOMAIN runs /\ Running(r)
  BY DEF Advance, Running, Touch
<1>2. r \notin Approvals /\ ~IsGate(r)'
  BY <1>1 DEF Approvals, RunInv, GateRun, Running, Advance, IsGate
<1>3. \A k \in DOMAIN runs \ {r} : runs'[k] = runs[k]
  BY <1>1 DEF Touch
<1>. QED
  BY <1>1, <1>2, <1>3 DEF SameApprovals, Approvals, IsGate

LEMMA AdvanceKeeps ==
  ASSUME IndInv, NEW r, Advance(r), SchemasOf(r), UNCHANGED <<history, now>>
  PROVE  IndInv'
<1>1. RunInv /\ HistoryInv /\ SchemaInv /\ LatestApproval /\ GreenChainKeepsPromises /\ PolicyNeverWeakens
  BY DEF IndInv
<1>2. RunInv' /\ HistoryInv' /\ SchemaInv' /\ GreenChainKeepsPromises'
  BY <1>1, RunsAdvance, HistoryAdvances, SchemasAdvance, ChainAdvances
<1>3. LatestApproval' /\ PolicyNeverWeakens'
  BY <1>1, ApprovalsAdvance, ApprovalsStay
<1>. QED
  BY <1>2, <1>3 DEF IndInv

-----------------------------------------------------------------------------
(* The second job of a run that passed. *)

LEMMA Phase8AKeeps ==
  ASSUME IndInv, NEW r, Phase8A(r)
  PROVE  IndInv'
<1>1. RunInv /\ HistoryInv /\ SchemaInv /\ LatestApproval /\ GreenChainKeepsPromises /\ PolicyNeverWeakens
  BY DEF IndInv
<1>2. /\ r \in DOMAIN runs /\ runs[r] \in Run /\ runs[r].outcome = "passed"
      /\ UNCHANGED <<schemas, directories, history>> /\ now' \in 0 .. 1
  BY <1>1, RunFields DEF Phase8A, InWorkflow, HistoryInv
<1>3. PICK g \in Outcomes(Absent, Tree[runs[r].current], now, now') \cup {"timed_out"} :
        runs' = [runs EXCEPT ![r].gate = g]
  BY DEF Phase8A
<1>. DEFINE u == [runs[r] EXCEPT !.gate = g]
<1>4. g \in {"passed", "blocked", "invalid", "timed_out"}
  BY GateOutcome
<1>5. /\ u \in Run /\ runs' = [runs EXCEPT ![r] = u]
      /\ u.place = runs[r].place /\ u.id = runs[r].id /\ u.base = runs[r].base
      /\ u.current = runs[r].current /\ u.at = runs[r].at /\ u.mode = runs[r].mode
      /\ u.outcome = runs[r].outcome /\ u.unclean = runs[r].unclean
  BY <1>2, <1>3, <1>4 DEF Run
<1>. HIDE DEF u
<1>6. Touch(r) /\ runs'[r] = u
  BY <1>1, <1>2, <1>5, UpdateRun
<1>7. ~IsGate(r) /\ ~IsGate(r)'
  <2>1. ~IsGate(r)
    BY <1>1, <1>2 DEF RunInv, GateRun
  <2>. QED
    BY <2>1, <1>2, <1>5, <1>6 DEF IsGate
<1>8. DOMAIN runs' = DOMAIN runs /\ \A k \in DOMAIN runs \ {r} : runs'[k] = runs[k]
  BY <1>6 DEF Touch
<1>9. ASSUME NEW k \in DOMAIN runs
      PROVE  /\ runs'[k].at = runs[k].at /\ runs'[k].mode = runs[k].mode
             /\ runs'[k].outcome = runs[k].outcome /\ runs'[k].unclean = runs[k].unclean
             /\ Running(k)' <=> Running(k)
             /\ Judged(k)' <=> Judged(k)
  <2>1. /\ runs'[k].at = runs[k].at /\ runs'[k].mode = runs[k].mode
        /\ runs'[k].outcome = runs[k].outcome /\ runs'[k].unclean = runs[k].unclean
    BY <1>5, <1>6, <1>8
  <2>2. Running(k)' <=> Running(k)
    BY <1>8, <2>1 DEF Running
  <2>. QED
    BY <1>2, <1>6, <2>1, <2>2, PlacesStay DEF Judged
<1>10. \A k \in DOMAIN runs : GateRun(k)'
  <2>. SUFFICES ASSUME NEW k \in DOMAIN runs PROVE GateRun(k)'
    OBVIOUS
  <2>1. CASE k = r
    BY <1>7, <2>1 DEF GateRun
  <2>2. CASE k # r
    BY <1>1, <1>8, <2>2 DEF RunInv, GateRun, IsGate
  <2>. QED
    BY <2>1, <2>2
<1>11. RunInv'
  <2>1. runs' \in Seq(Run)
    BY <1>6 DEF Touch
  <2>. QED
    BY <1>1, <1>2, <1>6, <1>8, <1>9, <1>10, <2>1, HandsStay, PlacesStay DEF RunInv
<1>12. HistoryInv'
  BY <1>1, <1>2, <1>6, <1>8, <1>9, HistoryStays, PlacesStay
<1>13. SchemaInv'
  <2>1. \A s \in schemas : ByHand(s.by)' /\ s.id = runs'[s.by].id
    BY <1>1, <1>2, <1>6, HandsStay, PlacesStay DEF SchemaInv, ByHand
  <2>2. {<<runs'[k].place, runs'[k].id>> : k \in DOMAIN runs'}
          = {<<runs[k].place, runs[k].id>> : k \in DOMAIN runs}
    BY <1>2, <1>6, <1>8, PlacesStay
  <2>3. SchemasAccountedFor'
    <3>. SUFFICES ASSUME NEW s \in schemas
                  PROVE  \E k \in DOMAIN runs : /\ ByHand(k)' /\ runs'[k].id = s.id
                                                /\ Running(k)' \/ runs'[k].outcome = "escaped"
                                                                \/ runs'[k].unclean
      BY <1>2, <1>8 DEF SchemasAccountedFor
    <3>1. PICK k \in DOMAIN runs : /\ ByHand(k) /\ runs[k].id = s.id
                                   /\ Running(k) \/ runs[k].outcome = "escaped" \/ runs[k].unclean
      BY <1>1 DEF SchemaInv, SchemasAccountedFor
    <3>. QED
      BY <1>2, <1>6, <1>9, <3>1, HandsStay, PlacesStay
  <2>. QED
    BY <1>1, <1>2, <2>1, <2>2, <2>3 DEF SchemaInv
<1>14. GreenChainKeepsPromises'
  <2>1. ASSUME NEW i \in DOMAIN history, NEW j \in DOMAIN history, NEW k \in (i + 1) .. j
        PROVE  Green(k)' => Green(k)
    <3>1. k \in 2 .. Len(history)
      BY <1>1, LenProperties DEF HistoryInv
    <3>2. history[k].run \in DOMAIN runs
      BY <1>1, <3>1 DEF HistoryInv, InWorkflow
    <3>. QED
      BY <1>2, <1>9, <3>2 DEF Green
  <2>. QED
    BY <1>1, <1>2, <2>1 DEF GreenChainKeepsPromises
<1>15. SameApprovals
  BY <1>2, <1>6, <1>7, <1>8, PlacesStay DEF SameApprovals, Approvals, IsGate
<1>. QED
  BY <1>1, <1>11, <1>12, <1>13, <1>14, <1>15, ApprovalsStay DEF IndInv

-----------------------------------------------------------------------------
(* A step that starts a run. *)

\* A push or a dispatch cancels what is in progress: neither a gate nor a run
\* by hand.
Kept(k) ==
  /\ runs'[k].place = runs[k].place /\ runs'[k].id = runs[k].id /\ runs'[k].base = runs[k].base
  /\ runs'[k].current = runs[k].current /\ runs'[k].mode = runs[k].mode
  /\ runs'[k].gate = runs[k].gate
  /\ \/ runs'[k] = runs[k]
     \/ InWorkflow(k) /\ ~IsGate(k) /\ runs'[k].outcome = "cancelled" /\ runs'[k].at = "end"

Grow(n, new) ==
  /\ runs' \in Seq(Run) /\ DOMAIN runs' = DOMAIN runs \cup {n}
  /\ n \in Nat /\ \A k \in DOMAIN runs : k \in Nat /\ k < n
  /\ runs'[n] = new
  /\ \A k \in DOMAIN runs : Kept(k)

LEMMA AppendGrows ==
  ASSUME RunInv, NEW kept \in Seq(Run), Len(kept) = Len(runs), NEW new \in Run,
         runs' = Append(kept, new),
         \A k \in DOMAIN runs :
           kept[k] = runs[k] \/ (InWorkflow(k) /\ ~Ended(k) /\ kept[k] = End(k, "cancelled"))
  PROVE  Grow(Len(runs) + 1, new)
<1>1. runs \in Seq(Run) /\ Len(runs) \in Nat /\ DOMAIN runs = 1 .. Len(runs)
  <2>1. runs \in Seq(Run)
    BY DEF RunInv
  <2>. HIDE DEF Run
  <2>. QED
    BY <2>1, LenProperties
<1>2. /\ runs' \in Seq(Run) /\ Len(runs') = Len(runs) + 1 /\ DOMAIN runs' = 1 .. Len(runs')
      /\ runs'[Len(runs) + 1] = new /\ \A k \in 1 .. Len(runs) : runs'[k] = kept[k]
  <2>. HIDE DEF Run
  <2>. QED
    BY AppendProperties, LenProperties
<1>3. ASSUME NEW k \in DOMAIN runs PROVE Kept(k)
  <2>1. runs'[k] = kept[k] /\ runs[k] \in Run /\ GateRun(k)
    BY <1>1, <1>2, RunFields DEF RunInv
  <2>2. CASE kept[k] = runs[k]
    BY <2>1, <2>2 DEF Kept
  <2>3. CASE InWorkflow(k) /\ ~Ended(k) /\ kept[k] = End(k, "cancelled")
    <3>1. ~IsGate(k)
      BY <2>1, <2>3 DEF GateRun, Ended, Running
    <3>2. LET u == End(k, "cancelled")
          IN /\ u.place = runs[k].place /\ u.id = runs[k].id /\ u.base = runs[k].base
             /\ u.current = runs[k].current /\ u.mode = runs[k].mode
             /\ u.gate = runs[k].gate /\ u.outcome = "cancelled" /\ u.at = "end"
      BY <2>1 DEF End, Run
    <3>. QED
      BY <2>1, <2>3, <3>1, <3>2 DEF Kept
  <2>. QED
    BY <2>2, <2>3
<1>. HIDE DEF Run
<1>4. /\ DOMAIN runs' = DOMAIN runs \cup {Len(runs) + 1} /\ Len(runs) + 1 \in Nat
      /\ \A k \in DOMAIN runs : k \in Nat /\ k < Len(runs) + 1
  <2>1. \A n \in Nat : /\ 1 .. n + 1 = (1 .. n) \cup {n + 1} /\ n + 1 \in Nat
                       /\ \A k \in 1 .. n : k \in Nat /\ k < n + 1
    OBVIOUS
  <2>. QED
    BY <1>1, <1>2, <2>1
<1>. QED
  BY <1>2, <1>3, <1>4 DEF Grow

LEMMA GrowStays ==
  ASSUME RunInv, NEW n, NEW new, Grow(n, new), NEW k \in DOMAIN runs
  PROVE  /\ ByHand(k) => runs'[k] = runs[k]
         /\ IsGate(k)' <=> IsGate(k)
         /\ IsGate(k) => runs'[k] = runs[k]
         /\ Running(k)' => runs'[k] = runs[k]
         /\ runs'[k].outcome = "passed" => runs'[k] = runs[k]
         /\ (ByHand(k)' <=> ByHand(k)) /\ (InWorkflow(k)' <=> InWorkflow(k))
<1>1. Kept(k) /\ k \in DOMAIN runs' /\ k \in Nat
  BY DEF Grow
<1>2. ~(ByHand(k) /\ InWorkflow(k))
  BY <1>1, TreeAssumption DEF ByHand, InWorkflow
<1>. QED
  BY <1>1, <1>2 DEF Kept, ByHand, InWorkflow, IsGate, Running

LEMMA RunsGrow ==
  ASSUME RunInv, NEW n, NEW new, Grow(n, new), new.place \in {Local, n},
         Judged(n)', GateRun(n)', new.place = Local /\ new.outcome = "running" => new.id \in LocalIds
  PROVE  RunInv'
<1>1. ASSUME NEW k \in DOMAIN runs
      PROVE  /\ runs'[k].place \in {Local, k} /\ Judged(k)' /\ GateRun(k)'
             /\ ByHand(k)' /\ Running(k)' => runs'[k].id \in LocalIds
  <2>1. /\ runs[k].place \in {Local, k} /\ Judged(k) /\ GateRun(k)
        /\ ByHand(k) /\ Running(k) => runs[k].id \in LocalIds
    BY DEF RunInv
  <2>2. Kept(k) /\ k \in DOMAIN runs'
    BY DEF Grow
  <2>3. Judged(k)'
    BY <2>1, <2>2 DEF Judged, Kept, Running
  <2>4. GateRun(k)'
    BY <2>1, GrowStays DEF GateRun
  <2>5. ByHand(k)' /\ Running(k)' => runs'[k].id \in LocalIds
    BY <2>1, <2>2, GrowStays DEF Running
  <2>. QED
    BY <2>1, <2>2, <2>3, <2>4, <2>5 DEF Kept
<1>2. /\ runs'[n].place \in {Local, n}
      /\ ByHand(n)' /\ Running(n)' => runs'[n].id \in LocalIds
  BY DEF Grow, ByHand, Running
<1>. QED
  BY <1>1, <1>2 DEF RunInv, Grow

LEMMA SchemasGrow ==
  ASSUME RunInv, SchemaInv, NEW n, NEW new, Grow(n, new), UNCHANGED <<schemas, directories>>
  PROVE  SchemaInv'
<1>1. DOMAIN runs \subseteq DOMAIN runs' /\ \A k \in DOMAIN runs : Kept(k)
  BY DEF Grow
<1>2. ASSUME NEW s \in schemas PROVE ByHand(s.by)' /\ s.id = runs'[s.by].id
  <2>1. ByHand(s.by) /\ s.id = runs[s.by].id /\ s.by \in DOMAIN runs
    BY DEF SchemaInv, ByHand
  <2>. QED
    BY <2>1, GrowStays
<1>3. directories' \subseteq {<<runs'[k].place, runs'[k].id>> : k \in DOMAIN runs'}
  <2>1. directories \subseteq {<<runs[k].place, runs[k].id>> : k \in DOMAIN runs}
    BY DEF SchemaInv
  <2>. QED
    BY <1>1, <2>1 DEF Kept
<1>4. ASSUME NEW s \in schemas
      PROVE  \E k \in DOMAIN runs' : /\ ByHand(k)' /\ runs'[k].id = s.id
                                     /\ Running(k)' \/ runs'[k].outcome = "escaped" \/ runs'[k].unclean
  <2>1. PICK k \in DOMAIN runs : /\ ByHand(k) /\ runs[k].id = s.id
                                 /\ Running(k) \/ runs[k].outcome = "escaped" \/ runs[k].unclean
    BY DEF SchemaInv, SchemasAccountedFor
  <2>. QED
    BY <1>1, <2>1, GrowStays DEF Running
<1>. QED
  BY <1>2, <1>3, <1>4 DEF SchemaInv, SchemasAccountedFor

LEMMA GreenGrows ==
  ASSUME RunInv, HistoryInv, NEW n, NEW new, Grow(n, new), NEW k \in 2 .. Len(history), NEW h,
         h[k] = history[k], LET r == runs'[h[k].run]
                            IN r.outcome = "passed" /\ r.mode = "state_modified_plus"
  PROVE  Green(k)
<1>1. history[k].run \in DOMAIN runs
  BY DEF HistoryInv, InWorkflow
<1>. QED
  BY <1>1, GrowStays DEF Green

\* Nothing is pushed.
LEMMA HistoryGrows ==
  ASSUME RunInv, HistoryInv, GreenChainKeepsPromises, NEW n, NEW new, Grow(n, new),
         UNCHANGED history, now' \in 0 .. 1
  PROVE  HistoryInv' /\ GreenChainKeepsPromises'
<1>1. HistoryInv'
  <2>1. DOMAIN runs \subseteq DOMAIN runs'
    BY DEF Grow
  <2>2. \A k \in DOMAIN runs : Kept(k) /\ (Running(k)' => Running(k))
    BY <2>1, GrowStays DEF Grow, Running
  <2>. QED
    BY <2>1, <2>2, HistoryStays DEF Kept
<1>2. ASSUME NEW i \in DOMAIN history, NEW j \in DOMAIN history, NEW k \in (i + 1) .. j
      PROVE  Green(k)' => Green(k)
  <2>1. k \in 2 .. Len(history)
    BY LenProperties DEF HistoryInv
  <2>. QED
    BY <2>1, GreenGrows DEF Green
<1>3. GreenChainKeepsPromises'
  BY <1>2 DEF GreenChainKeepsPromises
<1>. QED
  BY <1>1, <1>3

LEMMA ApprovalsGrow ==
  ASSUME RunInv, NEW n, NEW new, Grow(n, new)
  PROVE  /\ \A k \in Approvals : runs'[k] = runs[k]
         /\ Approvals' = Approvals \cup
              {k \in {n} : new.at = "gate" /\ new.gate = "passed"}
<1>1. /\ DOMAIN runs' = DOMAIN runs \cup {n} /\ runs'[n] = new
      /\ n \notin DOMAIN runs
  BY DEF Grow
<1>2. \A k \in DOMAIN runs : k \in Approvals' <=> k \in Approvals
  BY <1>1, GrowStays DEF Approvals
<1>3. n \in Approvals' <=> new.at = "gate" /\ new.gate = "passed"
  BY <1>1 DEF Approvals, IsGate
<1>4. Approvals \subseteq DOMAIN runs /\ Approvals' \subseteq DOMAIN runs'
  BY DEF Approvals
<1>5. \A k \in Approvals : runs'[k] = runs[k]
  BY <1>4, GrowStays DEF Approvals
<1>. QED
  BY <1>1, <1>2, <1>3, <1>4, <1>5

-----------------------------------------------------------------------------
(* What is started by hand. *)

LEMMA MainRevision == HistoryInv => Main \in Revisions
<1>. SUFFICES ASSUME HistoryInv PROVE Main \in Revisions
  OBVIOUS
<1>1. history \in Seq([revision : Revisions, run : Nat]) /\ Len(history) \in 1 .. Len(history)
  BY EmptySeq, LenProperties DEF HistoryInv
<1>2. history[Len(history)].revision \in Revisions
  BY <1>1, Entries
<1>. QED
  BY <1>2 DEF Main, Last

LEMMA StartedRun ==
  ASSUME NEW n \in Nat, NEW place \in {Local, n}, NEW id \in Ids, NEW base \in Revisions \cup {Absent},
         NEW current \in Revisions
  PROVE  Started(place, id, base, current) \in Run
BY DEF Started, Run, Phases

LEMMA StartLocalGrows ==
  ASSUME IndInv, NEW id \in LocalIds, NEW revision \in Revisions, StartLocal(id, revision)
  PROVE  Grow(Len(runs) + 1, Started(Local, id, Main, revision))
<1>1. RunInv /\ HistoryInv
  BY DEF IndInv
<1>. DEFINE new == Started(Local, id, Main, revision)
<1>2. runs \in Seq(Run) /\ runs' = Append(runs, new)
  BY <1>1 DEF StartLocal, RunInv
<1>3. new \in Run
  BY <1>1, MainRevision, StartedRun DEF Ids
<1>. HIDE DEF new
<1>4. Grow(Len(runs) + 1, new)
  BY <1>1, <1>2, <1>3, AppendGrows
<1>. QED
  BY <1>4 DEF new

LEMMA StartLocalKeeps ==
  ASSUME IndInv, NEW id \in LocalIds, NEW revision \in Revisions, StartLocal(id, revision)
  PROVE  IndInv'
<1>1. RunInv /\ HistoryInv /\ SchemaInv /\ LatestApproval /\ GreenChainKeepsPromises /\ PolicyNeverWeakens
  BY DEF IndInv
<1>. DEFINE new == Started(Local, id, Main, revision)
            n == Len(runs) + 1
<1>2. UNCHANGED <<schemas, directories, history, now>>
  BY DEF StartLocal
<1>3. /\ new.place = Local /\ new.id = id /\ new.at = "mkdir" /\ new.outcome = "running"
      /\ new.mode = "full_ci_fallback"
  BY DEF Started
<1>4. Grow(n, new)
  BY StartLocalGrows
<1>. HIDE DEF n, new
<1>5. ASSUME NEW k, Grow(k, new)
      PROVE  RunInv' /\ HistoryInv' /\ GreenChainKeepsPromises' /\ SameApprovals
  <2>1. runs'[k] = new /\ Judged(k)' /\ GateRun(k)'
    BY <1>3, <1>5 DEF Judged, GateRun, IsGate, Grow
  <2>2. RunInv'
    BY <1>1, <1>3, <1>5, <2>1, RunsGrow
  <2>3. SameApprovals
    BY <1>1, <1>3, <1>5, ApprovalsGrow DEF SameApprovals
  <2>. QED
    BY <1>1, <1>2, <1>5, <2>2, <2>3, HistoryGrows DEF HistoryInv
<1>6. SchemaInv'
  BY <1>1, <1>2, <1>4, SchemasGrow
<1>. QED
  BY <1>1, <1>4, <1>5, <1>6, ApprovalsStay DEF IndInv

LEMMA LatestIsMax ==
  ASSUME LatestApproval, RunInv, Approvals # {}
  PROVE  Max(Approvals) \in Approvals /\ \A k \in Approvals : k <= Max(Approvals)
<1>1. \A x \in Approvals : x \in Nat
  <2>1. runs \in Seq(Run)
    BY DEF RunInv
  <2>. HIDE DEF Run
  <2>2. DOMAIN runs = 1 .. Len(runs) /\ Len(runs) \in Nat
    BY <2>1, LenProperties
  <2>. QED
    BY <2>2 DEF Approvals
<1>2. \E x \in Approvals : \A y \in Approvals : x >= y
  BY <1>1 DEF LatestApproval
<1>3. Max(Approvals) \in Approvals /\ \A y \in Approvals : Max(Approvals) >= y
  BY <1>2 DEF Max
<1>. QED
  BY <1>1, <1>3

\* What an approved revision declares for the required marts.
LEMMA ApprovedRevision ==
  ASSUME RunInv, NEW k \in Approvals
  PROVE  /\ runs[k].current \in Revisions
         /\ \E t \in 0 .. 1 : Compatible(Tree[runs[k].current], t)
         /\ \A m \in RequiredModels : BigQuery(Tree[runs[k].current], m) # Absent
<1>1. /\ k \in DOMAIN runs /\ runs[k] \in Run /\ GateRun(k) /\ IsGate(k) /\ runs[k].gate = "passed"
  BY RunFields DEF RunInv, Approvals
<1>2. runs[k].current \in Revisions /\ \E t \in 0 .. 1 : Compatible(Tree[runs[k].current], t)
  BY <1>1 DEF GateRun, Run
<1>. QED
  BY <1>2, CompatibleHasPolicy

\* A gate that passes compares with the latest that passed, and by it with all.
LEMMA PolicyGrows ==
  ASSUME RunInv, LatestApproval, PolicyNeverWeakens, NEW n, NEW new, Grow(n, new),
         NEW revision \in Revisions, new.current = revision,
         NEW t, Compatible(Tree[revision], t),
         Approvals # {} => ~PolicyDiffBlocks(Tree[runs[Max(Approvals)].current], Tree[revision]),
         new.at = "gate", new.gate = "passed"
  PROVE  LatestApproval' /\ PolicyNeverWeakens'
<1>1. /\ Approvals' = Approvals \cup {n} /\ runs'[n] = new
      /\ \A k \in Approvals : runs'[k] = runs[k] /\ k \in Nat /\ k < n
      /\ n \in Nat
  <2>1. Approvals \subseteq DOMAIN runs
    BY DEF Approvals
  <2>. QED
    BY <2>1, ApprovalsGrow DEF Grow
<1>2. LatestApproval'
  BY <1>1 DEF LatestApproval
<1>3. ASSUME NEW r \in Approvals', NEW s \in Approvals', r < s, NEW m \in RequiredModels,
             BigQuery(Tree[runs'[r].current], m) # Absent, BigQuery(Tree[runs'[s].current], m) # Absent
      PROVE  NotWeaker(BigQuery(Tree[runs'[r].current], m), BigQuery(Tree[runs'[s].current], m))
  <2>1. r \in Approvals /\ runs'[r] = runs[r]
    BY <1>1, <1>3
  <2>2. CASE s \in Approvals
    BY <1>1, <1>3, <2>1, <2>2 DEF PolicyNeverWeakens, NotWeaker
  <2>3. CASE s = n
    <3>. DEFINE top == Max(Approvals)
                Of(v) == BigQuery(Tree[v], m)
    <3>1. top \in Approvals /\ r <= top
      BY <2>1, LatestIsMax
    <3>. HIDE DEF top
    <3>2. NotWeaker(Of(runs[top].current), Of(revision))
      <4>1. /\ runs[top].current \in Revisions
            /\ ~PolicyDiffBlocks(Tree[runs[top].current], Tree[revision])
        BY <3>1, ApprovedRevision DEF top
      <4>2. PICK u \in 0 .. 1 : Compatible(Tree[runs[top].current], u)
        BY <3>1, ApprovedRevision
      <4>. QED
        BY <4>1, <4>2, DifferenceNotWeaker
    <3>3. NotWeaker(Of(runs[r].current), Of(runs[top].current))
      <4>1. CASE r = top
        BY <4>1 DEF NotWeaker
      <4>2. CASE r < top
        BY <2>1, <3>1, <4>2, ApprovedRevision DEF PolicyNeverWeakens, NotWeaker
      <4>. QED
        BY <1>1, <2>1, <3>1, <4>1, <4>2
    <3>. HIDE DEF Of
    <3>4. NotWeaker(Of(runs[r].current), Of(revision))
      BY <3>2, <3>3 DEF NotWeaker
    <3>. QED
      BY <1>1, <2>1, <2>3, <3>4 DEF Of
  <2>. QED
    BY <1>1, <2>2, <2>3
<1>. QED
  BY <1>2, <1>3 DEF PolicyNeverWeakens, NotWeaker

\* A gate by hand that passes compared with the latest that passed.
Passed(revision) ==
  /\ Compatible(Tree[revision], now)
  /\ Approvals # {} => ~PolicyDiffBlocks(Tree[runs[Max(Approvals)].current], Tree[revision])
  /\ \E before : Gate(before, Tree[revision], now, now') = "passed"

LEMMA LocalGateGrows ==
  ASSUME IndInv, NEW revision \in Revisions, LocalGate(revision)
  PROVE  \E new : /\ Grow(Len(runs) + 1, new)
                  /\ new.place = Local /\ new.at = "gate" /\ new.outcome = "ended"
                  /\ new.mode = "full_ci_fallback" /\ new.current = revision
                  /\ new.gate = "passed" => Passed(revision)
<1>1. /\ RunInv /\ HistoryInv /\ SchemaInv /\ LatestApproval /\ GreenChainKeepsPromises
      /\ PolicyNeverWeakens
  BY DEF IndInv
<1>. DEFINE previous == IF Approvals = {} THEN Absent ELSE runs[Max(Approvals)].current
            before == IF previous = Absent THEN Absent ELSE Tree[previous]
<1>2. PICK gate \in Outcomes(before, Tree[revision], now, now') :
        runs' = Append(runs, [Started(Local, <<"gate">>, previous, revision) EXCEPT
                                !.at = "gate", !.outcome = "ended", !.gate = gate])
  BY DEF LocalGate
<1>3. UNCHANGED <<schemas, directories, history>> /\ runs \in Seq(Run) /\ now \in 0 .. 1
  BY <1>1 DEF LocalGate, RunInv, HistoryInv
<1>. DEFINE new == [Started(Local, <<"gate">>, previous, revision) EXCEPT
                      !.at = "gate", !.outcome = "ended", !.gate = gate]
<1>4. previous \in Revisions \cup {Absent}
  BY <1>1, LatestIsMax, ApprovedRevision
<1>5. /\ gate \in {"passed", "blocked", "invalid"}
      /\ gate = "passed" => Gate(before, Tree[revision], now, now') = "passed"
  <2>. HIDE DEF before
  <2>. QED
    BY GateOutcome
<1>6. gate = "passed" => Passed(revision)
  <2>. SUFFICES ASSUME gate = "passed" PROVE Passed(revision)
    OBVIOUS
  <2>1. /\ Gate(before, Tree[revision], now, now') = "passed"
        /\ Compatible(Tree[revision], now) /\ ~PolicyDiffBlocks(before, Tree[revision])
    <3>. HIDE DEF before
    <3>. QED
      BY <1>5, GatePassed
  <2>2. Approvals # {} => before = Tree[runs[Max(Approvals)].current]
    BY <1>1, LatestIsMax, ApprovedRevision, TreeAssumption
  <2>. HIDE DEF before
  <2>. QED
    BY <2>1, <2>2 DEF Passed
<1>. HIDE DEF previous, before
<1>7. /\ new \in Run /\ new.place = Local /\ new.at = "gate" /\ new.outcome = "ended"
      /\ new.mode = "full_ci_fallback" /\ new.gate = gate /\ new.current = revision
  BY <1>4, <1>5 DEF Run, Started, Ids, Phases
<1>. HIDE DEF new
<1>8. Grow(Len(runs) + 1, new)
  BY <1>1, <1>2, <1>3, <1>7, AppendGrows DEF new
<1>. QED
  BY <1>6, <1>7, <1>8

LEMMA LocalGateKeeps ==
  ASSUME IndInv, NEW revision \in Revisions, LocalGate(revision)
  PROVE  IndInv'
<1>1. /\ RunInv /\ HistoryInv /\ SchemaInv /\ LatestApproval /\ GreenChainKeepsPromises
      /\ PolicyNeverWeakens
  BY DEF IndInv
<1>2. UNCHANGED <<schemas, directories, history>> /\ now \in 0 .. 1 /\ now' \in 0 .. 1
  BY <1>1 DEF LocalGate, HistoryInv
<1>. DEFINE n == Len(runs) + 1
<1>3. PICK new : /\ Grow(n, new)
                 /\ new.place = Local /\ new.at = "gate" /\ new.outcome = "ended"
                 /\ new.mode = "full_ci_fallback" /\ new.current = revision
                 /\ new.gate = "passed" => Passed(revision)
  BY LocalGateGrows
<1>4. SchemaInv'
  BY <1>1, <1>2, <1>3, SchemasGrow
<1>. HIDE DEF n
<1>5. ASSUME NEW k, Grow(k, new)
      PROVE  /\ RunInv' /\ HistoryInv' /\ GreenChainKeepsPromises'
             /\ LatestApproval' /\ PolicyNeverWeakens'
  <2>1. runs'[k] = new /\ k \in DOMAIN runs'
    BY <1>5 DEF Grow
  <2>2. Judged(k)'
    BY <1>3, <2>1 DEF Judged, Running
  <2>3. GateRun(k)'
    BY <1>2, <1>3, <2>1 DEF GateRun, Passed
  <2>4. RunInv'
    BY <1>1, <1>3, <1>5, <2>2, <2>3, RunsGrow
  <2>5. HistoryInv' /\ GreenChainKeepsPromises'
    BY <1>1, <1>2, <1>5, HistoryGrows
  <2>6. LatestApproval' /\ PolicyNeverWeakens'
    <3>1. CASE new.gate = "passed"
      BY <1>1, <1>3, <1>5, <3>1, PolicyGrows DEF Passed
    <3>2. CASE new.gate # "passed"
      <4>1. SameApprovals
        BY <1>1, <1>5, <3>2, ApprovalsGrow DEF SameApprovals
      <4>. QED
        BY <1>1, <4>1, ApprovalsStay
    <3>. QED
      BY <3>1, <3>2
  <2>. QED
    BY <2>4, <2>5, <2>6
<1>. QED
  BY <1>3, <1>4, <1>5 DEF IndInv

-----------------------------------------------------------------------------
(* A push and a dispatch. *)

\* They end the runs in progress.
LEMMA StartOnMainGrows ==
  ASSUME IndInv, NEW base \in Revisions \cup {Absent}, NEW current \in Revisions,
         StartOnMain(base, current)
  PROVE  /\ Grow(Len(runs) + 1, Started(Len(runs) + 1, <<"gha">>, base, current))
         /\ \A k \in DOMAIN runs : InWorkflow(k) => ~Running(k)'
<1>1. RunInv /\ HistoryInv
  BY DEF IndInv
<1>. DEFINE n == Len(runs) + 1
            new == Started(n, <<"gha">>, base, current)
            kept == [k \in DOMAIN runs |-> IF InWorkflow(k) /\ ~Ended(k) THEN End(k, "cancelled")
                                          ELSE runs[k]]
<1>2. runs' = Append(kept, new)
  BY DEF StartOnMain
<1>3. DOMAIN runs = 1 .. Len(runs) /\ Len(runs) \in Nat /\ n \in Nat
  <2>1. runs \in Seq(Run)
    BY <1>1 DEF RunInv
  <2>. HIDE DEF Run
  <2>. QED
    BY <2>1, LenProperties
<1>4. new \in Run
  BY <1>3, StartedRun DEF Ids
<1>5. kept \in Seq(Run) /\ Len(kept) = Len(runs)
  <2>1. \A k \in DOMAIN runs : runs[k] \in Run /\ End(k, "cancelled") \in Run
    <3>1. \A k \in DOMAIN runs : runs[k] \in Run
      BY <1>1, RunFields
    <3>2. ASSUME NEW u \in Run PROVE [u EXCEPT !.at = "end", !.outcome = "cancelled"] \in Run
      BY DEF Run, Phases
    <3>. QED
      BY <3>1, <3>2 DEF End
  <2>. HIDE DEF Run
  <2>2. kept \in [1 .. Len(runs) -> Run]
    BY <1>3, <2>1
  <2>. HIDE DEF kept
  <2>3. kept \in Seq(Run)
    BY <1>3, <2>2, SeqDef
  <2>. QED
    BY <1>3, <2>2, <2>3, LenProperties
<1>6. \A k \in DOMAIN runs :
        /\ kept[k] = runs[k] \/ (InWorkflow(k) /\ ~Ended(k) /\ kept[k] = End(k, "cancelled"))
        /\ InWorkflow(k) => kept[k].outcome # "running"
  <2>. SUFFICES ASSUME NEW k \in DOMAIN runs
                PROVE  /\ kept[k] = runs[k]
                            \/ (InWorkflow(k) /\ ~Ended(k) /\ kept[k] = End(k, "cancelled"))
                       /\ InWorkflow(k) => kept[k].outcome # "running"
    OBVIOUS
  <2>1. End(k, "cancelled").outcome = "cancelled"
    <3>1. runs[k] \in Run
      BY <1>1, RunFields
    <3>. QED
      BY <3>1 DEF End, Run
  <2>. QED
    BY <2>1 DEF Ended, Running
<1>. HIDE DEF new, kept
<1>7. Grow(n, new)
  <2>. HIDE DEF Run
  <2>. QED
    BY <1>1, <1>2, <1>4, <1>5, <1>6, AppendGrows
<1>8. \A k \in DOMAIN runs : InWorkflow(k) => ~Running(k)'
  <2>1. \A k \in DOMAIN runs : runs'[k] = kept[k]
    <3>. HIDE DEF Run
    <3>. QED
      BY <1>2, <1>3, <1>4, <1>5, AppendProperties
  <2>. QED
    BY <1>6, <2>1 DEF Running
<1>. QED
  BY <1>7, <1>8 DEF new

LEMMA PushGrows ==
  ASSUME IndInv, NEW revision \in Revisions, Push(revision)
  PROVE  /\ Grow(Len(runs) + 1, Started(Len(runs) + 1, <<"gha">>, Main, revision))
         /\ \A k \in DOMAIN runs : InWorkflow(k) => ~Running(k)'
BY MainRevision, StartOnMainGrows DEF IndInv, Push

LEMMA DispatchGrows ==
  ASSUME IndInv, Dispatch
  PROVE  Grow(Len(runs) + 1, Started(Len(runs) + 1, <<"gha">>, Absent, Main))
BY MainRevision, StartOnMainGrows DEF IndInv, Dispatch

\* It is not in the history, and never green.
LEMMA DispatchKeeps ==
  ASSUME IndInv, Dispatch
  PROVE  IndInv'
<1>1. RunInv /\ HistoryInv /\ SchemaInv /\ LatestApproval /\ GreenChainKeepsPromises /\ PolicyNeverWeakens
  BY DEF IndInv
<1>. DEFINE n == Len(runs) + 1
            new == Started(n, <<"gha">>, Absent, Main)
<1>2. UNCHANGED <<schemas, directories, history, now>>
  BY DEF Dispatch, StartOnMain
<1>3. /\ new.place = n /\ new.at = "mkdir" /\ new.outcome = "running"
      /\ new.mode = "full_ci_fallback"
  BY DEF Started
<1>4. Grow(n, new)
  BY DispatchGrows
<1>. HIDE DEF new
<1>5. SchemaInv'
  BY <1>1, <1>2, <1>4, SchemasGrow
<1>. HIDE DEF n
<1>6. ASSUME NEW k, Grow(k, new), k = n
      PROVE  RunInv' /\ HistoryInv' /\ GreenChainKeepsPromises' /\ SameApprovals
  <2>1. runs'[k] = new /\ Judged(k)' /\ GateRun(k)'
    BY <1>3, <1>6 DEF Judged, GateRun, IsGate, Grow
  <2>2. RunInv'
    <3>1. new.place = k /\ k \in Nat
      BY <1>3, <1>6 DEF Grow
    <3>. QED
      BY <1>1, <1>6, <2>1, <3>1, TreeAssumption, RunsGrow
  <2>3. SameApprovals
    BY <1>1, <1>3, <1>6, ApprovalsGrow DEF SameApprovals
  <2>. QED
    BY <1>1, <1>2, <1>6, <2>2, <2>3, HistoryGrows DEF HistoryInv
<1>. QED
  BY <1>1, <1>4, <1>5, <1>6, ApprovalsStay DEF IndInv

LEMMA PushKeeps ==
  ASSUME IndInv, NEW revision \in Revisions, Push(revision)
  PROVE  IndInv'
<1>1. /\ RunInv /\ HistoryInv /\ SchemaInv /\ LatestApproval /\ GreenChainKeepsPromises
      /\ PolicyNeverWeakens
  BY DEF IndInv
<1>. DEFINE n == Len(runs) + 1
            new == Started(n, <<"gha">>, Main, revision)
            entry == [revision |-> revision, run |-> n]
            Entry == [revision : Revisions, run : Nat]
<1>2. history' = Append(history, entry) /\ UNCHANGED <<schemas, directories, now>>
  BY DEF Push, StartOnMain
<1>3. n \in Nat
  BY PushGrows DEF Grow
<1>4. /\ new.place = n /\ new.at = "mkdir" /\ new.outcome = "running"
      /\ new.mode = "full_ci_fallback" /\ new.base = Main /\ new.current = revision
      /\ new.gate = Absent
  BY DEF Started
<1>5. Grow(n, new)
  BY PushGrows
<1>6. \A k \in DOMAIN runs : InWorkflow(k) => ~Running(k)'
  BY PushGrows
<1>. HIDE DEF new
<1>7. SchemaInv'
  BY <1>1, <1>2, <1>5, SchemasGrow
<1>8. history \in Seq(Entry) /\ entry \in Entry /\ Len(history) \in Nat /\ Len(history) >= 1
  <2>1. history \in Seq(Entry) /\ history # <<>> /\ entry \in Entry
    BY <1>1, <1>3 DEF HistoryInv
  <2>. HIDE DEF Entry, entry
  <2>. QED
    BY <2>1, EmptySeq, LenProperties
<1>9. /\ history' \in Seq(Entry) /\ history' # <<>> /\ Len(history') = Len(history) + 1
       /\ \A i \in 1 .. Len(history) : history'[i] = history[i]
       /\ history'[Len(history) + 1] = entry
  <2>. HIDE DEF Entry, entry
  <2>. QED
    BY <1>2, <1>8, AppendProperties
<1>10. Main = history[Len(history)].revision
  BY DEF Main, Last
<1>. DEFINE l == Len(history)
<1>11. /\ \A i \in 2 .. l + 1 : i \in 2 .. l \/ i = l + 1
       /\ \A i \in 2 .. l : i \in 1 .. l /\ i - 1 \in 1 .. l
       /\ (l + 1) - 1 = l /\ l \in 1 .. l
  BY <1>8
<1>. HIDE DEF n, l
<1>. DEFINE Pushed(i, k) ==
              /\ k \in DOMAIN runs' /\ runs'[k].place = k
              /\ runs'[k].base = history'[i - 1].revision /\ runs'[k].current = history'[i].revision
              /\ k \in DOMAIN runs' /\ runs'[k].outcome = "running" => i = l + 1
<1>12. HistoryInv'
  <2>1. ASSUME NEW i \in 2 .. l PROVE Pushed(i, history'[i].run)
    <3>1. /\ history'[i] = history[i] /\ history'[i - 1] = history[i - 1]
      BY <1>9, <1>11 DEF l
    <3>. DEFINE k == history[i].run
    <3>2. /\ InWorkflow(k)
          /\ runs[k].base = history[i - 1].revision /\ runs[k].current = history[i].revision
      BY <1>1 DEF HistoryInv, l
    <3>. HIDE DEF k
    <3>3. k \in DOMAIN runs /\ k \in DOMAIN runs' /\ runs[k].place = k /\ Kept(k)
      BY <1>5, <3>2 DEF InWorkflow, Grow
    <3>4. runs'[k].outcome # "running"
      BY <1>6, <3>2, <3>3 DEF Running
    <3>. QED
      BY <3>1, <3>2, <3>3, <3>4 DEF Kept, k
  <2>2. Pushed(l + 1, history'[l + 1].run)
    <3>1. /\ history'[l + 1].run = n /\ history'[l + 1].revision = revision
          /\ history'[(l + 1) - 1].revision = Main
      BY <1>9, <1>10, <1>11 DEF l
    <3>2. n \in DOMAIN runs' /\ runs'[n] = new
      BY <1>5 DEF Grow
    <3>3. Pushed(l + 1, n)
      BY <1>4, <3>1, <3>2
    <3>. HIDE DEF Pushed
    <3>. QED
      BY <3>1, <3>3
  <2>3. Len(history') = l + 1
    BY <1>9 DEF l
  <2>4. \A i \in 2 .. Len(history') : Pushed(i, history'[i].run)
    <3>. HIDE DEF Pushed
    <3>. QED
      BY <1>11, <2>1, <2>2, <2>3
  <2>5. history' \in Seq(Entry) /\ history' # <<>> /\ now' \in 0 .. 1
    BY <1>1, <1>2, <1>9 DEF HistoryInv
  <2>. QED
    BY <2>3, <2>4, <2>5 DEF HistoryInv, InWorkflow, Running
<1>. HIDE DEF Pushed
<1>13. ASSUME NEW k, Grow(k, new), k = n
       PROVE  RunInv' /\ SameApprovals
  <2>1. runs'[k] = new
    BY <1>13 DEF Grow
  <2>2. Judged(k)' /\ GateRun(k)'
    BY <1>4, <2>1 DEF Judged, GateRun, IsGate
  <2>3. RunInv'
    BY <1>1, <1>3, <1>4, <1>13, <2>2, TreeAssumption, RunsGrow DEF n
  <2>4. SameApprovals
    BY <1>1, <1>4, <1>13, ApprovalsGrow DEF SameApprovals
  <2>. QED
    BY <2>3, <2>4
<1>14. GreenChainKeepsPromises'
  <2>1. ASSUME NEW k \in 2 .. l, Green(k)' PROVE Green(k)
    <3>1. history'[k] = history[k]
      BY <1>9, <1>11 DEF l
    <3>2. LET r == runs'[history'[k].run]
          IN r.outcome = "passed" /\ r.mode = "state_modified_plus"
      BY <2>1 DEF Green
    <3>. QED
      BY <1>1, <1>5, <3>1, <3>2, GreenGrows DEF l
  <2>2. ASSUME NEW k, k = l + 1 PROVE ~Green(k)'
    <3>1. history'[k].run = n
      <4>1. history'[l + 1].run = n
        BY <1>9, <1>11 DEF l
      <4>. QED
        BY <2>2, <4>1
    <3>2. runs'[n] = new
      BY <1>5 DEF Grow
    <3>. QED
      BY <1>4, <3>1, <3>2 DEF Green
  <2>. SUFFICES ASSUME NEW i \in DOMAIN history', NEW j \in DOMAIN history', i < j,
                       \A k \in (i + 1) .. j : Green(k)'
                PROVE  Promises(Tree[history'[i].revision])
                         \subseteq Promises(Tree[history'[j].revision])
    BY DEF GreenChainKeepsPromises
  <2>3. DOMAIN history' = 1 .. l + 1 /\ DOMAIN history = 1 .. l /\ l \in Nat
    BY <1>8, <1>9, LenProperties DEF l
  <2>4. i \in 1 .. l /\ j \in 1 .. l
    <3>1. j # l + 1
      <4>1. j \in (i + 1) .. j
        BY <2>3
      <4>. QED
        BY <2>2, <4>1
    <3>. QED
      BY <2>3, <3>1
  <2>5. \A k \in (i + 1) .. j : Green(k)
    BY <2>1, <2>3, <2>4
  <2>. QED
    BY <1>1, <1>9, <2>3, <2>4, <2>5 DEF GreenChainKeepsPromises, l
<1>. QED
  BY <1>1, <1>5, <1>7, <1>12, <1>13, <1>14, ApprovalsStay DEF IndInv

-----------------------------------------------------------------------------
(* Every step. *)

LEMMA InitEstablishes == Init => IndInv
<1>. SUFFICES ASSUME Init PROVE IndInv
  OBVIOUS
<1>. DEFINE S == [revision : Revisions, run : Nat]
            first == [revision |-> FirstRevision, run |-> 0]
<1>1. /\ runs = <<>> /\ schemas = {} /\ directories = {} /\ history = <<first>> /\ now = 0
      /\ first \in S
  BY WorkflowAssumption DEF Init, CiInit
<1>2. DOMAIN runs = {}
  BY <1>1
<1>3. runs \in Seq(Run)
  <2>. HIDE DEF Run
  <2>. QED
    BY <1>1
<1>4. history \in Seq(S) /\ Len(history) = 1 /\ history # <<>> /\ DOMAIN history = {1}
  <2>. HIDE DEF S, first
  <2>. QED
    BY <1>1
<1>5. RunInv
  BY <1>2, <1>3 DEF RunInv
<1>6. HistoryInv
  BY <1>1, <1>4 DEF HistoryInv
<1>7. SchemaInv
  BY <1>1 DEF SchemaInv, SchemasAccountedFor
<1>8. Approvals = {}
  BY <1>2 DEF Approvals
<1>9. GreenChainKeepsPromises
  BY <1>4 DEF GreenChainKeepsPromises
<1>. QED
  BY <1>5, <1>6, <1>7, <1>8, <1>9 DEF IndInv, LatestApproval, PolicyNeverWeakens

LEMMA UnchangedKeeps ==
  ASSUME IndInv, UNCHANGED <<runs, schemas, directories, history>>, now' \in 0 .. 1
  PROVE  IndInv'
<1>1. RunInv'
  BY DEF IndInv, RunInv, Judged, GateRun, IsGate, ByHand, Running
<1>2. HistoryInv'
  BY DEF IndInv, HistoryInv, InWorkflow, Running
<1>3. SchemaInv'
  BY DEF IndInv, SchemaInv, SchemasAccountedFor, ByHand, Running
<1>4. GreenChainKeepsPromises'
  BY DEF IndInv, GreenChainKeepsPromises, Green
<1>5. SameApprovals
  BY DEF SameApprovals, Approvals, IsGate
<1>. QED
  BY <1>1, <1>2, <1>3, <1>4, <1>5, ApprovalsStay DEF IndInv

LEMMA StepKeeps == IndInv /\ [Next]_vars => IndInv'
<1>. SUFFICES ASSUME IndInv, [Next]_vars PROVE IndInv'
  OBVIOUS
<1>1. RunInv /\ HistoryInv
  BY DEF IndInv
<1>2. CASE \E revision \in Revisions : Push(revision)
  BY <1>2, PushKeeps
<1>3. CASE \E r \in DOMAIN runs : Hang(r)
  <2>. PICK r \in DOMAIN runs : Hang(r)
    BY <1>3
  <2>. QED
    BY <1>1, HangAdvances, AdvanceKeeps DEF Hang
<1>4. CASE Workflow
  <2>. PICK r \in DOMAIN runs :
         InWorkflow(r) /\ (JobTimeout(r) \/ Phase8A(r) \/ (SlimStep(r) /\ UNCHANGED <<history, now>>))
    BY <1>4 DEF Workflow
  <2>1. CASE JobTimeout(r)
    BY <1>1, <2>1, JobTimeoutAdvances, AdvanceKeeps DEF JobTimeout
  <2>2. CASE Phase8A(r)
    BY <2>2, Phase8AKeeps
  <2>3. CASE SlimStep(r) /\ UNCHANGED <<history, now>>
    BY <1>1, <2>3, SlimStepAdvances, AdvanceKeeps
  <2>. QED
    BY <2>1, <2>2, <2>3
<1>5. CASE Hands
  <2>1. CASE \E id \in LocalIds, revision \in Revisions : StartLocal(id, revision)
    BY <2>1, StartLocalKeeps
  <2>2. CASE \E revision \in Revisions : LocalGate(revision)
    BY <2>2, LocalGateKeeps
  <2>3. CASE \E r \in DOMAIN runs :
               ByHand(r) /\ (SlimStep(r) \/ Escape(r)) /\ UNCHANGED <<history, now>>
    BY <1>1, <2>3, SlimStepAdvances, EscapeAdvances, AdvanceKeeps
  <2>. QED
    BY <1>5, <2>1, <2>2, <2>3 DEF Hands
<1>6. CASE DeadlinesPass
  BY <1>6, UnchangedKeeps DEF DeadlinesPass, ciVars
<1>7. CASE UNCHANGED vars
  BY <1>1, <1>7, UnchangedKeeps DEF vars, ciVars, HistoryInv
<1>8. CASE Dispatch
  BY <1>8, DispatchKeeps
<1>. QED
  BY <1>2, <1>3, <1>4, <1>5, <1>6, <1>7, <1>8 DEF Next

-----------------------------------------------------------------------------
(* The theorems. *)

\* However pushes, dispatches, runs by hand, hung commands and expiring deadlines
\* interleave, the invariant holds.
THEOREM CiInvariant == Spec => []IndInv
<1>1. Init => IndInv
  BY InitEstablishes
<1>2. IndInv /\ [Next]_vars => IndInv'
  BY StepKeeps
<1>. QED
  BY <1>1, <1>2, PTL DEF Spec

\* The runs, the schemas with the runs that created them, the state
\* directories and the history of main have the types the code gives them.
THEOREM CiTypeCorrect == Spec => []TypeOK
<1>1. IndInv => TypeOK
  <2>. SUFFICES ASSUME IndInv PROVE TypeOK
    OBVIOUS
  <2>1. \A r \in DOMAIN runs : runs[r] \in Run /\ runs[r].place \in {Local, r}
    BY RunFields DEF IndInv, RunInv
  <2>2. \A u \in Run : /\ u.outcome \in {"running", "passed", "failed", "escaped", "cancelled",
                                         "timed_out", "ended"}
                       /\ u.gate \in {Absent, "passed", "blocked", "invalid", "timed_out"}
    BY DEF Run
  <2>. QED
    BY <2>1, <2>2 DEF IndInv, HistoryInv, SchemaInv, TypeOK
<1>. QED
  BY <1>1, CiInvariant, PTL

\* slim_ci.py:444, 478.  A schema that is left over belongs to a run id in
\* use, to a run whose exception escaped, or to one that reported it.
THEOREM CiSchemasAccountedFor == Spec => []SchemasAccountedFor
<1>1. IndInv => SchemasAccountedFor
  BY DEF IndInv, SchemaInv
<1>. QED
  BY <1>1, CiInvariant, PTL

\* contracts.py:302.  Along pushes that each compared with the one before and
\* passed, no promise of an earlier revision is taken back.
THEOREM CiGreenChain == Spec => []GreenChainKeepsPromises
<1>1. IndInv => GreenChainKeepsPromises
  BY DEF IndInv
<1>. QED
  BY <1>1, CiInvariant, PTL

\* bigquery_policy_diff.py:110.  From one local gate that passed to any later
\* one, no required mart's partition, filter or merge key is weakened.
THEOREM CiPolicyNeverWeakens == Spec => []PolicyNeverWeakens
<1>1. IndInv => PolicyNeverWeakens
  BY DEF IndInv
<1>. QED
  BY <1>1, CiInvariant, PTL

\* What a gate newly passes, its exemptions and waivers cover now.
InForceNow(k) ==
  LET tree == Tree[runs'[k].current]
  IN /\ \A m \in Published(tree) :
          BigQuery(tree, m).partition = Absent => BigQuery(tree, m).exemption.until > now
     /\ tree.fixture.estimate >= CostOf(tree.cost, tree.fixture.model).blocking =>
          tree.fixture.waiver.until > now'

NewlyPassed(k) ==
  k \in DOMAIN runs' /\ runs'[k].gate = "passed" /\ (k \in DOMAIN runs => runs[k].gate # "passed")

LEMMA GrowPasses ==
  ASSUME NEW n, NEW new, Grow(n, new), NEW k, NewlyPassed(k)
  PROVE  k = n /\ new.gate = "passed" /\ runs'[k] = new
BY DEF Grow, Kept, NewlyPassed

LEMMA AdvancePasses ==
  ASSUME NEW r, Advance(r), NEW k
  PROVE  ~NewlyPassed(k)
BY DEF Advance, Running, Touch, NewlyPassed

LEMMA StepPasses ==
  ASSUME IndInv, [Next]_vars, NEW k, NewlyPassed(k)
  PROVE  InForceNow(k)
<1>1. RunInv
  BY DEF IndInv
<1>2. \A place, id, base, current : Started(place, id, base, current).gate # "passed"
  BY TreeAssumption DEF Started
<1>3. CASE \E revision \in Revisions : Push(revision)
  BY <1>2, <1>3, PushGrows, GrowPasses
<1>4. CASE \E id \in LocalIds, revision \in Revisions : StartLocal(id, revision)
  BY <1>2, <1>4, StartLocalGrows, GrowPasses
<1>5. CASE \E revision \in Revisions : LocalGate(revision)
  <2>. PICK revision \in Revisions : LocalGate(revision)
    BY <1>5
  <2>1. PICK new : /\ Grow(Len(runs) + 1, new) /\ new.current = revision
                   /\ new.gate = "passed" => Passed(revision)
    BY LocalGateGrows
  <2>2. runs'[k].current = revision /\ Passed(revision)
    BY <2>1, GrowPasses
  <2>3. PICK before : Gate(before, Tree[revision], now, now') = "passed"
    BY <2>2 DEF Passed
  <2>. QED
    BY <2>2, <2>3, PassedWhileInForce DEF InForceNow
<1>6. CASE \E r \in DOMAIN runs : Phase8A(r)
  <2>. PICK r \in DOMAIN runs : Phase8A(r)
    BY <1>6
  <2>1. PICK g \in Outcomes(Absent, Tree[runs[r].current], now, now') \cup {"timed_out"} :
          runs' = [runs EXCEPT ![r].gate = g]
    BY DEF Phase8A
  <2>2. runs[r] \in Run /\ k \in DOMAIN runs
    BY <1>1, <2>1, RunFields DEF NewlyPassed
  <2>3. k = r /\ g = "passed" /\ runs'[k].current = runs[r].current
    BY <2>1, <2>2 DEF NewlyPassed, Run
  <2>4. Gate(Absent, Tree[runs[r].current], now, now') = "passed"
    BY <2>1, <2>3, GateOutcome
  <2>. QED
    BY <2>3, <2>4, PassedWhileInForce DEF InForceNow
<1>7. CASE \E r \in DOMAIN runs : Hang(r) \/ JobTimeout(r) \/ SlimStep(r) \/ Escape(r)
  BY <1>1, <1>7, HangAdvances, JobTimeoutAdvances, SlimStepAdvances, EscapeAdvances, AdvancePasses
<1>8. CASE UNCHANGED runs
  BY <1>8 DEF NewlyPassed
<1>9. CASE Dispatch
  BY <1>2, <1>9, DispatchGrows, GrowPasses
<1>. QED
  BY <1>3, <1>4, <1>5, <1>6, <1>7, <1>8, <1>9 DEF Next, Workflow, Hands, DeadlinesPass, vars, ciVars

\* bigquery_cost_policy.py:129, bigquery_compatibility.py:219.  A gate passes
\* on an exemption or a waiver only while its deadline has not passed
\* as it looks at it.
THEOREM CiPassedInForce == Spec => PassedInForce
<1>1. IndInv /\ [Next]_vars =>
        [\A r \in DOMAIN runs' :
           runs'[r].gate = "passed" /\ (r \in DOMAIN runs => runs[r].gate # "passed") =>
             LET tree == Tree[runs'[r].current]
             IN /\ \A m \in Published(tree) :
                     BigQuery(tree, m).partition = Absent => BigQuery(tree, m).exemption.until > now
                /\ tree.fixture.estimate >= CostOf(tree.cost, tree.fixture.model).blocking =>
                     tree.fixture.waiver.until > now']_runs
  BY StepPasses DEF NewlyPassed, InForceNow
<1>. QED
  BY <1>1, CiInvariant, PTL DEF Spec, PassedInForce
=============================================================================
