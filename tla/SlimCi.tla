------------------------------- MODULE SlimCi -------------------------------
(***************************************************************************)
(* src/data_platform/slim_ci.py: runs of run_slim_ci, side by side.  A run *)
(* makes its state directory, builds the base revision, checks and builds  *)
(* the current one in schemas of its own, and drops them.                  *)
(*                                                                         *)
(* A run is a record: place (its checkout and database: Local, or a number *)
(* of its own for a run of the workflow), id (the run id, as a sequence of *)
(* characters), base and current (revisions), at (its next phase) and what *)
(* became of it.  A phase stands for consecutive commands that touch no    *)
(* shared state: a failure of any of them has the same effect.             *)
(***************************************************************************)
EXTENDS WarehousePolicy, SequencesExt

CONSTANTS Tree,  \* what each revision holds, by name
          Local  \* the place of the runs started by hand

Revisions == DOMAIN Tree

\* Absent is no string (nor the gate's outcome, a literal the provers do not
\* know to be one) and no revision.
ASSUME TreeAssumption ==
  /\ Local \notin Nat /\ Absent \notin STRING \cup {"passed"}
  /\ Absent \notin Revisions /\ \A v \in Revisions : Tree[v] # Absent

\* A mart goes by its name, and a partition has three parts.
ASSUME MartAssumption ==
  \A v \in Revisions : \A m \in Published(Tree[v]) :
    /\ Tree[v].models[m].name = m
    /\ m \in WithPolicy(Tree[v]) =>
         BigQuery(Tree[v], m).partition
           \in {Absent} \cup [field : STRING, type : STRING, granularity : STRING]

VARIABLES runs,         \* the runs so far, in the order they were started
          schemas,      \* records [side, id, by]: by is the run that created it
          directories   \* state directories, as <<place, id>>

ciVars == <<runs, schemas, directories>>

Started(place, id, base, current) ==
  [place |-> place, id |-> id, base |-> base, current |-> current, at |-> "mkdir",
   mode |-> "full_ci_fallback", outcome |-> "running", unclean |-> FALSE, gate |-> Absent]

Running(r) == r \in DOMAIN runs /\ runs[r].outcome = "running"
At(r, phase) == Running(r) /\ runs[r].at = phase
Goto(r, phase) == runs' = [runs EXCEPT ![r].at = phase]

\* _run raises when a command fails.
Onward(phase) == {phase, "recover"}

End(r, outcome) == [runs[r] EXCEPT !.at = "end", !.outcome = outcome]

\* Both checks of the current manifest, as SlimCIError or not.
Verdict ==
  [base \in Revisions \cup {Absent} |-> [current \in Revisions |->
     /\ ConventionsHold(Tree[current])
     /\ ContractStatus(IF base = Absent THEN Absent ELSE Tree[base], Tree[current]) # "blocked"]]

-----------------------------------------------------------------------------
(* Schemas.  dbt adds _staging, _intermediate or _marts to the one it is   *)
(* given, and creates a schema that does not exist yet.  Those of a run of *)
(* the workflow go with its service container and are not recorded.        *)

SchemaName(s) == s.id \o <<"_", "layer">>

Create(r, side) ==
  IF runs[r].place # Local \/ \E s \in schemas : s.side = side /\ s.id = runs[r].id
  THEN schemas
  ELSE schemas \cup {[side |-> side, id |-> runs[r].id, by |-> r]}

\* schema_name like any(prefix\_%): the prefix's own underscores match any
\* character.
Like(id, name) ==
  /\ Len(name) > Len(id) /\ name[Len(id) + 1] = "_"
  /\ \A i \in DOMAIN id : id[i] \in {"_", name[i]}

Found(r) == {s \in schemas : runs[r].place = Local /\ Like(runs[r].id, SchemaName(s))}

\* startswith(prefix_) of each schema found, or none is dropped.
Refused(r) == \E s \in Found(r) : ~IsPrefix(runs[r].id \o <<"_">>, SchemaName(s))

-----------------------------------------------------------------------------
(* The steps of a run. *)

CiInit == runs = <<>> /\ schemas = {} /\ directories = {}

\* An existing directory is an OSError, like one that cannot be made.
MakeState(r) ==
  LET directory == <<runs[r].place, runs[r].id>>
  IN /\ At(r, "mkdir")
     /\ \/ /\ directory \notin directories
           /\ Goto(r, "base")
           /\ directories' = directories \cup {directory}
        \/ Goto(r, "recover") /\ UNCHANGED directories
     /\ UNCHANGED schemas

\* _extract_revision: a base that git cannot resolve or archive is given up
\* silently.
Bases(r) == IF runs[r].base = Absent THEN {"unresolved"} ELSE {"unresolved", "resolved"}

\* git archive, deps, build and docs of the base, then deps and parse of the
\* current project.  Without deps nothing is built.
BuildBase(r) ==
  /\ At(r, "base")
  /\ \E next \in Onward("checks") :
       \/ /\ "unresolved" \in Bases(r) /\ Goto(r, next) /\ UNCHANGED schemas
       \/ /\ "resolved" \in Bases(r)
          /\ runs' = [runs EXCEPT ![r].at = next, ![r].mode = "state_modified_plus"]
          /\ \/ schemas' = Create(r, "base")
             \/ next = "recover" /\ UNCHANGED schemas
  /\ UNCHANGED directories

Checks(r) ==
  LET base == IF runs[r].mode = "full_ci_fallback" THEN Absent ELSE runs[r].base
  IN /\ At(r, "checks")
     /\ Goto(r, IF Verdict[base][runs[r].current] THEN "build" ELSE "recover")
     /\ UNCHANGED <<schemas, directories>>

\* ls --select state:modified+ --state: no model may have been modified.
AfterSelected(r) == {schemas, Create(r, "current")}

\* ls and build, of what was modified with --defer or of everything, then
\* docs, freshness and the make targets.
BuildCurrent(r) ==
  /\ At(r, "build")
  /\ \E next \in Onward("cleanup") : Goto(r, next)
  /\ schemas' \in AfterSelected(r)
  /\ UNCHANGED directories

\* The cleanup of the normal path: a refusal is caught, a psycopg.Error not.
Cleanup(r) ==
  /\ At(r, "cleanup")
  /\ \/ /\ ~Refused(r)
        /\ runs' = [runs EXCEPT ![r] = End(r, "passed")]
        /\ schemas' = schemas \ Found(r)
     \/ Refused(r) /\ Goto(r, "recover") /\ UNCHANGED schemas
     \/ runs' = [runs EXCEPT ![r] = End(r, "escaped")] /\ UNCHANGED schemas
  /\ UNCHANGED directories

\* Mutant of the next: only a failed command is cleaned up after.
ShallowRecover(r) ==
  /\ At(r, "recover")
  /\ runs' = [runs EXCEPT ![r] = End(r, "failed")]
  /\ UNCHANGED <<schemas, directories>>

\* except (OSError, SlimCIError): clean up; the summary says when that failed.
Recover(r) ==
  /\ At(r, "recover")
  /\ \/ /\ ~Refused(r)
        /\ runs' = [runs EXCEPT ![r] = End(r, "failed")]
        /\ schemas' = schemas \ Found(r)
     \/ /\ runs' = [runs EXCEPT ![r] = [End(r, "failed") EXCEPT !.unclean = TRUE]]
        /\ UNCHANGED schemas
  /\ UNCHANGED directories

\* Ctrl+C, a manifest that cannot be read, a bad archive: nothing catches it.
Escape(r) ==
  /\ Running(r) /\ runs[r].place = Local
  /\ runs' = [runs EXCEPT ![r] = End(r, "escaped")]
  /\ UNCHANGED <<schemas, directories>>

SlimStep(r) ==
  MakeState(r) \/ BuildBase(r) \/ Checks(r) \/ BuildCurrent(r) \/ Cleanup(r) \/ Recover(r)
=============================================================================
