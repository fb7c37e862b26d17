--------------------------- MODULE MetadataIndex ---------------------------
(***************************************************************************)
(* MetadataBuilder, write_build and validate_build: the metadata index     *)
(* made from the dbt artifacts and the reports of the repository, written  *)
(* file by file into reports/metadata.                                     *)
(*                                                                         *)
(* A state of the repository, repo, is a record: doc gives each artifact   *)
(* of ARTIFACT_PATHS its content, Absent, or Invalid (unreadable, oversize *)
(* or not of its shape); reports gives each globbed report file its kind   *)
(* and state, which may be Invalid.  Descriptions, grains, maturities and  *)
(* time stamps are left out, but for the age of the last run.              *)
(***************************************************************************)
EXTENDS Naturals, Sequences, FiniteSets

CONSTANTS Absent, Invalid,  \* an artifact that is not there; that is refused
          Torn,             \* a file opened for writing, not written yet
          Repositories,     \* the successive states of the repository
          MaxBuilds         \* bound: builds, the crashed ones included

ASSUME IndexAssumption ==
  /\ Len(Repositories) \in Nat \ {0} /\ DOMAIN Repositories = 1 .. Len(Repositories)
  /\ Absent \notin DOMAIN Repositories /\ Torn \notin DOMAIN Repositories
  /\ MaxBuilds \in Nat

VARIABLES generation,  \* the repository is Repositories[generation]
          files,       \* per file of reports/metadata: the generation it describes
          build,       \* the generation whose BuildResult is being written, or Absent
          left,        \* names still to write, the first one in hand
          whole,       \* the last build ran to its end, none started since
          builds

indexVars == <<generation, files, build, left, whole, builds>>

repo == Repositories[generation]

ArtifactNames == {"manifest", "catalog", "run_results", "freshness",
                  "quality", "contract", "consumer_lag"}
RequiredDbt == {"manifest", "catalog", "run_results", "freshness"}

-----------------------------------------------------------------------------
(* The index of a repository state. *)

Loaded(r) == {a \in ArtifactNames : r.doc[a] \notin {Absent, Invalid}}
Doc(r, a, default) == IF a \in Loaded(r) THEN r.doc[a] ELSE default
None == [n \in {} |-> {}]

\* A missing manifest, or a present dbt artifact that is refused.
BuildFails(r) == "manifest" \notin Loaded(r) \/ \E a \in RequiredDbt : r.doc[a] = Invalid

Nodes(r) == r.doc["manifest"].nodes
AssetIds(r) == {n \in DOMAIN Nodes(r) : Nodes(r)[n].kind \in {"model", "source"}}

\* A manifest is a file: it has so many nodes and no more.
ASSUME ManifestAssumption ==
  \A g \in DOMAIN Repositories :
    "manifest" \in Loaded(Repositories[g]) => IsFiniteSet(AssetIds(Repositories[g]))

Results(r) == Doc(r, "run_results", [status |-> None, age |-> Absent])

\* run_results give each result to the nodes its own node depends on.
ResultsOn(r, a) ==
  {n \in DOMAIN Results(r).status :
     n \in DOMAIN Nodes(r) /\ Nodes(r)[n].kind # "source" /\ a \in Nodes(r)[n].depends}

OverallQuality(statuses) ==
  LET some(s) == statuses \cap s # {}
  IN IF some({"error", "fail", "runtime error"}) THEN "fail"
     ELSE IF some({"warn"}) THEN "warn"
     ELSE IF some({"pass", "success"}) THEN "pass" ELSE "unknown"

\* The observed type of a column, when the catalog has it, goes before the declared one.
Columns(node, observed) ==
  [c \in DOMAIN node.columns |->
     [type |-> IF c \in DOMAIN observed THEN observed[c] ELSE node.columns[c].type,
      nullable |-> ~node.columns[c].notNull]]

SourceArtifacts(r, a) ==
  {"manifest"} \cup (Loaded(r) \cap {"catalog", "run_results", "quality", "contract"})
    \cup (IF Nodes(r)[a].kind = "source" THEN Loaded(r) \cap {"freshness"} ELSE {})

\* Mutant of the next: whatever the node depends on.
UnfilteredUpstream(r, a) == Nodes(r)[a].depends

Upstream(r, a) == Nodes(r)[a].depends \cap AssetIds(r)

Downstream(r, a) ==
  LET children == r.doc["manifest"].children
  IN IF a \in DOMAIN children THEN children[a] \cap AssetIds(r) ELSE {}

AssetOf(r, a) ==
  LET node == Nodes(r)[a]
      catalog == Doc(r, "catalog", None)
      freshness == Doc(r, "freshness", None)
  IN [name |-> node.name, kind |-> node.kind, layer |-> node.layer, owner |-> node.owner,
      columns |-> Columns(node, IF a \in DOMAIN catalog THEN catalog[a] ELSE None),
      upstream |-> Upstream(r, a), downstream |-> Downstream(r, a),
      quality |-> OverallQuality({Results(r).status[n] : n \in ResultsOn(r, a)}),
      tests |-> ResultsOn(r, a),
      freshness |-> IF a \in DOMAIN freshness THEN freshness[a] ELSE Absent,
      lastRun |-> Results(r).age,
      sources |-> SourceArtifacts(r, a)]

Evidence(r) == (Loaded(r) \cap {"quality", "contract", "consumer_lag"})
                 \cup {p \in DOMAIN r.reports : r.reports[p].state # Invalid}

IndexWarnings(r) ==
  {a \in ArtifactNames \ RequiredDbt : r.doc[a] = Invalid}
    \cup {p \in DOMAIN r.reports : r.reports[p].state = Invalid}
    \cup (IF DOMAIN Doc(r, "catalog", None) = {} THEN {"catalog"} ELSE {})

IndexOf(r) ==
  LET missing == {a \in ArtifactNames : r.doc[a] = Absent} IN
  [status |-> IF missing = {} THEN "complete" ELSE "degraded",
   assets |-> [a \in AssetIds(r) |-> AssetOf(r, a)],
   evidence |-> Evidence(r), missing |-> missing, warnings |-> IndexWarnings(r)]

GraphOf(index) ==
  [nodes |-> DOMAIN index.assets,
   edges |-> UNION {{<<u, a>> : u \in index.assets[a].upstream} : a \in DOMAIN index.assets}]

SummaryOf(index, graph) ==
  [status |-> index.status, assets |-> Cardinality(DOMAIN index.assets),
   edges |-> Cardinality(graph.edges), missing |-> index.missing, warnings |-> index.warnings]

\* The three payloads of a build, in the order they are written.
OutputFiles == <<"metadata-index", "lineage-graph", "index-summary">>
Outputs == {OutputFiles[i] : i \in DOMAIN OutputFiles}

BuildResult(r) ==
  LET index == IndexOf(r)
      graph == GraphOf(index)
  IN [f \in Outputs |-> CASE f = "metadata-index" -> index
                          [] f = "lineage-graph"  -> graph
                          [] f = "index-summary"  -> SummaryOf(index, graph)]

\* What a file holds that describes generation g.
Builds == [g \in DOMAIN Repositories |->
             IF BuildFails(Repositories[g]) THEN Absent ELSE BuildResult(Repositories[g])]
Content(f, g) == Builds[g][f]

\* validate_build: the files parse, and agree with each other as far as it looks.
ValidBuild(fs) ==
  LET index == Content("metadata-index", fs["metadata-index"])
      graph == Content("lineage-graph", fs["lineage-graph"])
      summary == Content("index-summary", fs["index-summary"])
  IN /\ \A f \in Outputs : fs[f] \notin {Absent, Torn}
     /\ graph.nodes = DOMAIN index.assets
     /\ \A e \in graph.edges : {e[1], e[2]} \subseteq DOMAIN index.assets
     /\ summary.assets = Cardinality(DOMAIN index.assets)
     /\ summary.edges = Cardinality(graph.edges)

-----------------------------------------------------------------------------
(* The builder process.  build() reads the artifacts in one step: no dbt   *)
(* command runs while the index is built.                                  *)

Buildable == {g \in DOMAIN Repositories : ~BuildFails(Repositories[g])}

IndexInit ==
  /\ generation = 1
  /\ \E g \in {Absent} \cup ({1} \cap Buildable) :
       files = [f \in Outputs |-> g]
  /\ build = Absent /\ left = <<>>
  /\ whole = FALSE
  /\ builds = 0

\* A dbt run, or a report, replaces artifacts.
DbtRun ==
  /\ build = Absent /\ generation < Len(Repositories)
  /\ generation' = generation + 1
  /\ UNCHANGED <<files, build, left, whole, builds>>

StartBuild ==
  /\ build = Absent /\ builds < MaxBuilds
  /\ builds' = builds + 1
  /\ whole' = FALSE
  /\ IF generation \in Buildable THEN build' = generation /\ left' = OutputFiles
                                 ELSE UNCHANGED <<build, left>>
  /\ UNCHANGED <<generation, files>>

\* write_text opens the file, which empties it, and then writes it.
OpenFile ==
  /\ left # <<>> /\ files[Head(left)] # Torn
  /\ files' = [files EXCEPT ![Head(left)] = Torn]
  /\ UNCHANGED <<generation, build, left, whole, builds>>

WriteFile ==
  /\ left # <<>> /\ files[Head(left)] = Torn
  /\ files' = [files EXCEPT ![Head(left)] = build]
  /\ left' = Tail(left)
  /\ build' = IF Tail(left) = <<>> THEN Absent ELSE build
  /\ whole' = (Tail(left) = <<>>)
  /\ UNCHANGED <<generation, builds>>

BuilderKilled ==
  /\ build # Absent
  /\ build' = Absent /\ left' = <<>>
  /\ UNCHANGED <<generation, files, whole, builds>>

IndexNext == DbtRun \/ StartBuild \/ OpenFile \/ WriteFile \/ BuilderKilled

IndexTypeOK ==
  /\ generation \in 1 .. Len(Repositories)
  /\ files \in [Outputs -> {Absent, Torn} \cup Buildable]
  /\ build \in {Absent} \cup Buildable
  /\ left \in {SubSeq(OutputFiles, i, 3) : i \in 1 .. 4}
  /\ whole \in BOOLEAN /\ builds \in 0 .. MaxBuilds
=============================================================================
