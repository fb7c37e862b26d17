---------------------- MODULE IncidentDiagnosisProofs ----------------------
(***************************************************************************)
(* Proofs about the incident diagnosis, for every repository, alert, bound *)
(* on the faults and depth of the walk.                                    *)
(*                                                                         *)
(* The invariant has three parts, as the state has: the builder and its    *)
(* files, the requests and answers in the pipes, and the session.  What an *)
(* answer can be is a constant (Answers); what is asked is a constant of   *)
(* the alert (Asks); the rest ties a line in a pipe to the question that   *)
(* is asked now.                                                           *)
(***************************************************************************)
EXTENDS LineageWalkProofs

-----------------------------------------------------------------------------
(* What the pipes may hold. *)

HandshakeTools == {"initialize", "tools/list"}
FailuresTool == "get_recent_pipeline_failures"

\* The questions about an alert, and all that is sent in a session about it.
Asks(a) == {Questions(a)[i] : i \in DOMAIN Questions(a)}
Sent(a) == {Question(t, "", 0) : t \in HandshakeTools} \cup Asks(a)
Requests(a) == {[q EXCEPT !.id = n] : q \in Sent(a), n \in Nat}

\* The answers a request may get, whatever is served and whatever is on disk.
Answers(q) ==
  IF q.tool \in HandshakeTools THEN {HandshakeAnswer}
  ELSE {Error} \cup {Answer(Content("metadata-index", g), Repositories[h], q) :
                       g \in Buildable, h \in DOMAIN Repositories}
Lines(a) == UNION {{[id |-> q.id, to |-> q, answer |-> s] : s \in Answers(q)} : q \in Requests(a)}

-----------------------------------------------------------------------------
(* The inductive invariant. *)

\* A build is being written as long as files are left; those written before
\* are of its generation, and a whole build has all of one.
Rest(i) == SubSeq(OutputFiles, i, 3)
Writing(i) ==
  /\ left = Rest(i)
  /\ build = Absent <=> i = 4
  /\ build # Absent => ~whole /\ \A j \in 1 .. (i - 1) : files[OutputFiles[j]] = build
OfOneState == \E g \in Buildable : \A f \in Outputs : files[f] = g
IndexInv == IndexTypeOK /\ (\E i \in 1 .. 4 : Writing(i)) /\ (whole => OfOneState)

\* Every line is an answer to the request it carries, and the only request
\* with the id waited for is the one waited for.
TransportInv ==
  /\ TransportTypeOK
  /\ toServer \in Seq(Requests(alert))
  /\ pipe \in Seq(Lines(alert)) /\ buffer \in Seq(Lines(alert))
  /\ server = "serving" => served \in Buildable
  /\ waiting # Absent =>
       /\ \A i \in DOMAIN toServer : toServer[i].id = waiting.id => toServer[i] = waiting
       /\ \A s \in {buffer, pipe} : \A i \in DOMAIN s : s[i].id = waiting.id => s[i].to = waiting

\* Each question is asked once, in a run of _collect that takes them in order.
CallsInv ==
  /\ calls \in Seq(Asks(alert))
  /\ \A i, j \in DOMAIN calls : calls[i].tool = calls[j].tool => i = j
  /\ \A i \in DOMAIN calls : calls[i].tool \notin Asked
  /\ FailuresTool \in Asked \/ \E i \in DOMAIN calls : calls[i].tool = FailuresTool

\* What is asked now is the first question left.
WaitingInv ==
  /\ pc = "collect" /\ waiting # Absent =>
       calls # <<>> /\ waiting = [Head(calls) EXCEPT !.id = waiting.id]

\* An accepted answer is to the question of its tool.
ResponsesInv ==
  \A t \in DOMAIN responses :
    /\ \E q \in Asks(alert) : q.tool = t /\ [responses[t].to EXCEPT !.id = 0] = q
    /\ \E l \in Lines(alert) : l.to.tool = t /\ responses[t] = [to |-> l.to, answer |-> l.answer]

\* A server is dead before __exit__ only if it died by itself; an exception
\* after the handshake has no other cause.
EndInv ==
  /\ pc \notin {"exit", "failed", "written"} => ~raised /\ report = Absent
  /\ pc \notin {"exit", "failed", "written"} /\ server = "dead" => crashed
  /\ pc \in {"spawn", "initialize", "tools/list"} => history = <<"RECEIVED", "VALIDATED">>
  /\ pc = "failed" => raised
  /\ raised => crashed \/ history = <<"RECEIVED", "VALIDATED">>
  /\ CompletedOnlyOffIndex

SessionType ==
  /\ alert \in Alerts
  /\ pc \in {"spawn", "initialize", "tools/list", "collect", "exit", "failed", "written"}
  /\ DOMAIN responses \cap errors = {} /\ raised \in BOOLEAN

SessionInv == SessionType /\ CallsInv /\ WaitingInv /\ ResponsesInv /\ EndInv
IndInv == IndexInv /\ TransportInv /\ SessionInv

-----------------------------------------------------------------------------
(* The builder. *)

LEMMA OutputNames ==
  /\ Outputs = {"metadata-index", "lineage-graph", "index-summary"}
  /\ \A i \in 1 .. 3 : OutputFiles[i] \in Outputs
<1>1. OutputFiles[1] = "metadata-index" /\ OutputFiles[2] = "lineage-graph"
      /\ OutputFiles[3] = "index-summary" /\ DOMAIN OutputFiles = 1 .. 3
  BY DEF OutputFiles
<1>2. 1 .. 3 = {1, 2, 3}
  OBVIOUS
<1>. QED
  BY <1>1, <1>2 DEF Outputs

LEMMA RestShape ==
  /\ Rest(1) = OutputFiles /\ Rest(4) = <<>>
  /\ \A i \in 1 .. 3 : /\ Rest(i) # <<>>
                       /\ Head(Rest(i)) = OutputFiles[i] /\ Tail(Rest(i)) = Rest(i + 1)
<1>1. OutputFiles \in Seq(Outputs) /\ Len(OutputFiles) = 3
  <2>1. OutputFiles \in [1 .. 3 -> Outputs] /\ Len(OutputFiles) = 3
    BY OutputNames DEF OutputFiles
  <2>2. [1 .. 3 -> Outputs] \subseteq Seq(Outputs)
    BY SeqDef
  <2>. QED
    BY <2>1, <2>2
<1>2. Rest(1) = OutputFiles
  BY <1>1, SubSeqFull DEF Rest
<1>3. Rest(4) = <<>>
  BY SubSeqEmpty, 4 \in Int, 3 \in Int, 3 < 4 DEF Rest
<1>4. ASSUME NEW i \in 1 .. 3
      PROVE  Head(Rest(i)) = OutputFiles[i] /\ Tail(Rest(i)) = Rest(i + 1)
  BY <1>1, HeadTailOfSubSeq DEF Rest
<1>5. ASSUME NEW i \in 1 .. 3 PROVE Rest(i) # <<>>
  <2>1. \A j \in i .. 3 : OutputFiles[j] \in Outputs
    BY OutputNames
  <2>2. Len(SubSeq(OutputFiles, i, 3)) = 3 - i + 1
    <3>1. i \in Int /\ 3 \in Int /\ i <= 3
      OBVIOUS
    <3>. QED
      BY <2>1, <3>1, SubSeqProperties
  <2>3. Len(<<>>) = 0
    OBVIOUS
  <2>4. Len(Rest(i)) = 3 - i + 1
    BY <2>2 DEF Rest
  <2>. QED
    BY <2>3, <2>4
<1>. QED
  BY <1>2, <1>3, <1>4, <1>5

LEMMA BuilderInit == IndexInit => IndexInv
<1>. SUFFICES ASSUME IndexInit PROVE IndexInv
  OBVIOUS
<1>1. left = Rest(4) /\ build = Absent /\ ~whole
  BY RestShape DEF IndexInit
<1>2. Writing(4)
  BY <1>1 DEF Writing
<1>3. IndexTypeOK
  <2>1. generation \in 1 .. Len(Repositories) /\ builds \in 0 .. MaxBuilds
    BY IndexAssumption DEF IndexInit
  <2>2. files \in [Outputs -> {Absent, Torn} \cup Buildable]
    BY DEF IndexInit
  <2>3. left \in {SubSeq(OutputFiles, j, 3) : j \in 1 .. 4}
    BY <1>1 DEF Rest
  <2>. QED
    BY <2>1, <2>2, <2>3 DEF IndexTypeOK, IndexInit
<1>. QED
  BY <1>1, <1>2, <1>3 DEF IndexInv

LEMMA BuilderUnchanged == IndexInv /\ UNCHANGED indexVars => IndexInv'
BY DEF IndexInv, IndexTypeOK, Writing, Rest, OfOneState, indexVars, Buildable, BuildFails, Loaded

LEMMA BuilderStep == IndexInv /\ IndexNext => IndexInv'
<1>. SUFFICES ASSUME IndexInv, IndexNext PROVE IndexInv'
  OBVIOUS
<1>. PICK i \in 1 .. 4 : Writing(i)
  BY DEF IndexInv
<1>. USE DEF IndexInv
<1>1. CASE DbtRun
  <2>1. IndexTypeOK'
    BY <1>1, IndexAssumption DEF DbtRun, IndexTypeOK
  <2>2. Writing(i)' /\ (whole' => OfOneState')
    BY <1>1 DEF DbtRun, Writing, OfOneState
  <2>. QED
    BY <2>1, <2>2
<1>2. CASE StartBuild
  <2>1. whole' = FALSE /\ builds' \in 0 .. MaxBuilds /\ UNCHANGED <<generation, files>>
    BY <1>2, IndexAssumption DEF StartBuild, IndexTypeOK
  <2>2. CASE generation \in Buildable
    <3>1. build' = generation /\ left' = Rest(1)
      BY <1>2, <2>2, RestShape DEF StartBuild
    <3>2. build' # Absent
      BY <3>1, IndexAssumption DEF IndexTypeOK
    <3>3. Writing(1)'
      BY <2>1, <3>1, <3>2 DEF Writing, Rest
    <3>4. left' \in {SubSeq(OutputFiles, j, 3) : j \in 1 .. 4}
      BY <3>1 DEF Rest
    <3>5. IndexTypeOK'
      BY <2>1, <2>2, <3>1, <3>4 DEF IndexTypeOK
    <3>. QED
      BY <2>1, <3>3, <3>5
  <2>3. CASE generation \notin Buildable
    <3>1. UNCHANGED <<build, left>>
      BY <1>2, <2>3 DEF StartBuild
    <3>2. Writing(i)'
      BY <1>2, <2>1, <3>1 DEF Writing, StartBuild, Rest
    <3>. QED
      BY <2>1, <3>1, <3>2 DEF IndexTypeOK
  <2>. QED
    BY <2>2, <2>3
<1>3. ASSUME left # <<>>
      PROVE  /\ i \in 1 .. 3 /\ Head(left) = OutputFiles[i] /\ Head(left) \in Outputs
             /\ build \in Buildable /\ build # Absent /\ ~whole
             /\ \A j \in 1 .. (i - 1) : files[OutputFiles[j]] = build
             /\ \A j \in 1 .. (i - 1) : OutputFiles[j] # OutputFiles[i]
  <2>1. i \in 1 .. 3
    BY <1>3, RestShape DEF Writing
  <2>2. OutputFiles[1] # OutputFiles[2] /\ OutputFiles[1] # OutputFiles[3]
        /\ OutputFiles[2] # OutputFiles[3]
    BY DEF OutputFiles
  <2>. QED
    BY <2>1, <2>2, RestShape, OutputNames DEF Writing, IndexTypeOK
<1>4. CASE OpenFile
  <2>1. left # <<>> /\ files' = [files EXCEPT ![OutputFiles[i]] = Torn]
        /\ UNCHANGED <<generation, build, left, whole, builds>>
    BY <1>3, <1>4 DEF OpenFile
  <2>2. files' \in [Outputs -> {Absent, Torn} \cup Buildable]
    BY <1>3, <2>1 DEF IndexTypeOK
  <2>3. IndexTypeOK'
    BY <2>1, <2>2 DEF IndexTypeOK
  <2>4. \A j \in 1 .. (i - 1) : files'[OutputFiles[j]] = build
    <3>1. ASSUME NEW j \in 1 .. (i - 1) PROVE OutputFiles[j] \in Outputs
      BY <1>3, <2>1, OutputNames
    <3>. QED
      BY <1>3, <2>1, <3>1 DEF IndexTypeOK
  <2>5. Writing(i)'
    BY <2>1, <2>4 DEF Writing, Rest
  <2>. QED
    BY <1>3, <2>1, <2>3, <2>5
<1>5. CASE WriteFile
  <2>1. /\ left # <<>> /\ files' = [files EXCEPT ![OutputFiles[i]] = build]
        /\ left' = Rest(i + 1) /\ UNCHANGED <<generation, builds>>
        /\ build' = IF left' = <<>> THEN Absent ELSE build
        /\ whole' \in BOOLEAN /\ (whole' <=> left' = <<>>)
    BY <1>3, <1>5, RestShape DEF WriteFile, Writing
  <2>2. files' \in [Outputs -> {Absent, Torn} \cup Buildable]
    BY <1>3, <2>1 DEF IndexTypeOK
  <2>3. \A j \in 1 .. i : OutputFiles[j] \in Outputs /\ files'[OutputFiles[j]] = build
    <3>1. ASSUME NEW j \in 1 .. i PROVE OutputFiles[j] \in Outputs
      BY <1>3, <2>1, OutputNames
    <3>2. files'[OutputFiles[i]] = build
      BY <1>3, <2>1 DEF IndexTypeOK
    <3>3. ASSUME NEW j \in 1 .. (i - 1) PROVE files'[OutputFiles[j]] = build
      BY <1>3, <2>1, <3>1 DEF IndexTypeOK
    <3>. QED
      BY <3>1, <3>2, <3>3
  <2>4. left' = <<>> <=> i + 1 = 4
    BY <1>3, <2>1, RestShape
  <2>5. i + 1 \in 1 .. 4
    BY <1>3, <2>1
  <2>6. Writing(i + 1)'
    <3>1. build' = Absent <=> i + 1 = 4
      BY <1>3, <2>1, <2>4
    <3>2. build' # Absent => ~whole' /\ build' = build
      BY <2>1
    <3>3. \A j \in 1 .. (i + 1 - 1) : files'[OutputFiles[j]] = build
      BY <2>3
    <3>. QED
      BY <2>1, <3>1, <3>2, <3>3 DEF Writing
  <2>7. whole' => OfOneState'
    <3>. SUFFICES ASSUME whole' PROVE OfOneState'
      OBVIOUS
    <3>1. i = 3
      BY <1>3, <2>1, <2>4
    <3>2. \A f \in Outputs : \E j \in 1 .. 3 : f = OutputFiles[j]
      BY DEF Outputs, OutputFiles
    <3>3. \A f \in Outputs : files'[f] = build
      BY <2>3, <3>1, <3>2
    <3>. QED
      BY <1>3, <2>1, <3>3 DEF OfOneState, Buildable
  <2>8. IndexTypeOK'
    <3>1. left' \in {SubSeq(OutputFiles, j, 3) : j \in 1 .. 4}
      BY <2>1, <2>5 DEF Rest
    <3>. QED
      BY <2>1, <2>2, <3>1, <1>3 DEF IndexTypeOK
  <2>. QED
    BY <2>5, <2>6, <2>7, <2>8
<1>6. CASE BuilderKilled
  <2>1. /\ build # Absent /\ build' = Absent /\ left' = Rest(4)
        /\ UNCHANGED <<generation, files, whole, builds>>
    BY <1>6, RestShape DEF BuilderKilled
  <2>2. ~whole
    BY <2>1 DEF Writing
  <2>3. left' \in {SubSeq(OutputFiles, j, 3) : j \in 1 .. 4}
    BY <2>1 DEF Rest
  <2>4. IndexTypeOK'
    BY <2>1, <2>3 DEF IndexTypeOK
  <2>5. Writing(4)'
    BY <2>1 DEF Writing, Rest
  <2>. QED
    BY <2>1, <2>2, <2>4, <2>5
<1>. QED
  BY <1>1, <1>2, <1>4, <1>5, <1>6 DEF IndexNext

-----------------------------------------------------------------------------
(* A build agrees with itself, whatever the artifacts say. *)

LEMMA ContentOf ==
  ASSUME NEW g \in Buildable
  PROVE  LET index == IndexOf(Repositories[g])
         IN /\ Content("metadata-index", g) = index
            /\ Content("lineage-graph", g) = GraphOf(index)
            /\ Content("index-summary", g) = SummaryOf(index, GraphOf(index))
<1>. DEFINE r == Repositories[g]
<1>1. Builds[g] = BuildResult(r)
  BY DEF Builds, Buildable
<1>. HIDE DEF r
<1>2. /\ BuildResult(r)["metadata-index"] = IndexOf(r)
      /\ BuildResult(r)["lineage-graph"] = GraphOf(IndexOf(r))
      /\ BuildResult(r)["index-summary"] = SummaryOf(IndexOf(r), GraphOf(IndexOf(r)))
  BY OutputNames DEF BuildResult
<1>. QED
  BY <1>1, <1>2 DEF Content, r

LEMMA EdgesInside ==
  ASSUME NEW r
  PROVE  /\ DOMAIN IndexOf(r).assets = AssetIds(r)
         /\ GraphOf(IndexOf(r)).nodes = AssetIds(r)
         /\ \A e \in GraphOf(IndexOf(r)).edges : {e[1], e[2]} \subseteq AssetIds(r)
<1>1. IndexOf(r).assets = [a \in AssetIds(r) |-> AssetOf(r, a)]
  BY DEF IndexOf
<1>2. DOMAIN IndexOf(r).assets = AssetIds(r)
  BY <1>1
<1>3. \A a \in AssetIds(r) : IndexOf(r).assets[a].upstream \subseteq AssetIds(r)
  BY <1>1 DEF AssetOf, Upstream
<1>. DEFINE index == IndexOf(r)
<1>4. /\ GraphOf(index).nodes = DOMAIN index.assets
      /\ GraphOf(index).edges = UNION {{<<u, a>> : u \in index.assets[a].upstream} : a \in DOMAIN index.assets}
  BY DEF GraphOf
<1>. HIDE DEF index
<1>5. ASSUME NEW e \in GraphOf(index).edges PROVE {e[1], e[2]} \subseteq AssetIds(r)
  <2>1. PICK a \in DOMAIN index.assets : e \in {<<u, a>> : u \in index.assets[a].upstream}
    BY <1>4
  <2>2. PICK u \in index.assets[a].upstream : e = <<u, a>>
    BY <2>1
  <2>. QED
    BY <1>2, <1>3, <2>2 DEF index
<1>. QED
  BY <1>2, <1>4, <1>5 DEF index

LEMMA OneStateValidates == IndexInv => FinishedBuildValidates
<1>. SUFFICES ASSUME IndexInv, whole PROVE ValidBuild(files)
  BY DEF FinishedBuildValidates
<1>1. PICK g \in Buildable : \A f \in Outputs : files[f] = g
  BY DEF IndexInv, OfOneState
<1>2. g # Absent /\ g # Torn
  BY IndexAssumption DEF Buildable
<1>. DEFINE index == IndexOf(Repositories[g])
<1>3. /\ Content("metadata-index", files["metadata-index"]) = index
      /\ Content("lineage-graph", files["lineage-graph"]) = GraphOf(index)
      /\ Content("index-summary", files["index-summary"]) = SummaryOf(index, GraphOf(index))
  BY <1>1, ContentOf, OutputNames
<1>4. /\ GraphOf(index).nodes = DOMAIN index.assets
      /\ \A e \in GraphOf(index).edges : {e[1], e[2]} \subseteq DOMAIN index.assets
  BY EdgesInside
<1>5. LET summary == SummaryOf(index, GraphOf(index))
      IN /\ summary.assets = Cardinality(DOMAIN index.assets)
         /\ summary.edges = Cardinality(GraphOf(index).edges)
  BY DEF SummaryOf
<1>6. \A f \in Outputs : files[f] \notin {Absent, Torn}
  BY <1>1, <1>2
<1>. HIDE DEF index
<1>. QED
  BY <1>3, <1>4, <1>5, <1>6 DEF ValidBuild

-----------------------------------------------------------------------------
(* Requests and answers. *)

SearchFor(a) == Question("search_data_assets", IF a.asset # Absent THEN a.asset ELSE a.pipeline, 0)
FailuresOf(a) == Question(FailuresTool, IF a.pipeline # Absent THEN a.pipeline ELSE KnownPipeline, 0)
LagOfOrders == Question("get_consumer_lag", OrderGroup, 0)

LEMMA QuestionsShape ==
  ASSUME NEW a
  PROVE  /\ Questions(a) \in Seq(Asks(a))
         /\ \A i \in DOMAIN Questions(a) : \E t, s, d : Questions(a)[i] = Question(t, s, d)
         /\ \A i, j \in DOMAIN Questions(a) : Questions(a)[i].tool = Questions(a)[j].tool => i = j
         /\ \A i \in DOMAIN Questions(a) : Questions(a)[i].tool \notin HandshakeTools
         /\ \E i \in DOMAIN Questions(a) : Questions(a)[i].tool = FailuresTool
<1>. DEFINE Q == Questions(a)
            A == Asks(a)
<1>1. \A t, s, d : Question(t, s, d).tool = t
  BY DEF Question
<1>2. ASSUME NEW n \in Nat, Q \in [1 .. n -> A]
      PROVE  Q \in Seq(A)
  <2>. HIDE DEF Q, A
  <2>. QED
    BY <1>2, SeqDef
<1>3. CASE a.asset = Absent
  <2>1. Q = <<SearchFor(a), FailuresOf(a), LagOfOrders>>
    BY <1>3 DEF Questions, SearchFor, FailuresOf, LagOfOrders, FailuresTool
  <2>2. /\ DOMAIN Q = 1 .. 3
        /\ Q[1] = SearchFor(a) /\ Q[2] = FailuresOf(a) /\ Q[3] = LagOfOrders
    <3>. HIDE DEF Q
    <3>. QED
      BY <2>1
  <2>3. 1 .. 3 = {1, 2, 3}
    OBVIOUS
  <2>4. Q \in [1 .. 3 -> A]
    <3>1. \A i \in DOMAIN Q : Q[i] \in A
      BY DEF Asks
    <3>2. Q = [i \in 1 .. 3 |-> Q[i]]
      <4>. HIDE DEF Q
      <4>. QED
        BY <2>1
    <3>. HIDE DEF Q, A
    <3>. QED
      BY <2>2, <3>1, <3>2
  <2>. HIDE DEF Q
  <2>5. \A i \in DOMAIN Q : \E t, s, d : Q[i] = Question(t, s, d)
    BY <2>2, <2>3 DEF SearchFor, FailuresOf, LagOfOrders
  <2>6. \A i, j \in DOMAIN Q : Q[i].tool = Q[j].tool => i = j
    BY <1>1, <2>2, <2>3 DEF SearchFor, FailuresOf, LagOfOrders, FailuresTool
  <2>7. \A i \in DOMAIN Q : Q[i].tool \notin HandshakeTools
    BY <1>1, <2>2, <2>3 DEF SearchFor, FailuresOf, LagOfOrders, FailuresTool, HandshakeTools
  <2>8. 2 \in DOMAIN Q /\ Q[2].tool = FailuresTool
    BY <1>1, <2>2, <2>3 DEF FailuresOf
  <2>9. Q \in Seq(A)
    BY <1>2, <2>4
  <2>. QED
    BY <2>5, <2>6, <2>7, <2>8, <2>9 DEF Q
<1>4. CASE a.asset # Absent
  <2>. DEFINE About(t, d) == Question(t, a.asset, d)
  <2>1. Q = <<SearchFor(a), About("get_model_owner", 0), About("get_quality_status", 0),
              About("get_upstream_lineage", LineageDepth),
              About("get_downstream_impact", LineageDepth),
              FailuresOf(a), LagOfOrders, About("get_cost_estimate", 0)>>
    BY <1>4 DEF Questions, SearchFor, FailuresOf, LagOfOrders, FailuresTool
  <2>2. /\ DOMAIN Q = 1 .. 8
        /\ Q[1] = SearchFor(a) /\ Q[2] = About("get_model_owner", 0)
        /\ Q[3] = About("get_quality_status", 0)
        /\ Q[4] = About("get_upstream_lineage", LineageDepth)
        /\ Q[5] = About("get_downstream_impact", LineageDepth)
        /\ Q[6] = FailuresOf(a) /\ Q[7] = LagOfOrders /\ Q[8] = About("get_cost_estimate", 0)
    <3>. HIDE DEF Q
    <3>. QED
      BY <2>1
  <2>3. 1 .. 8 = {1, 2, 3, 4, 5, 6, 7, 8}
    OBVIOUS
  <2>4. Q \in [1 .. 8 -> A]
    <3>1. \A i \in DOMAIN Q : Q[i] \in A
      BY DEF Asks
    <3>2. Q = [i \in 1 .. 8 |-> Q[i]]
      <4>. HIDE DEF Q
      <4>. QED
        BY <2>1
    <3>. HIDE DEF Q, A
    <3>. QED
      BY <2>2, <3>1, <3>2
  <2>. HIDE DEF Q
  <2>5. \A i \in DOMAIN Q : \E t, s, d : Q[i] = Question(t, s, d)
    BY <2>2, <2>3 DEF SearchFor, FailuresOf, LagOfOrders
  <2>6. \A i, j \in DOMAIN Q : Q[i].tool = Q[j].tool => i = j
    BY <1>1, <2>2, <2>3 DEF SearchFor, FailuresOf, LagOfOrders, FailuresTool
  <2>7. \A i \in DOMAIN Q : Q[i].tool \notin HandshakeTools
    BY <1>1, <2>2, <2>3 DEF SearchFor, FailuresOf, LagOfOrders, FailuresTool, HandshakeTools
  <2>8. 6 \in DOMAIN Q /\ Q[6].tool = FailuresTool
    BY <1>1, <2>2, <2>3 DEF FailuresOf
  <2>9. Q \in Seq(A)
    BY <1>2, <2>4
  <2>. QED
    BY <2>5, <2>6, <2>7, <2>8, <2>9 DEF Q
<1>. QED
  BY <1>3, <1>4

LEMMA SentShape ==
  ASSUME NEW a, NEW q \in Sent(a)
  PROVE  \E t, s, d : q = Question(t, s, d)
<1>1. CASE q \in Asks(a)
  <2>1. PICK i \in DOMAIN Questions(a) : q = Questions(a)[i]
    BY <1>1 DEF Asks
  <2>. QED
    BY <2>1, QuestionsShape
<1>2. CASE \E t \in HandshakeTools : q = Question(t, "", 0)
  BY <1>2
<1>. QED
  BY <1>1, <1>2 DEF Sent

LEMMA RequestShape ==
  ASSUME NEW a, NEW q \in Requests(a)
  PROVE  q.id \in Nat
<1>1. PICK p \in Sent(a), n \in Nat : q = [p EXCEPT !.id = n]
  BY DEF Requests
<1>2. PICK t, s, d : p = Question(t, s, d)
  BY SentShape
<1>. QED
  BY <1>1, <1>2 DEF Question

LEMMA LineShape ==
  ASSUME NEW a, NEW l \in Lines(a)
  PROVE  /\ l.to \in Requests(a) /\ l.id = l.to.id /\ l.id \in Nat
         /\ l.answer \in Answers(l.to)
<1>1. PICK q \in Requests(a) : l \in {[id |-> q.id, to |-> q, answer |-> s] : s \in Answers(q)}
  BY DEF Lines
<1>2. PICK s \in Answers(q) : l = [id |-> q.id, to |-> q, answer |-> s]
  BY <1>1
<1>. QED
  BY <1>2, RequestShape

LEMMA LineIntro ==
  ASSUME NEW a, NEW q \in Requests(a), NEW s \in Answers(q)
  PROVE  [id |-> q.id, to |-> q, answer |-> s] \in Lines(a)
BY DEF Lines

LEMMA TransportUnchanged ==
  TransportInv /\ UNCHANGED transport /\ alert' = alert => TransportInv'
BY DEF TransportInv, TransportTypeOK, transport

\* Steps that leave the pipes and the wait alone.
LEMMA PipesAlone ==
  ASSUME TransportInv, alert' = alert, UNCHANGED <<toServer, pipe, buffer, nextId, waiting>>,
         server' \in {"absent", "loading", "serving", "stuck", "dead"},
         crashed' \in BOOLEAN, faults' \in 0 .. MaxFaults,
         server' = "serving" => served' \in Buildable
  PROVE  TransportInv'
BY DEF TransportInv, TransportTypeOK

LEMMA FaultBound ==
  ASSUME TransportInv, Fault \/ UNCHANGED faults
  PROVE  faults' \in 0 .. MaxFaults
BY TransportAssumption DEF TransportInv, TransportTypeOK, Fault

\* An answer carries its request: if it has the id waited for, it is to what
\* is waited for.
LEMMA ReplyStep ==
  ASSUME TransportInv, alert' = alert, NEW answer \in Answers(Head(toServer)), Reply(answer),
         faults' \in 0 .. MaxFaults
  PROVE  TransportInv'
<1>. DEFINE request == Head(toServer)
            l == [id |-> request.id, to |-> request, answer |-> answer]
            R == Requests(alert)
            L == Lines(alert)
<1>1. /\ toServer \in Seq(R) /\ toServer # <<>> /\ pipe \in Seq(L) /\ buffer \in Seq(L)
      /\ nextId \in Nat
  BY DEF TransportInv, TransportTypeOK, Reply
<1>2. request \in R /\ request = toServer[1] /\ 1 \in DOMAIN toServer
  <2>. HIDE DEF R, L
  <2>. QED
    BY <1>1
<1>3. l \in L /\ l.id = request.id /\ l.to = request
  BY <1>2, LineIntro
<1>4. /\ toServer' = Tail(toServer) /\ pipe' = Append(pipe, l)
      /\ UNCHANGED <<server, crashed, served, buffer, nextId, waiting>>
  BY DEF Reply
<1>. HIDE DEF request, l, R, L
<1>5. toServer' \in Seq(R) /\ \A i \in DOMAIN toServer' : i + 1 \in DOMAIN toServer
                                                            /\ toServer'[i] = toServer[i + 1]
  BY <1>1, <1>4
<1>6. pipe' \in Seq(L) /\ \A i \in DOMAIN pipe' : (i \in DOMAIN pipe /\ pipe'[i] = pipe[i])
                                                   \/ pipe'[i] = l
  BY <1>1, <1>3, <1>4
<1>7. /\ \A i \in DOMAIN toServer' : toServer'[i].id < nextId
      /\ \A i \in DOMAIN buffer' : buffer'[i].id < nextId
      /\ \A i \in DOMAIN pipe' : pipe'[i].id < nextId
  <2>1. /\ \A i \in DOMAIN toServer : toServer[i].id < nextId
        /\ \A i \in DOMAIN buffer : buffer[i].id < nextId
        /\ \A i \in DOMAIN pipe : pipe[i].id < nextId
    BY DEF TransportInv, TransportTypeOK
  <2>. QED
    BY <1>2, <1>3, <1>4, <1>5, <1>6, <2>1
<1>8. ASSUME waiting' # Absent
      PROVE  /\ \A i \in DOMAIN toServer' : toServer'[i].id = waiting'.id => toServer'[i] = waiting'
             /\ \A i \in DOMAIN buffer' : buffer'[i].id = waiting'.id => buffer'[i].to = waiting'
             /\ \A i \in DOMAIN pipe' : pipe'[i].id = waiting'.id => pipe'[i].to = waiting'
  <2>1. /\ \A i \in DOMAIN toServer : toServer[i].id = waiting.id => toServer[i] = waiting
        /\ \A i \in DOMAIN buffer : buffer[i].id = waiting.id => buffer[i].to = waiting
        /\ \A i \in DOMAIN pipe : pipe[i].id = waiting.id => pipe[i].to = waiting
    BY <1>4, <1>8 DEF TransportInv
  <2>. QED
    BY <1>2, <1>3, <1>4, <1>5, <1>6, <2>1
<1>9. TransportTypeOK'
  BY <1>4, <1>7 DEF TransportInv, TransportTypeOK
<1>. QED
  BY <1>4, <1>5, <1>6, <1>8, <1>9 DEF TransportInv, R, L

LEMMA ServerStep ==
  ASSUME IndexInv, TransportInv, alert' = alert,
         Load \/ Serve \/ ServeError \/ ServerCrashes \/ ServerStuck
  PROVE  TransportInv'
<1>1. CASE Load
  <2>1. files["metadata-index"] \notin {Absent, Torn} => files["metadata-index"] \in Buildable
    BY OutputNames DEF IndexInv, IndexTypeOK
  <2>2. crashed' \in BOOLEAN
    BY <1>1 DEF Load, TransportInv, TransportTypeOK
  <2>3. /\ server' \in {"serving", "dead"} /\ (server' = "serving" => served' \in Buildable)
        /\ UNCHANGED <<toServer, pipe, buffer, nextId, waiting, faults>>
    BY <1>1, <2>1 DEF Load
  <2>. QED
    BY <2>2, <2>3, PipesAlone, FaultBound
<1>2. CASE Serve
  <2>. DEFINE request == Head(toServer)
              answer == IF request.tool \in {"initialize", "tools/list"} THEN HandshakeAnswer
                        ELSE Answer(Content("metadata-index", served), repo, request)
  <2>1. Reply(answer) /\ UNCHANGED faults /\ server = "serving"
    BY <1>2 DEF Serve
  <2>2. served \in Buildable /\ generation \in DOMAIN Repositories
    BY <2>1, IndexAssumption DEF TransportInv, IndexInv, IndexTypeOK
  <2>3. answer \in Answers(request)
    BY <2>2 DEF Answers, repo, HandshakeTools
  <2>. QED
    BY <2>1, <2>3, ReplyStep, FaultBound
<1>3. CASE ServeError
  <2>1. Reply(Error) /\ Fault /\ Error \in Answers(Head(toServer))
    BY <1>3 DEF ServeError, Answers, HandshakeTools
  <2>. QED
    BY <2>1, ReplyStep, FaultBound
<1>4. CASE ServerCrashes
  BY <1>4, PipesAlone, FaultBound DEF ServerCrashes
<1>5. CASE ServerStuck
  BY <1>5, PipesAlone, FaultBound DEF ServerStuck, TransportInv, TransportTypeOK
<1>. QED
  BY <1>1, <1>2, <1>3, <1>4, <1>5

\* The id of a new request is above all those in the pipes.
LEMMA SendStep ==
  ASSUME TransportInv, alert' = alert, NEW q \in Sent(alert), SendRequest(q)
  PROVE  /\ TransportInv'
         /\ waiting'.id = nextId /\ waiting' = [q EXCEPT !.id = nextId]
<1>. DEFINE r == [q EXCEPT !.id = nextId]
            R == Requests(alert)
            L == Lines(alert)
<1>1. /\ toServer \in Seq(R) /\ pipe \in Seq(L) /\ buffer \in Seq(L) /\ nextId \in Nat
  BY DEF TransportInv, TransportTypeOK
<1>2. r \in R
  BY <1>1, SMTT(30) DEF Requests
<1>3. r.id = nextId
  BY SentShape DEF Question
<1>4. /\ toServer' = Append(toServer, r) /\ waiting' = r /\ nextId' = nextId + 1
      /\ UNCHANGED <<server, crashed, served, pipe, buffer, faults>>
  BY DEF SendRequest
<1>. HIDE DEF r, R, L
<1>5. toServer' \in Seq(R) /\ \A i \in DOMAIN toServer' : (i \in DOMAIN toServer /\ toServer'[i] = toServer[i])
                                                           \/ toServer'[i] = r
  BY <1>1, <1>2, <1>4
<1>6. /\ \A i \in DOMAIN toServer : toServer[i].id < nextId /\ toServer[i].id \in Nat
      /\ \A i \in DOMAIN buffer : buffer[i].id < nextId /\ buffer[i].id \in Nat
      /\ \A i \in DOMAIN pipe : pipe[i].id < nextId /\ pipe[i].id \in Nat
  <2>1. \A i \in DOMAIN toServer : toServer[i].id \in Nat
    BY <1>1, RequestShape DEF R
  <2>2. /\ \A i \in DOMAIN buffer : buffer[i] \in L
        /\ \A i \in DOMAIN pipe : pipe[i] \in L
    BY <1>1
  <2>3. \A l \in L : l.id \in Nat
    BY LineShape DEF L
  <2>4. /\ \A i \in DOMAIN toServer : toServer[i].id < nextId
        /\ \A i \in DOMAIN buffer : buffer[i].id < nextId
        /\ \A i \in DOMAIN pipe : pipe[i].id < nextId
    BY DEF TransportInv, TransportTypeOK
  <2>. QED
    BY <2>1, <2>2, <2>3, <2>4
<1>7. /\ \A i \in DOMAIN toServer' : toServer'[i].id < nextId'
                                        /\ (toServer'[i].id = waiting'.id => toServer'[i] = waiting')
      /\ \A i \in DOMAIN buffer' : buffer'[i].id < nextId' /\ buffer'[i].id # waiting'.id
      /\ \A i \in DOMAIN pipe' : pipe'[i].id < nextId' /\ pipe'[i].id # waiting'.id
  BY <1>1, <1>3, <1>4, <1>5, <1>6
<1>8. TransportTypeOK'
  <2>1. nextId' \in Nat /\ waiting'.id = nextId' - 1
    BY <1>1, <1>3, <1>4
  <2>. QED
    BY <1>4, <1>7, <2>1 DEF TransportInv, TransportTypeOK
<1>9. TransportInv'
  BY <1>1, <1>4, <1>5, <1>7, <1>8 DEF TransportInv, R, L
<1>. QED
  BY <1>3, <1>4, <1>9 DEF r

LEMMA TakeStep ==
  ASSUME TransportInv, alert' = alert, ReadLine
  PROVE  TransportInv' /\ server' = server /\ crashed' = crashed /\ waiting' = Absent
<1>. DEFINE L == Lines(alert)
<1>1. /\ pipe \in Seq(L) /\ buffer \in Seq(L)
      /\ \A i \in DOMAIN buffer : buffer[i].id < nextId
      /\ \A i \in DOMAIN pipe : pipe[i].id < nextId
  BY DEF TransportInv, TransportTypeOK
<1>2. /\ TakeLine /\ waiting' = Absent
      /\ UNCHANGED <<server, crashed, served, toServer, nextId, faults>>
  BY DEF ReadLine
<1>. HIDE DEF L
<1>3. /\ pipe' \in Seq(L) /\ buffer' \in Seq(L)
      /\ \A i \in DOMAIN buffer' : buffer'[i].id < nextId
      /\ \A i \in DOMAIN pipe' : pipe'[i].id < nextId
  <2>1. CASE buffer # <<>>
    <3>1. buffer' = Tail(buffer) /\ UNCHANGED <<pipe, nextId>>
      BY <1>2, <2>1 DEF TakeLine
    <3>2. buffer' \in Seq(L) /\ \A i \in DOMAIN buffer' : i + 1 \in DOMAIN buffer
                                                            /\ buffer'[i] = buffer[i + 1]
      BY <1>1, <2>1, <3>1
    <3>. QED
      BY <1>1, <3>1, <3>2
  <2>2. CASE buffer = <<>> /\ pipe # <<>>
    BY <1>1, <1>2, <2>2 DEF TakeLine
  <2>3. CASE buffer = <<>> /\ pipe = <<>>
    BY <1>1, <1>2, <2>3 DEF TakeLine
  <2>. QED
    BY <2>1, <2>2, <2>3
<1>4. TransportTypeOK'
  BY <1>2, <1>3 DEF TransportInv, TransportTypeOK
<1>. QED
  BY <1>2, <1>3, <1>4 DEF TransportInv, L

LEMMA TimeoutStep ==
  ASSUME TransportInv, alert' = alert, SelectTimeout
  PROVE  TransportInv' /\ server' = server /\ crashed' = crashed /\ waiting' = Absent
<1>1. faults' \in 0 .. MaxFaults
  BY FaultBound DEF SelectTimeout
<1>. QED
  BY <1>1 DEF SelectTimeout, TransportInv, TransportTypeOK

\* The line that matches is an answer to what is waited for.
LEMMA MatchingLine ==
  ASSUME TransportInv, waiting # Absent, Matches
  PROVE  Line \in Lines(alert) /\ Line.to = waiting
<1>1. /\ pipe \in Seq(Lines(alert)) /\ buffer \in Seq(Lines(alert))
      /\ \A i \in DOMAIN buffer : buffer[i].id = waiting.id => buffer[i].to = waiting
      /\ \A i \in DOMAIN pipe : pipe[i].id = waiting.id => pipe[i].to = waiting
  BY DEF TransportInv
<1>2. CASE buffer # <<>>
  <2>1. Line = buffer[1] /\ 1 \in DOMAIN buffer /\ Line \in Lines(alert)
    BY <1>1, <1>2 DEF Line
  <2>. QED
    BY <1>1, <2>1 DEF Matches
<1>3. CASE buffer = <<>>
  <2>1. Line = pipe[1] /\ 1 \in DOMAIN pipe /\ Line \in Lines(alert)
    BY <1>1, <1>3 DEF Line, Matches, EndOfFile
  <2>. QED
    BY <1>1, <2>1 DEF Matches
<1>. QED
  BY <1>2, <1>3

-----------------------------------------------------------------------------
(* The session. *)

LEMMA FailuresNeverOk ==
  ASSUME NEW q, q.tool = FailuresTool, NEW s \in Answers(q)
  PROVE  s.status \in {"error", "not_found", "partial", "not_available"}
<1>1. CASE s = Error
  BY <1>1 DEF Error, Response
<1>2. CASE \E g \in Buildable, h \in DOMAIN Repositories :
             s = Answer(Content("metadata-index", g), Repositories[h], q)
  <2>1. PICK g \in Buildable, h \in DOMAIN Repositories :
               s = Answer(Content("metadata-index", g), Repositories[h], q)
    BY <1>2
  <2>2. s = Failures(Repositories[h], q.subject)
    BY <2>1 DEF Answer, FailuresTool
  <2>. QED
    BY <2>2 DEF Failures, Error, Response
<1>. QED
  BY <1>1, <1>2 DEF Answers, FailuresTool, HandshakeTools

LEMMA SessionAlone ==
  ASSUME SessionType, CallsInv, ResponsesInv, UNCHANGED <<alert, calls, responses, errors>>,
         raised' \in BOOLEAN,
         pc' \in {"spawn", "initialize", "tools/list", "collect", "exit", "failed", "written"}
  PROVE  SessionType' /\ CallsInv' /\ ResponsesInv'
BY DEF SessionType, CallsInv, ResponsesInv, Asked

\* The session at rest, while the server or the builder takes a step.
LEMMA SessionWatches ==
  ASSUME SessionInv, UNCHANGED session, waiting' = waiting,
         crashed' \in BOOLEAN, crashed => crashed',
         server' = "dead" => server = "dead" \/ crashed' \/ pc = "exit"
  PROVE  SessionInv'
<1>1. SessionType' /\ CallsInv' /\ ResponsesInv'
  BY SessionAlone DEF SessionInv, SessionType, session
<1>2. WaitingInv'
  BY DEF SessionInv, WaitingInv, session
<1>3. EndInv'
  BY DEF SessionInv, EndInv, CompletedOnlyOffIndex, session
<1>. QED
  BY <1>1, <1>2, <1>3 DEF SessionInv

\* A call that ends, in an answer or an error, takes its question out.
LEMMA CallEnds ==
  ASSUME SessionInv, pc = "collect", waiting # Absent, alert' = alert,
         calls' = Tail(calls), Asked' = Asked \cup {waiting.tool}
  PROVE  /\ CallsInv' /\ waiting.tool \notin Asked
         /\ [waiting EXCEPT !.id = 0] \in Asks(alert)
         /\ [waiting EXCEPT !.id = 0].tool = waiting.tool
<1>. DEFINE A == Asks(alert)
<1>1. /\ calls \in Seq(A) /\ calls # <<>> /\ waiting = [Head(calls) EXCEPT !.id = waiting.id]
      /\ \A i, j \in DOMAIN calls : calls[i].tool = calls[j].tool => i = j
      /\ \A i \in DOMAIN calls : calls[i].tool \notin Asked
      /\ FailuresTool \in Asked \/ \E i \in DOMAIN calls : calls[i].tool = FailuresTool
  BY DEF SessionInv, CallsInv, WaitingInv
<1>. HIDE DEF A
<1>2. Head(calls) = calls[1] /\ 1 \in DOMAIN calls /\ calls[1] \in A
  BY <1>1
<1>3. PICK t, s, d : calls[1] = Question(t, s, d)
  <2>1. calls[1] \in Sent(alert)
    BY <1>2 DEF A, Sent
  <2>. QED
    BY <2>1, SentShape
<1>4. /\ waiting.tool = calls[1].tool /\ [waiting EXCEPT !.id = 0] = calls[1]
  <2>1. waiting = [tool |-> t, subject |-> s, depth |-> d, id |-> waiting.id]
    BY <1>1, <1>2, <1>3 DEF Question
  <2>. QED
    BY <1>3, <2>1 DEF Question
<1>5. calls' \in Seq(A) /\ Len(calls') = Len(calls) - 1
      /\ \A i \in DOMAIN calls' : i + 1 \in DOMAIN calls /\ calls'[i] = calls[i + 1]
  BY <1>1
<1>6. \A i, j \in DOMAIN calls' : calls'[i].tool = calls'[j].tool => i = j
  BY <1>1, <1>5
<1>7. \A i \in DOMAIN calls' : calls'[i].tool \notin Asked'
  <2>. SUFFICES ASSUME NEW i \in DOMAIN calls' PROVE calls[i + 1].tool \notin Asked \cup {waiting.tool}
    BY <1>5
  <2>1. i + 1 # 1 /\ i + 1 \in DOMAIN calls
    BY <1>1, <1>5
  <2>. QED
    BY <1>1, <1>2, <1>4, <2>1
<1>8. FailuresTool \in Asked' \/ \E i \in DOMAIN calls' : calls'[i].tool = FailuresTool
  <2>1. CASE FailuresTool \in Asked
    BY <2>1
  <2>2. ASSUME NEW i \in DOMAIN calls, calls[i].tool = FailuresTool
        PROVE  FailuresTool \in Asked' \/ \E j \in DOMAIN calls' : calls'[j].tool = FailuresTool
    <3>1. CASE i = 1
      BY <1>4, <2>2, <3>1
    <3>2. CASE i # 1
      <4>1. i - 1 \in DOMAIN calls' /\ (i - 1) + 1 = i
        BY <1>1, <1>5, <2>2, <3>2
      <4>2. calls'[i - 1] = calls[i]
        BY <1>5, <4>1
      <4>. QED
        BY <2>2, <4>1, <4>2
    <3>. QED
      BY <3>1, <3>2
  <2>. QED
    BY <1>1, <2>1, <2>2
<1>9. CallsInv'
  BY <1>5, <1>6, <1>7, <1>8 DEF CallsInv, A
<1>. QED
  BY <1>1, <1>2, <1>4, <1>9 DEF A

-----------------------------------------------------------------------------
(* The initial states, and one lemma per action of the agent. *)

THEOREM InitEstablishes == Init => IndInv
<1>. SUFFICES ASSUME Init PROVE IndInv
  OBVIOUS
<1>1. IndexInv
  BY BuilderInit DEF Init
<1>2. TransportInv
  <2>1. TransportTypeOK
    <3>1. 0 \in 0 .. MaxFaults
      BY TransportAssumption
    <3>2. \A s \in {toServer, buffer, pipe} : \A i \in DOMAIN s : s[i].id < nextId
      <4>1. DOMAIN <<>> = {}
        OBVIOUS
      <4>2. toServer = <<>> /\ buffer = <<>> /\ pipe = <<>>
        BY DEF Init, TransportInit
      <4>. QED
        BY <4>1, <4>2
    <3>3. /\ server = "absent" /\ crashed = FALSE /\ nextId = 1 /\ faults = 0
          /\ waiting = Absent
      BY DEF Init, TransportInit
    <3>. QED
      BY <3>1, <3>2, <3>3 DEF TransportTypeOK
  <2>. QED
    BY <2>1 DEF Init, TransportInit, TransportInv
<1>3. DOMAIN responses = {} /\ errors = {} /\ Asked = {}
  BY DEF Init, None, Asked
<1>4. SessionType
  BY <1>3 DEF Init, SessionType
<1>5. CallsInv
  <2>1. calls = Questions(alert)
    BY DEF Init
  <2>. QED
    BY <1>3, <2>1, QuestionsShape DEF CallsInv
<1>6. WaitingInv /\ ResponsesInv /\ EndInv
  BY <1>3 DEF Init, TransportInit, WaitingInv, ResponsesInv, EndInv, CompletedOnlyOffIndex
<1>. QED
  BY <1>1, <1>2, <1>4, <1>5, <1>6 DEF IndInv, SessionInv

LEMMA StartKeeps == ASSUME IndInv, Start PROVE IndInv'
<1>1. /\ pc = "spawn" /\ pc' = "initialize" /\ server' = "loading"
      /\ UNCHANGED <<crashed, served, toServer, pipe, buffer, nextId, waiting, faults>>
      /\ UNCHANGED <<indexVars, alert, calls, responses, errors, history, raised, report>>
  BY DEF Start, Spawn
<1>2. IndexInv'
  BY <1>1, BuilderUnchanged DEF IndInv
<1>3. TransportInv'
  BY <1>1, PipesAlone, FaultBound DEF IndInv, TransportInv, TransportTypeOK
<1>4. SessionType' /\ CallsInv' /\ ResponsesInv'
  BY <1>1, SessionAlone DEF IndInv, SessionInv, SessionType
<1>5. WaitingInv' /\ EndInv'
  BY <1>1 DEF IndInv, SessionInv, WaitingInv, EndInv, CompletedOnlyOffIndex
<1>. QED
  BY <1>2, <1>3, <1>4, <1>5 DEF IndInv, SessionInv

LEMMA HandshakeKeeps == ASSUME IndInv, Handshake PROVE IndInv'
<1>1. /\ pc \in HandshakeTools /\ SendRequest(Question(pc, "", 0))
      /\ UNCHANGED <<indexVars, session>> /\ alert' = alert
  BY DEF Handshake, Handshaking, HandshakeTools, session
<1>2. IndexInv'
  BY <1>1, BuilderUnchanged DEF IndInv
<1>3. Question(pc, "", 0) \in Sent(alert)
  BY <1>1 DEF Sent
<1>4. TransportInv'
  BY <1>1, <1>3, SendStep DEF IndInv
<1>5. SessionType' /\ CallsInv' /\ ResponsesInv'
  BY <1>1, SessionAlone DEF IndInv, SessionInv, SessionType, session
<1>6. WaitingInv'
  BY <1>1 DEF WaitingInv, HandshakeTools, session
<1>7. EndInv'
  BY <1>1 DEF IndInv, SessionInv, EndInv, CompletedOnlyOffIndex, session, SendRequest
<1>. QED
  BY <1>2, <1>4, <1>5, <1>6, <1>7 DEF IndInv, SessionInv

LEMMA HandshakeEndsKeeps == ASSUME IndInv, HandshakeEnds PROVE IndInv'
<1>1. /\ Handshaking
      /\ ReadLine \/ SelectTimeout
      /\ UNCHANGED <<indexVars, alert, calls, responses, errors, history, report>>
      /\ \/ pc' \in {"tools/list", "collect"} /\ raised' = raised
         \/ pc' = "exit" /\ raised' = TRUE
  BY DEF HandshakeEnds, Raise
<1>2. IndexInv'
  BY <1>1, BuilderUnchanged DEF IndInv
<1>3. TransportInv' /\ server' = server /\ crashed' = crashed /\ waiting' = Absent
  BY <1>1, TakeStep, TimeoutStep DEF IndInv
<1>4. SessionType' /\ CallsInv' /\ ResponsesInv'
  BY <1>1, SessionAlone DEF IndInv, SessionInv, SessionType
<1>5. WaitingInv'
  BY <1>3 DEF WaitingInv
<1>6. EndInv'
  BY <1>1, <1>3 DEF IndInv, SessionInv, EndInv, CompletedOnlyOffIndex, Handshaking
<1>. QED
  BY <1>2, <1>3, <1>4, <1>5, <1>6 DEF IndInv, SessionInv

LEMMA WriteFailsKeeps == ASSUME IndInv, WriteFails PROVE IndInv'
<1>1. /\ pc \in {"initialize", "tools/list", "collect"} /\ server = "dead"
      /\ pc' = "exit" /\ raised' = TRUE
      /\ UNCHANGED <<indexVars, transport, alert, calls, responses, errors, history, report>>
  BY DEF WriteFails, StdinBroken, Raise
<1>2. IndexInv' /\ TransportInv'
  BY <1>1, BuilderUnchanged, TransportUnchanged DEF IndInv
<1>3. SessionType' /\ CallsInv' /\ ResponsesInv'
  BY <1>1, SessionAlone DEF IndInv, SessionInv, SessionType
<1>4. WaitingInv'
  BY <1>1 DEF WaitingInv
<1>5. EndInv'
  BY <1>1 DEF IndInv, SessionInv, EndInv, CompletedOnlyOffIndex, transport
<1>. QED
  BY <1>2, <1>3, <1>4, <1>5 DEF IndInv, SessionInv

LEMMA AskKeeps == ASSUME IndInv, Ask PROVE IndInv'
<1>1. /\ pc = "collect" /\ calls # <<>> /\ SendRequest(Head(calls))
      /\ UNCHANGED <<indexVars, session>> /\ alert' = alert
  BY DEF Ask, session
<1>2. IndexInv'
  BY <1>1, BuilderUnchanged DEF IndInv
<1>3. Head(calls) \in Asks(alert)
  <2>. DEFINE A == Asks(alert)
  <2>1. calls \in Seq(A)
    BY DEF IndInv, SessionInv, CallsInv
  <2>. HIDE DEF A
  <2>2. Head(calls) \in A
    BY <1>1, <2>1
  <2>. QED
    BY <2>2 DEF A
<1>4. Head(calls) \in Sent(alert)
  BY <1>3 DEF Sent
<1>5. TransportInv' /\ waiting'.id = nextId /\ waiting' = [Head(calls) EXCEPT !.id = nextId]
  BY <1>1, <1>4, SendStep DEF IndInv
<1>6. SessionType' /\ CallsInv' /\ ResponsesInv'
  BY <1>1, SessionAlone DEF IndInv, SessionInv, SessionType, session
<1>7. WaitingInv'
  BY <1>1, <1>5 DEF WaitingInv, session
<1>8. EndInv'
  BY <1>1 DEF IndInv, SessionInv, EndInv, CompletedOnlyOffIndex, session, SendRequest
<1>. QED
  BY <1>2, <1>5, <1>6, <1>7, <1>8 DEF IndInv, SessionInv

LEMMA CollectKeeps ==
  ASSUME IndInv, pc = "collect", waiting # Absent, Collected(waiting.tool),
         ReadLine \/ SelectTimeout
  PROVE  /\ IndexInv' /\ TransportInv' /\ WaitingInv' /\ EndInv'
         /\ calls' = Tail(calls) /\ alert' = alert /\ pc' = pc /\ raised' = raised
<1>1. /\ UNCHANGED <<indexVars, alert, pc, raised, report>> /\ calls' = Tail(calls)
  BY DEF Collected
<1>2. IndexInv'
  BY <1>1, BuilderUnchanged DEF IndInv
<1>3. TransportInv' /\ server' = server /\ crashed' = crashed /\ waiting' = Absent
  BY <1>1, TakeStep, TimeoutStep DEF IndInv
<1>4. WaitingInv'
  BY <1>3 DEF WaitingInv
<1>5. EndInv'
  BY <1>1, <1>3 DEF IndInv, SessionInv, EndInv, CompletedOnlyOffIndex
<1>. QED
  BY <1>1, <1>2, <1>3, <1>4, <1>5

LEMMA AcceptKeeps == ASSUME IndInv, Accept PROVE IndInv'
<1>. DEFINE w == waiting.tool
            taken == [to |-> Line.to, answer |-> Line.answer]
<1>1. /\ pc = "collect" /\ ReadLine /\ Matches /\ waiting # Absent
      /\ responses' = [t \in DOMAIN responses \cup {w} |-> IF t = w THEN taken ELSE responses[t]]
      /\ errors' = errors /\ Collected(waiting.tool)
  BY DEF Accept, ReadLine
<1>2. Line \in Lines(alert) /\ Line.to = waiting
  BY <1>1, MatchingLine DEF IndInv
<1>3. /\ IndexInv' /\ TransportInv' /\ WaitingInv' /\ EndInv'
      /\ calls' = Tail(calls) /\ alert' = alert /\ pc' = pc /\ raised' = raised
  BY <1>1, CollectKeeps
<1>. HIDE DEF taken
<1>4. /\ DOMAIN responses' = DOMAIN responses \cup {w} /\ responses'[w] = taken
      /\ \A t \in DOMAIN responses \ {w} : responses'[t] = responses[t]
  BY <1>1
<1>5. Asked' = Asked \cup {w}
  BY <1>1, <1>4 DEF Asked
<1>6. /\ CallsInv' /\ w \notin Asked
      /\ [waiting EXCEPT !.id = 0] \in Asks(alert) /\ [waiting EXCEPT !.id = 0].tool = w
  BY <1>1, <1>3, <1>5, CallEnds DEF IndInv
<1>7. SessionType'
  <2>1. DOMAIN responses' \cap errors' = {}
    BY <1>1, <1>4, <1>6 DEF IndInv, SessionInv, SessionType, Asked
  <2>. QED
    BY <1>3, <2>1 DEF IndInv, SessionInv, SessionType
<1>8. ResponsesInv'
  <2>. SUFFICES ASSUME NEW t \in DOMAIN responses'
                PROVE  /\ \E q \in Asks(alert) : q.tool = t /\ [responses'[t].to EXCEPT !.id = 0] = q
                       /\ \E l \in Lines(alert) : /\ l.to.tool = t
                                                  /\ responses'[t] = [to |-> l.to, answer |-> l.answer]
    BY <1>3 DEF ResponsesInv
  <2>1. CASE t = w
    <3>1. responses'[t] = taken
      BY <1>4, <2>1
    <3>2. taken.to = waiting
      BY <1>2 DEF taken
    <3>3. Line.to.tool = t /\ responses'[t] = [to |-> Line.to, answer |-> Line.answer]
      BY <1>2, <2>1, <3>1 DEF taken
    <3>4. [responses'[t].to EXCEPT !.id = 0] \in Asks(alert)
          /\ [responses'[t].to EXCEPT !.id = 0].tool = t
      BY <1>6, <2>1, <3>1, <3>2
    <3>. QED
      BY <1>2, <3>3, <3>4
  <2>2. CASE t # w
    BY <1>4, <2>2 DEF IndInv, SessionInv, ResponsesInv
  <2>. QED
    BY <2>1, <2>2
<1>. QED
  BY <1>3, <1>6, <1>7, <1>8 DEF IndInv, SessionInv

LEMMA CallFailsKeeps == ASSUME IndInv, CallFails PROVE IndInv'
<1>. DEFINE w == waiting.tool
<1>1. /\ pc = "collect" /\ waiting # Absent
      /\ ReadLine \/ SelectTimeout
      /\ errors' = errors \cup {w} /\ responses' = responses /\ Collected(waiting.tool)
  BY DEF CallFails, ReadLine, SelectTimeout
<1>2. /\ IndexInv' /\ TransportInv' /\ WaitingInv' /\ EndInv'
      /\ calls' = Tail(calls) /\ alert' = alert /\ pc' = pc /\ raised' = raised
  BY <1>1, CollectKeeps
<1>3. Asked' = Asked \cup {w}
  BY <1>1 DEF Asked
<1>4. CallsInv' /\ w \notin Asked
  BY <1>1, <1>2, <1>3, CallEnds DEF IndInv
<1>5. SessionType'
  <2>1. DOMAIN responses' \cap errors' = {}
    BY <1>1, <1>4 DEF IndInv, SessionInv, SessionType, Asked
  <2>. QED
    BY <1>2, <2>1 DEF IndInv, SessionInv, SessionType
<1>6. ResponsesInv'
  BY <1>1, <1>2 DEF IndInv, SessionInv, ResponsesInv
<1>. QED
  BY <1>2, <1>4, <1>5, <1>6 DEF IndInv, SessionInv

\* All questions are asked, the one about failures too; its answer is never "ok".
LEMMA ReportedStatus ==
  ASSUME SessionInv, calls = <<>>, Report.status = "completed"
  PROVE  responses[FailuresTool].answer.status = "not_found"
<1>1. ~Degraded
  BY DEF Report
<1>2. FailuresTool \in Asked
  <2>1. DOMAIN <<>> = {}
    OBVIOUS
  <2>. QED
    BY <2>1 DEF SessionInv, CallsInv
<1>3. FailuresTool \notin errors /\ ~Incomplete(FailuresTool)
  BY <1>1, <1>2 DEF Degraded, FailuresTool
<1>4. FailuresTool \in DOMAIN responses
  BY <1>2, <1>3 DEF Asked
<1>5. PICK l \in Lines(alert) : /\ l.to.tool = FailuresTool
                                /\ responses[FailuresTool] = [to |-> l.to, answer |-> l.answer]
  BY <1>4 DEF SessionInv, ResponsesInv
<1>6. l.answer.status \in {"error", "not_found", "partial", "not_available"}
  BY <1>5, LineShape, FailuresNeverOk
<1>7. responses[FailuresTool].answer = l.answer
  BY <1>5
<1>8. StatusOf(FailuresTool) = l.answer.status
  BY <1>3, <1>7 DEF StatusOf
<1>. QED
  BY <1>3, <1>6, <1>7, <1>8 DEF Incomplete

LEMMA DiagnoseKeeps == ASSUME IndInv, Diagnose PROVE IndInv'
<1>1. /\ pc = "collect" /\ calls = <<>> /\ report' = Report /\ pc' = "exit"
      /\ UNCHANGED <<indexVars, transport, alert, calls, responses, errors, history, raised>>
  BY DEF Diagnose
<1>2. IndexInv' /\ TransportInv'
  BY <1>1, BuilderUnchanged, TransportUnchanged DEF IndInv
<1>3. SessionType' /\ CallsInv' /\ ResponsesInv'
  BY <1>1, SessionAlone DEF IndInv, SessionInv, SessionType
<1>4. WaitingInv'
  BY <1>1 DEF WaitingInv
<1>5. CompletedOnlyOffIndex'
  BY <1>1, ReportedStatus DEF IndInv, CompletedOnlyOffIndex, FailuresTool
<1>6. EndInv'
  BY <1>1, <1>5 DEF IndInv, SessionInv, EndInv, transport
<1>. QED
  BY <1>2, <1>3, <1>4, <1>6 DEF IndInv, SessionInv

LEMMA EndServerKeeps == ASSUME IndInv, EndServer PROVE IndInv'
<1>1. /\ pc = "exit" /\ server' = "dead" /\ UNCHANGED <<indexVars, session>> /\ alert' = alert
      /\ UNCHANGED <<crashed, served, toServer, pipe, buffer, nextId, waiting, faults>>
  BY DEF EndServer, ServerEnds, Signal, session
<1>2. IndexInv'
  BY <1>1, BuilderUnchanged DEF IndInv
<1>3. TransportInv'
  BY <1>1, PipesAlone, FaultBound DEF IndInv, TransportInv, TransportTypeOK
<1>4. SessionInv'
  BY <1>1, <1>3, SessionWatches DEF IndInv, TransportInv, TransportTypeOK
<1>. QED
  BY <1>2, <1>3, <1>4 DEF IndInv

LEMMA FinishKeeps == ASSUME IndInv, Finish PROVE IndInv'
<1>1. /\ pc = "exit" /\ pc' \in {"failed", "written"} /\ (pc' = "failed" => raised)
      /\ UNCHANGED <<indexVars, transport, alert, calls, responses, errors, history, raised, report>>
  BY DEF Finish
<1>2. IndexInv' /\ TransportInv'
  BY <1>1, BuilderUnchanged, TransportUnchanged DEF IndInv
<1>3. SessionType' /\ CallsInv' /\ ResponsesInv'
  BY <1>1, SessionAlone DEF IndInv, SessionInv, SessionType
<1>4. WaitingInv' /\ EndInv'
  BY <1>1 DEF IndInv, SessionInv, WaitingInv, EndInv, CompletedOnlyOffIndex, transport
<1>. QED
  BY <1>2, <1>3, <1>4 DEF IndInv, SessionInv

LEMMA ServerKeeps == ASSUME IndInv, Server PROVE IndInv'
<1>1. /\ Load \/ Serve \/ ServeError \/ ServerCrashes \/ ServerStuck
      /\ UNCHANGED <<indexVars, session>> /\ alert' = alert
  BY DEF Server, session
<1>2. IndexInv'
  BY <1>1, BuilderUnchanged DEF IndInv
<1>3. TransportInv'
  BY <1>1, ServerStep DEF IndInv
<1>4. waiting' = waiting /\ (crashed => crashed')
      /\ (server' = "dead" => server = "dead" \/ crashed')
  BY <1>1 DEF Load, Serve, ServeError, ServerCrashes, ServerStuck, Reply
<1>5. SessionInv'
  BY <1>1, <1>3, <1>4, SessionWatches DEF IndInv, TransportInv, TransportTypeOK
<1>. QED
  BY <1>2, <1>3, <1>5 DEF IndInv

LEMMA RebuildKeeps == ASSUME IndInv, Rebuild PROVE IndInv'
<1>1. IndexNext /\ UNCHANGED <<transport, session>> /\ alert' = alert
  BY DEF Rebuild, session
<1>2. IndexInv' /\ TransportInv'
  BY <1>1, BuilderStep, TransportUnchanged DEF IndInv
<1>3. SessionInv'
  BY <1>1, <1>2, SessionWatches DEF IndInv, TransportInv, TransportTypeOK, transport
<1>. QED
  BY <1>2, <1>3 DEF IndInv

LEMMA StutterKeeps == ASSUME IndInv, UNCHANGED vars PROVE IndInv'
<1>1. UNCHANGED <<indexVars, transport, session>> /\ alert' = alert
  BY DEF vars, session
<1>2. IndexInv' /\ TransportInv'
  BY <1>1, BuilderUnchanged, TransportUnchanged DEF IndInv
<1>3. SessionInv'
  BY <1>1, <1>2, SessionWatches DEF IndInv, TransportInv, TransportTypeOK, transport
<1>. QED
  BY <1>2, <1>3 DEF IndInv

-----------------------------------------------------------------------------
(* The theorems. *)

THEOREM StepKeeps == IndInv /\ [Next]_vars => IndInv'
<1>. SUFFICES ASSUME IndInv, [Next]_vars PROVE IndInv'
  OBVIOUS
<1>1. CASE Agent
  BY <1>1, StartKeeps, HandshakeKeeps, HandshakeEndsKeeps, WriteFailsKeeps, AskKeeps, AcceptKeeps,
     CallFailsKeeps, DiagnoseKeeps, EndServerKeeps, FinishKeeps DEF Agent
<1>2. CASE Server
  BY <1>2, ServerKeeps
<1>3. CASE Rebuild
  BY <1>3, RebuildKeeps
<1>4. CASE UNCHANGED vars
  BY <1>4, StutterKeeps
<1>. QED
  BY <1>1, <1>2, <1>3, <1>4 DEF Next

\* The invariant of a session, its pipes and the builder, for every repository,
\* alert and bound.
THEOREM IncidentInvariant == Spec => []IndInv
BY InitEstablishes, StepKeeps, PTL DEF Spec

\* The state keeps its shape: ids in the pipes are below the next one, the one
\* waited for is the last sent, and no tool has both an answer and an error.
THEOREM IncidentTypeCorrect == Spec => []TypeOK
<1>1. IndInv => TypeOK
  BY DEF IndInv, IndexInv, TransportInv, SessionInv, SessionType, TypeOK
<1>. QED
  BY <1>1, IncidentInvariant, PTL

\* _request compares ids: an answer taken as evidence was computed for that
\* very question, however late answers come.
THEOREM IncidentAnswersMatch == Spec => []AnswersMatch
<1>1. IndInv => AnswersMatch
  <2>. SUFFICES ASSUME IndInv, NEW t \in DOMAIN responses
                PROVE  \E i \in DOMAIN Questions(alert) :
                         /\ Questions(alert)[i].tool = t
                         /\ [responses[t].to EXCEPT !.id = 0] = Questions(alert)[i]
    BY DEF AnswersMatch
  <2>1. PICK q \in Asks(alert) : q.tool = t /\ [responses[t].to EXCEPT !.id = 0] = q
    BY DEF IndInv, SessionInv, ResponsesInv
  <2>. QED
    BY <2>1 DEF Asks
<1>. QED
  BY <1>1, IncidentInvariant, PTL

\* No answer about an indexed pipeline is "ok": a report is completed only
\* when the pipeline it asked about is not indexed.
THEOREM IncidentCompletedOnlyOffIndex == Spec => []CompletedOnlyOffIndex
<1>1. IndInv => CompletedOnlyOffIndex
  BY DEF IndInv, SessionInv, EndInv
<1>. QED
  BY <1>1, IncidentInvariant, PTL

\* After the handshake only a server that died by itself costs the report.
THEOREM IncidentOnlyACrash == Spec => []OnlyACrashLosesTheReport
<1>1. IndInv => OnlyACrashLosesTheReport
  BY DEF IndInv, SessionInv, EndInv, OnlyACrashLosesTheReport
<1>. QED
  BY <1>1, IncidentInvariant, PTL

\* A build that ran to its end passes validate_build, for every repository.
THEOREM IncidentFinishedBuild == Spec => []FinishedBuildValidates
<1>1. IndInv => FinishedBuildValidates
  BY OneStateValidates DEF IndInv
<1>. QED
  BY <1>1, IncidentInvariant, PTL

-----------------------------------------------------------------------------
(* The impact of an asset: the walk's result, and the index it comes from. *)

ImpactTool == "get_downstream_impact"

\* An answer about impact is an error, or what the index being served says.
FromServed(g, q, s) ==
  q.tool = ImpactTool =>
    \/ s = Error
    \/ g \in Buildable /\ s = Impact(Content("metadata-index", g), q.subject, q.depth)

\* A server loads one index, before it answers anything.
ServedInv ==
  /\ pc = "spawn" => server = "absent"
  /\ server \in {"absent", "loading"} => pipe = <<>> /\ buffer = <<>> /\ DOMAIN responses = {}
  /\ \A i \in DOMAIN pipe : FromServed(served, pipe[i].to, pipe[i].answer)
  /\ \A i \in DOMAIN buffer : FromServed(served, buffer[i].to, buffer[i].answer)
  /\ \A t \in DOMAIN responses : FromServed(served, responses[t].to, responses[t].answer)
  /\ report # Absent => report.affected = AffectedAssets

LEMMA BuiltIsClosed ==
  ASSUME NEW g \in Buildable
  PROVE  Closed(Content("metadata-index", g))
<1>. DEFINE r == Repositories[g]
            index == IndexOf(r)
<1>1. Content("metadata-index", g) = index
  BY ContentOf
<1>2. index.assets = [a \in AssetIds(r) |-> AssetOf(r, a)]
  BY DEF IndexOf
<1>3. \A a \in AssetIds(r) : AssetOf(r, a).downstream \subseteq AssetIds(r)
  BY DEF AssetOf, Downstream
<1>4. IsFiniteSet(AssetIds(r))
  BY ManifestAssumption DEF Buildable, BuildFails
<1>. HIDE DEF r, index
<1>. QED
  BY <1>1, <1>2, <1>3, <1>4 DEF Closed, Nodes0

\* An impact answer that is "ok" is about the one asset of that name.
LEMMA ImpactOk ==
  ASSUME NEW index, Closed(index), NEW name, NEW depth,
         NEW s, s = Impact(index, name, depth), s.status = "ok"
  PROVE  /\ s.data.model \in Nodes0(index) /\ Find(index, name) = {s.data.model}
         /\ "nodes" \in DOMAIN s.data
         /\ s.data.nodes = Walk(index, s.data.model, "downstream", depth).nodes
         /\ s.data.truncated = Walk(index, s.data.model, "downstream", depth).truncated
<1>. DEFINE found == Find(index, name)
            a == CHOOSE x \in found : TRUE
            walk == Walk(index, a, "downstream", depth)
            Of(b) == LET w == Walk(index, b, "downstream", depth)
                     IN Response("ok", [model |-> b, nodes |-> w.nodes, truncated |-> w.truncated,
                                        marts |-> {n \in w.nodes : index.assets[n].layer = "marts"}])
            answers == [b \in Nodes0(index) |-> Of(b)]
<1>1. found \subseteq Nodes0(index)
  BY DEF Find, Nodes0
<1>2. IsFiniteSet(found) /\ Cardinality(found) \in Nat /\ (Cardinality(found) = 0 <=> found = {})
  BY <1>1, FS_Subset, FS_CardinalityType, FS_EmptySet DEF Closed
<1>3. s = CASE found = {} -> Response("not_found", None)
            [] Cardinality(found) > 1 -> Response("partial", [matching |-> found])
            [] Cardinality(found) = 1 -> answers[a]
  BY DEF Impact, ForModel, Nodes0
<1>. HIDE DEF found, answers
<1>4. Cardinality(found) = 1 /\ s = answers[a]
  <2>1. Response("not_found", None).status # "ok"
    BY DEF Response
  <2>2. Response("partial", [matching |-> found]).status # "ok"
    BY DEF Response
  <2>3. found # {} /\ ~(Cardinality(found) > 1)
    <3>1. ASSUME found = {} PROVE FALSE
      <4>1. ~(Cardinality(found) > 1) /\ ~(Cardinality(found) = 1)
        BY <1>2, <3>1
      <4>2. s = Response("not_found", None)
        BY <1>3, <3>1, <4>1
      <4>. QED
        BY <2>1, <4>2
    <3>2. ASSUME Cardinality(found) > 1 PROVE FALSE
      <4>1. found # {} /\ ~(Cardinality(found) = 1)
        BY <1>2, <3>2
      <4>2. s = Response("partial", [matching |-> found])
        BY <1>3, <3>2, <4>1
      <4>. QED
        BY <2>2, <4>2
    <3>. QED
      BY <3>1, <3>2
  <2>4. Cardinality(found) = 1
    BY <1>2, <2>3
  <2>. QED
    BY <1>3, <2>3, <2>4
<1>5. found = {a}
  BY <1>2, <1>4, FS_Singleton
<1>6. a \in Nodes0(index)
  BY <1>1, <1>5
<1>7. s = Of(a)
  BY <1>4, <1>6 DEF answers
<1>. HIDE DEF a
<1>8. /\ s.data.model = a /\ s.data.nodes = walk.nodes /\ s.data.truncated = walk.truncated
      /\ "nodes" \in DOMAIN s.data
  BY <1>7 DEF Response
<1>. QED
  BY <1>5, <1>6, <1>8 DEF found

LEMMA ServedInit == Init => ServedInv
<1>. SUFFICES ASSUME Init PROVE ServedInv
  OBVIOUS
<1>1. DOMAIN responses = {} /\ DOMAIN <<>> = {}
  BY DEF Init, None
<1>2. server = "absent" /\ pipe = <<>> /\ buffer = <<>> /\ report = Absent
  BY DEF Init, TransportInit
<1>. QED
  BY <1>1, <1>2 DEF ServedInv

LEMMA SameAffected ==
  ASSUME UNCHANGED <<responses, alert>>
  PROVE  AffectedAssets' = AffectedAssets
BY DEF AffectedAssets, DataOf

\* Steps that neither load, answer nor report.
LEMMA ServedAlone ==
  ASSUME ServedInv, UNCHANGED <<served, pipe, buffer, responses, alert, report>>,
         pc' = "spawn" => pc = "spawn" /\ server' = server,
         server' \in {"absent", "loading"} => server \in {"absent", "loading"}
  PROVE  ServedInv'
<1>1. AffectedAssets' = AffectedAssets
  BY SameAffected
<1>2. /\ \A i \in DOMAIN pipe' : FromServed(served', pipe'[i].to, pipe'[i].answer)
      /\ \A i \in DOMAIN buffer' : FromServed(served', buffer'[i].to, buffer'[i].answer)
      /\ \A t \in DOMAIN responses' : FromServed(served', responses'[t].to, responses'[t].answer)
  BY DEF ServedInv
<1>. QED
  BY <1>1, <1>2 DEF ServedInv

\* A line that is read was in a pipe.
LEMMA ServedTake ==
  ASSUME IndInv, ServedInv, ReadLine
  PROVE  /\ \A i \in DOMAIN pipe' : FromServed(served', pipe'[i].to, pipe'[i].answer)
         /\ \A i \in DOMAIN buffer' : FromServed(served', buffer'[i].to, buffer'[i].answer)
         /\ server \in {"absent", "loading"} => pipe' = <<>> /\ buffer' = <<>>
         /\ served' = served /\ server' = server
<1>. DEFINE L == Lines(alert)
<1>1. pipe \in Seq(L) /\ buffer \in Seq(L)
  BY DEF IndInv, TransportInv
<1>2. TakeLine /\ served' = served /\ server' = server
  BY DEF ReadLine
<1>. HIDE DEF L
<1>3. /\ \A i \in DOMAIN pipe' : pipe' = pipe
      /\ \A i \in DOMAIN buffer' : \/ i + 1 \in DOMAIN buffer /\ buffer'[i] = buffer[i + 1]
                                   \/ i + 1 \in DOMAIN pipe /\ buffer'[i] = pipe[i + 1]
  <2>1. DOMAIN <<>> = {}
    OBVIOUS
  <2>2. CASE buffer # <<>>
    BY <1>1, <1>2, <2>2 DEF TakeLine
  <2>3. CASE buffer = <<>> /\ pipe # <<>>
    BY <1>1, <1>2, <2>1, <2>3 DEF TakeLine
  <2>4. CASE buffer = <<>> /\ pipe = <<>>
    BY <1>2, <2>1, <2>4 DEF TakeLine
  <2>. QED
    BY <2>2, <2>3, <2>4
<1>4. server \in {"absent", "loading"} => pipe' = <<>> /\ buffer' = <<>>
  BY <1>2 DEF TakeLine, ServedInv
<1>5. \A i \in DOMAIN pipe' : FromServed(served, pipe'[i].to, pipe'[i].answer)
  BY <1>3 DEF ServedInv
<1>6. \A i \in DOMAIN buffer' : FromServed(served, buffer'[i].to, buffer'[i].answer)
  BY <1>3 DEF ServedInv
<1>. QED
  BY <1>2, <1>4, <1>5, <1>6

LEMMA ServedLoad ==
  ASSUME IndInv, ServedInv, Load, UNCHANGED session
  PROVE  ServedInv'
<1>1. /\ server = "loading" /\ server' \in {"serving", "dead"}
      /\ UNCHANGED <<pipe, buffer, responses, alert, report, pc>>
  BY DEF Load, session
<1>2. pipe = <<>> /\ buffer = <<>> /\ DOMAIN responses = {} /\ DOMAIN <<>> = {} /\ pc # "spawn"
  BY <1>1 DEF ServedInv
<1>3. AffectedAssets' = AffectedAssets
  BY <1>1, SameAffected
<1>. QED
  BY <1>1, <1>2, <1>3 DEF ServedInv

LEMMA ServedReply ==
  ASSUME IndInv, ServedInv, NEW s, Reply(s), UNCHANGED session,
         NEW q, q = Head(toServer), FromServed(served, q, s)
  PROVE  ServedInv'
<1>. DEFINE L == Lines(alert)
            line == [id |-> q.id, to |-> q, answer |-> s]
<1>1. /\ pipe' = Append(pipe, line) /\ server = "serving"
      /\ UNCHANGED <<server, served, buffer, responses, alert, report, pc>>
  BY DEF Reply, session
<1>2. pipe \in Seq(L)
  BY DEF IndInv, TransportInv
<1>3. line.to = q /\ line.answer = s
  OBVIOUS
<1>. HIDE DEF L, line
<1>4. \A i \in DOMAIN pipe' : (i \in DOMAIN pipe /\ pipe'[i] = pipe[i]) \/ pipe'[i] = line
  BY <1>1, <1>2
<1>5. /\ \A i \in DOMAIN pipe' : FromServed(served, pipe'[i].to, pipe'[i].answer)
      /\ \A i \in DOMAIN buffer' : FromServed(served, buffer'[i].to, buffer'[i].answer)
      /\ \A t \in DOMAIN responses' : FromServed(served, responses'[t].to, responses'[t].answer)
  BY <1>1, <1>3, <1>4 DEF ServedInv
<1>6. AffectedAssets' = AffectedAssets
  BY <1>1, SameAffected
<1>7. /\ \A i \in DOMAIN pipe' : FromServed(served', pipe'[i].to, pipe'[i].answer)
      /\ \A i \in DOMAIN buffer' : FromServed(served', buffer'[i].to, buffer'[i].answer)
      /\ \A t \in DOMAIN responses' : FromServed(served', responses'[t].to, responses'[t].answer)
  BY <1>1, <1>5
<1>. QED
  BY <1>1, <1>6, <1>7 DEF ServedInv

LEMMA ServedServer ==
  ASSUME IndInv, ServedInv, Server
  PROVE  ServedInv'
<1>1. /\ Load \/ Serve \/ ServeError \/ ServerCrashes \/ ServerStuck
      /\ UNCHANGED session
  BY DEF Server
<1>2. CASE Load
  BY <1>1, <1>2, ServedLoad
<1>3. CASE Serve
  <2>. DEFINE q == Head(toServer)
              s == IF q.tool \in {"initialize", "tools/list"} THEN HandshakeAnswer
                   ELSE Answer(Content("metadata-index", served), repo, q)
  <2>1. Reply(s) /\ server = "serving"
    BY <1>3 DEF Serve
  <2>2. served \in Buildable
    BY <2>1 DEF IndInv, TransportInv
  <2>3. q.tool = ImpactTool => s = Impact(Content("metadata-index", served), q.subject, q.depth)
    BY DEF Answer, ImpactTool
  <2>4. FromServed(served, q, s)
    BY <2>2, <2>3 DEF FromServed
  <2>. HIDE DEF q, s
  <2>. QED
    BY <1>1, <2>1, <2>4, ServedReply DEF q
<1>4. CASE ServeError
  <2>1. Reply(Error) /\ FromServed(served, Head(toServer), Error)
    BY <1>4 DEF ServeError, FromServed
  <2>. QED
    BY <1>1, <2>1, ServedReply
<1>5. CASE ServerCrashes \/ ServerStuck
  <2>1. pc # "spawn"
    BY <1>5 DEF ServerCrashes, ServerStuck, ServedInv
  <2>2. /\ UNCHANGED <<served, pipe, buffer, responses, alert, report, pc>>
        /\ server \in {"loading", "serving"} /\ server' \in {"dead", "stuck"}
    BY <1>1, <1>5 DEF ServerCrashes, ServerStuck, session
  <2>. QED
    BY <2>1, <2>2, ServedAlone
<1>. QED
  BY <1>1, <1>2, <1>3, <1>4, <1>5

\* A line taken without being accepted.
LEMMA ServedDrop ==
  ASSUME IndInv, ServedInv, ReadLine \/ SelectTimeout, pc # "spawn", pc' # "spawn",
         UNCHANGED <<responses, alert, report>>
  PROVE  ServedInv'
<1>1. CASE ReadLine
  <2>1. AffectedAssets' = AffectedAssets
    BY SameAffected
  <2>2. \A t \in DOMAIN responses' : FromServed(served', responses'[t].to, responses'[t].answer)
    BY <1>1, ServedTake DEF ServedInv
  <2>. QED
    BY <1>1, <2>1, <2>2, ServedTake DEF ServedInv
<1>2. CASE SelectTimeout
  BY <1>2, ServedAlone DEF SelectTimeout
<1>. QED
  BY <1>1, <1>2

LEMMA ServedAccept ==
  ASSUME IndInv, ServedInv, Accept
  PROVE  ServedInv'
<1>. DEFINE w == waiting.tool
            taken == [to |-> Line.to, answer |-> Line.answer]
<1>1. /\ pc = "collect" /\ ReadLine /\ ~EndOfFile
      /\ responses' = [t \in DOMAIN responses \cup {w} |-> IF t = w THEN taken ELSE responses[t]]
      /\ UNCHANGED <<alert, pc, report>>
  BY DEF Accept, Collected, Matches
<1>2. FromServed(served, Line.to, Line.answer)
  <2>1. pipe \in Seq(Lines(alert)) /\ buffer \in Seq(Lines(alert))
    BY DEF IndInv, TransportInv
  <2>2. CASE buffer # <<>>
    <3>1. Line = buffer[1] /\ 1 \in DOMAIN buffer
      BY <2>1, <2>2 DEF Line
    <3>. QED
      BY <3>1 DEF ServedInv
  <2>3. CASE buffer = <<>>
    <3>1. Line = pipe[1] /\ 1 \in DOMAIN pipe
      BY <1>1, <2>1, <2>3 DEF Line, EndOfFile
    <3>. QED
      BY <3>1 DEF ServedInv
  <2>. QED
    BY <2>2, <2>3
<1>3. report = Absent /\ report' = Absent
  BY <1>1 DEF IndInv, SessionInv, EndInv
<1>4. server \notin {"absent", "loading"}
  <2>1. DOMAIN <<>> = {}
    OBVIOUS
  <2>. QED
    BY <1>1, <2>1 DEF ServedInv, EndOfFile
<1>5. taken.to = Line.to /\ taken.answer = Line.answer
  OBVIOUS
<1>. HIDE DEF taken
<1>6. \A t \in DOMAIN responses' : FromServed(served, responses'[t].to, responses'[t].answer)
  BY <1>1, <1>2, <1>5 DEF ServedInv
<1>7. \A t \in DOMAIN responses' : FromServed(served', responses'[t].to, responses'[t].answer)
  BY <1>1, <1>6, ServedTake
<1>. QED
  BY <1>1, <1>3, <1>4, <1>7, ServedTake DEF ServedInv

LEMMA ServedDiagnose ==
  ASSUME IndInv, ServedInv, Diagnose
  PROVE  ServedInv'
<1>1. /\ report' = Report /\ pc' = "exit"
      /\ UNCHANGED <<transport, alert, responses>>
  BY DEF Diagnose
<1>2. AffectedAssets' = AffectedAssets
  BY <1>1, SameAffected
<1>3. Report.affected = AffectedAssets
  BY DEF Report
<1>4. /\ \A i \in DOMAIN pipe' : FromServed(served', pipe'[i].to, pipe'[i].answer)
      /\ \A i \in DOMAIN buffer' : FromServed(served', buffer'[i].to, buffer'[i].answer)
      /\ \A t \in DOMAIN responses' : FromServed(served', responses'[t].to, responses'[t].answer)
  BY <1>1 DEF ServedInv, transport
<1>. QED
  BY <1>1, <1>2, <1>3, <1>4 DEF ServedInv, transport

LEMMA ServedStep == IndInv /\ ServedInv /\ [Next]_vars => ServedInv'
<1>. SUFFICES ASSUME IndInv, ServedInv, [Next]_vars PROVE ServedInv'
  OBVIOUS
<1>1. CASE Start
  BY <1>1, ServedAlone DEF Start, Spawn, ServedInv
<1>2. CASE Handshake \/ Ask
  BY <1>2, ServedAlone DEF Handshake, Ask, SendRequest, session
<1>3. CASE HandshakeEnds
  <2>1. /\ ReadLine \/ SelectTimeout
        /\ pc # "spawn" /\ pc' # "spawn" /\ UNCHANGED <<responses, alert, report>>
    BY <1>3 DEF HandshakeEnds, Handshaking, Raise
  <2>. QED
    BY <2>1, ServedDrop
<1>4. CASE WriteFails
  BY <1>4, ServedAlone DEF WriteFails, Raise, transport
<1>5. CASE Accept
  BY <1>5, ServedAccept
<1>6. CASE CallFails
  <2>1. /\ ReadLine \/ SelectTimeout
        /\ pc # "spawn" /\ pc' # "spawn" /\ UNCHANGED <<responses, alert, report>>
    BY <1>6 DEF CallFails, Collected
  <2>. QED
    BY <2>1, ServedDrop
<1>7. CASE Diagnose
  BY <1>7, ServedDiagnose
<1>8. CASE EndServer
  BY <1>8, ServedAlone DEF EndServer, ServerEnds, Signal, session
<1>9. CASE Finish
  BY <1>9, ServedAlone DEF Finish, transport
<1>10. CASE Server
  BY <1>10, ServedServer
<1>11. CASE Rebuild
  BY <1>11, ServedAlone DEF Rebuild, transport, session
<1>12. CASE UNCHANGED vars
  BY <1>12, ServedAlone DEF vars, transport, session
<1>. QED
  BY <1>1, <1>2, <1>3, <1>4, <1>5, <1>6, <1>7, <1>8, <1>9, <1>10, <1>11, <1>12 DEF Next, Agent

\* The question about impact names the alert's asset.
LEMMA ImpactQuestion ==
  ASSUME NEW a, NEW q \in Asks(a), q.tool = ImpactTool
  PROVE  a.asset # Absent /\ q.subject = a.asset
BY DEF Asks, Questions, Question, ImpactTool

\* The walk of an impact answer that is not marked truncated went over all of
\* the served index that lies below the asset.
LEMMA ServedComplete ==
  ASSUME IndInv, ServedInv
  PROVE  ImpactComplete
<1>. SUFFICES ASSUME report # Absent, NEW t \in DOMAIN responses, t = ImpactTool,
                     responses[t].answer.status = "ok", ~responses[t].answer.data.truncated
              PROVE  report.affected \ {alert.asset}
                       = Below(Content("metadata-index", served).assets,
                               responses[t].answer.data.model)
  BY DEF ImpactComplete, ImpactTool
<1>. DEFINE s == responses[t].answer
            q == responses[t].to
            index == Content("metadata-index", served)
<1>1. q.tool = ImpactTool /\ q.subject = alert.asset /\ alert.asset # Absent
  <2>1. PICK p \in Asks(alert) : p.tool = t /\ [q EXCEPT !.id = 0] = p
    BY DEF IndInv, SessionInv, ResponsesInv
  <2>2. PICK l \in Lines(alert) : l.to.tool = t /\ responses[t] = [to |-> l.to, answer |-> l.answer]
    BY DEF IndInv, SessionInv, ResponsesInv
  <2>3. q.tool = t
    BY <2>2
  <2>4. q.subject = p.subject
    <3>1. q \in Requests(alert)
      BY <2>2, LineShape
    <3>2. PICK r \in Sent(alert), n \in Nat : q = [r EXCEPT !.id = n]
      BY <3>1 DEF Requests
    <3>3. PICK x, y, z : r = Question(x, y, z)
      BY SentShape
    <3>4. q.subject = y /\ [q EXCEPT !.id = 0].subject = y
      BY <3>2, <3>3 DEF Question
    <3>. QED
      BY <2>1, <3>4
  <2>. QED
    BY <2>1, <2>3, <2>4, ImpactQuestion
<1>2. s # Error
  BY DEF Error, Response
<1>3. served \in Buildable /\ s = Impact(index, q.subject, q.depth)
  BY <1>1, <1>2 DEF ServedInv, FromServed
<1>4. Closed(index)
  BY <1>3, BuiltIsClosed
<1>5. report.affected = AffectedAssets
  BY DEF ServedInv
<1>. DEFINE model == s.data.model
            walk == Walk(index, model, "downstream", q.depth)
<1>. HIDE DEF index, s, q
<1>6. /\ model \in Nodes0(index) /\ Find(index, q.subject) = {model}
      /\ "nodes" \in DOMAIN s.data
      /\ s.data.nodes = walk.nodes /\ s.data.truncated = walk.truncated
  BY <1>3, <1>4, ImpactOk DEF s
<1>. HIDE DEF model
<1>7. walk.nodes = Below(index.assets, model)
  BY <1>4, <1>6, WalkComplete DEF s
<1>8. AffectedAssets = walk.nodes \cup {alert.asset}
  BY <1>1, <1>6 DEF AffectedAssets, DataOf, ImpactTool, s
<1>9. alert.asset \notin Below(index.assets, model)
  <2>1. SUFFICES ASSUME alert.asset \in DOMAIN index.assets, alert.asset # model PROVE FALSE
    BY DEF Below
  <2>2. alert.asset \in Find(index, q.subject)
    BY <1>1, <2>1 DEF Find
  <2>. QED
    BY <1>6, <2>1, <2>2
<1>. QED
  BY <1>5, <1>7, <1>8, <1>9 DEF index, s, model

\* Each answer comes from the index the server loaded, and the report takes
\* over what it answered.
THEOREM IncidentServedInvariant == Spec => []ServedInv
BY InitEstablishes, StepKeeps, ServedInit, ServedStep, PTL DEF Spec

\* _walk: the affected assets of a report whose impact answer is not marked
\* truncated are all those below the asset in the served index, whatever the
\* index, the depth asked for and the bound on the nodes.
THEOREM IncidentImpactComplete == Spec => []ImpactComplete
BY IncidentInvariant, IncidentServedInvariant, ServedComplete, PTL
=============================================================================
