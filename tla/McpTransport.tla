---------------------------- MODULE McpTransport ----------------------------
(***************************************************************************)
(* RestrictedStdioMcpClient and StdioMcpServer: one child process, JSON    *)
(* lines over its stdin and stdout, requests numbered from 1, and a wait   *)
(* for each answer that may give up while the answer is still to come.     *)
(*                                                                         *)
(* The client reads stdout through a text buffer: readline takes all the   *)
(* pipe holds and returns one line, and select looks at the pipe only.     *)
(* Lines are whole: the server flushes each, and a pipe has room for one.  *)
(***************************************************************************)
EXTENDS MetadataService

CONSTANTS MaxFaults  \* bound: slow or failing answers, and early timeouts

ASSUME TransportAssumption == MaxFaults \in Nat

VARIABLES server,    \* "absent", "loading", "serving", "stuck", "dead"
          crashed,   \* the server died by itself
          served,    \* the generation its index describes, or Absent
          toServer,  \* requests in its stdin
          pipe,      \* answers in its stdout, not read by the client
          buffer,    \* answers read from the pipe, not taken
          nextId,
          waiting,   \* the request the client waits for, or Absent
          faults

transport == <<server, crashed, served, toServer, pipe, buffer, nextId, waiting, faults>>

TransportInit ==
  /\ server = "absent" /\ crashed = FALSE /\ served = Absent
  /\ toServer = <<>> /\ pipe = <<>> /\ buffer = <<>>
  /\ nextId = 1 /\ waiting = Absent
  /\ faults = 0

Fault == faults < MaxFaults /\ faults' = faults + 1

-----------------------------------------------------------------------------
(* The server process. *)

\* from_output: the index file must be there and parse.
Load ==
  /\ server = "loading"
  /\ IF files["metadata-index"] \in {Absent, Torn}
     THEN server' = "dead" /\ crashed' = TRUE /\ UNCHANGED served
     ELSE server' = "serving" /\ served' = files["metadata-index"] /\ UNCHANGED crashed
  /\ UNCHANGED <<toServer, pipe, buffer, nextId, waiting, faults>>

HandshakeAnswer == Response("ok", None)

\* serve: the next line is handled and its answer written.
Reply(answer) ==
  /\ server = "serving" /\ toServer # <<>>
  /\ toServer' = Tail(toServer)
  /\ pipe' = Append(pipe, [id |-> Head(toServer).id, to |-> Head(toServer), answer |-> answer])
  /\ UNCHANGED <<server, crashed, served, buffer, nextId, waiting>>

Serve ==
  /\ server = "serving" /\ toServer # <<>>
  /\ LET request == Head(toServer)
     IN Reply(IF request.tool \in {"initialize", "tools/list"} THEN HandshakeAnswer
              ELSE Answer(Content("metadata-index", served), repo, request))
  /\ UNCHANGED faults

\* call: the handler exceeds the service's own timeout, or the result its
\* size limit.
ServeError ==
  /\ server = "serving" /\ toServer # <<>>
  /\ Head(toServer).tool \notin {"initialize", "tools/list"}
  /\ Fault
  /\ Reply(Error)

\* What serve does not catch: an answer that fits the limit alone but not in
\* its envelope, and an audit line that cannot be written.
ServerCrashes ==
  /\ server = "serving" /\ toServer # <<>>
  /\ Head(toServer).tool \notin {"initialize", "tools/list"}
  /\ Fault
  /\ server' = "dead" /\ crashed' = TRUE
  /\ UNCHANGED <<served, toServer, pipe, buffer, nextId, waiting>>

ServerStuck ==
  /\ server \in {"loading", "serving"}
  /\ Fault
  /\ server' = "stuck"
  /\ UNCHANGED <<crashed, served, toServer, pipe, buffer, nextId, waiting>>

-----------------------------------------------------------------------------
(* The client. *)

Spawn ==
  /\ server' = "loading"
  /\ UNCHANGED <<crashed, served, toServer, pipe, buffer, nextId, waiting, faults>>

StdinBroken == server = "dead"

SendRequest(request) ==
  /\ ~StdinBroken
  /\ toServer' = Append(toServer, [request EXCEPT !.id = nextId])
  /\ waiting' = [request EXCEPT !.id = nextId]
  /\ nextId' = nextId + 1
  /\ UNCHANGED <<server, crashed, served, pipe, buffer, faults>>

\* The line readline returns: "" at end of file.
Readable == pipe # <<>> \/ server = "dead"
EndOfFile == buffer = <<>> /\ pipe = <<>>
Line == IF buffer # <<>> THEN Head(buffer) ELSE Head(pipe)
TakeLine ==
  IF buffer # <<>> THEN buffer' = Tail(buffer) /\ UNCHANGED pipe
  ELSE IF pipe # <<>> THEN buffer' = Tail(pipe) /\ pipe' = <<>>
  ELSE UNCHANGED <<buffer, pipe>>

\* Mutant of the next: the id of the answer is not compared.
AnyAnswer == ~EndOfFile

\* _request returns the result; otherwise it raises McpClientError.
Matches == ~EndOfFile /\ Line.id = waiting.id

ReadLine ==
  /\ waiting # Absent /\ Readable
  /\ TakeLine
  /\ waiting' = Absent
  /\ UNCHANGED <<server, crashed, served, toServer, nextId, faults>>

\* The select call returns without anything to read: the answer may be late.
SelectTimeout ==
  /\ waiting # Absent /\ ~Readable
  /\ IF server = "stuck" THEN UNCHANGED faults ELSE Fault
  /\ waiting' = Absent
  /\ UNCHANGED <<server, crashed, served, toServer, pipe, buffer, nextId>>

\* __exit__: a server that reads end of file on stdin ends; one that does not
\* in time is terminated, then killed.
ServerEnds ==
  /\ server = "serving" /\ toServer = <<>>
  /\ server' = "dead"
  /\ UNCHANGED <<crashed, served, toServer, pipe, buffer, nextId, waiting, faults>>

Signal ==
  /\ server # "dead"
  /\ server' = "dead"
  /\ UNCHANGED <<crashed, served, toServer, pipe, buffer, nextId, waiting, faults>>

TransportTypeOK ==
  /\ server \in {"absent", "loading", "serving", "stuck", "dead"}
  /\ crashed \in BOOLEAN /\ nextId \in Nat /\ faults \in 0 .. MaxFaults
  /\ \A s \in {toServer, buffer, pipe} : \A i \in DOMAIN s : s[i].id < nextId
  /\ waiting # Absent => waiting.id = nextId - 1
=============================================================================
