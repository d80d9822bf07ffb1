# LokiFix: a TLA+ verification project

LokiFix lets an AI assistant on an operator's machine work on a remote machine.
The operator's process (`lokifix-mcp`) speaks JSON-RPC (MCP) on its standard
input and output, runs a WebSocket server, and publishes a connection code; a
user of the remote machine pastes the code into `lokifix-agent`, which dials in
and executes the requests. This directory models that system in TLA+, checks the
models with TLC on small instances, and proves the most important facts with
TLAPS for all instances. Line numbers below refer to the files under `src/`.

## 1. Inventory

| Component | State | Operations | Interacts with |
|---|---|---|---|
| Authentication manager, `internal/auth/auth.go` | `codes`, `sessionTokens` (maps under one mutex), the clock | GenerateCode, ValidateToken, GenerateSessionToken, ValidateSessionToken, RevokeSessionToken, Cleanup, EncodeConnectionInfo / DecodeConnectionInfo | shared by every server handler and by the operator's main program |
| WebSocket server, `internal/transport/server.go` | `conn`, `cipher`, `agentInfo`, `pending`, one goroutine per connection | handleWebSocket (handshake, key, callbacks, teardown), readLoop, SendRequest, IsConnected | auth, crypto, the callbacks of the main program, the MCP loop |
| WebSocket client, `internal/transport/client.go` | `conn`, `cipher`, the pool of 20 workers | Connect, Run, handleRequest, writeMessage, pingLoop, Close | the agent's main program and its handler |
| Agent main program, `cmd/lokifix-agent/main.go` | one-time token, session token, retries | main, connectAndRun, the confirmation prompt | client, handler, audit |
| Operator main program, `cmd/lokifix-mcp/main.go` | the connection code file, the server's callbacks | main, startTunnel, the callbacks on connect and disconnect, the signal, cleanup | every part of the operator's process |
| Agent request handler, `internal/agent/handler.go` | mode, confirmation and notification callbacks | HandleRequest: confirm, dispatch, log | executor, fileops, sysinfo, audit |
| Audit log, `internal/audit/` | file, hash chain, counters | LogAction, Notify, WriteReport, Close, the list of dangerous commands | both main programs |
| MCP server, `internal/mcp/server.go` | the JSON-RPC loop, writer mutex | Run, tools/call, chunked upload and download, notifications | the WebSocket server |
| File operations, `internal/fileops/` | none (the file system) | read, write, edit, glob, grep, chunks | the agent's handler |
| Executor, `internal/executor/` | one process per call | Run with a time limit | the agent's handler, system information |
| Tunnel, `internal/tunnel/` | the cloudflared binary on disk, the process and its URL | EnsureCloudflared, Start, Stop | the operator's main program, other operators on the machine |
| Protocol, encryption | none | envelopes, parameters; AES-GCM under a derived key | both ends |
| System information, `internal/sysinfo/` | none | tables from PowerShell, the registry | the executor, the agent's handler |
| Console interface, installer | none that another part reads | formatting, set-up | - |

**What is hard.**

* *Goroutines that share the server.* Every accepted connection has a handler of
  its own; connections overlap, because an agent reconnects long before the
  server's read of the lost connection fails. `conn`, `cipher` and `agentInfo`
  are written under a lock by whichever handler runs last, and `cipher` is read
  without the lock by SendRequest (135-136) and by the read loop (291-292).
* *Loss.* A link may go away at any moment with messages in flight both ways: a
  handshake's answer, a request, a response. The agent retries; the server does
  not tell the caller.
* *Cancellation.* The signal cancels the one context that every call of the
  operator runs under: a caller goes away while its request is in flight or at
  work.
* *Tokens over time.* A one-time token is burned by a handshake whose answer may
  be lost; every accepted handshake draws another session token; validations and
  the clean-up purge the maps at moments of their own.
* *Two copies of one decision.* Server and client decide separately which token
  the key of a connection is derived from.
* *One MCP loop.* It serves one call at a time, and waits for the response.
* *Logs and shutdown.* Handlers of the last connection may be running when the
  log is summarised and closed.
* *One file for overlapping connections.* The callbacks that remove and rewrite
  the connection code file run on the goroutines of their connections, in any
  order.
* *Child processes.* A command races its time limit, its kill and the processes
  it leaves behind; cloudflared races a timer, and says its address or not.
* *One temporary file.* Every operator process on a machine downloads
  cloudflared to the same name.
* *Text and paths.* Page boundaries, limits, overlapping matches, `**`, and a
  code from which a character is stripped that is also one of its digits.

**What makes each part correct.** Authentication: a token of a code is accepted
at most once, and both validations answer from the token's own history. Server
and client: connection and key change together; both ends of a connection have
the same key; the held connection has a living handler; no handler blocks
for ever; a request is executed at most once, and what is returned about it is
true of an answer and of an error, except that a cancelled call says nothing of
its request. Agent: it settles as connected or gives up; a session token always lets it
back in; one code connects one agent. Audit log: the chain in the file is
verifiable, and what the operator had an answer to is in the report. Handler: nothing
that needs a confirmation runs without one. Transfers: what arrives is what was
sent, or the report tells how far it came. Operator: whenever no agent is coming or going, a code that
still works is in the file, and the process ends when asked. Tunnel: what is
installed is complete, and a cloudflared that serves nobody ends, but for two
cases that are named. Tools: success is reported of what
was done, a page, an edit, a search and a glob are what their definitions say,
which also say where the code departs from its own descriptions.
Everything in this code that is hard to test is listed, at its line, under
`hazards` in `PROJECT.json`.

## 2. Modules

| Module | Models | Uses |
|---|---|---|
| `OneTimeToken` | abstract: a token is issued, then redeemed once or lapses | - |
| `AuthManager` | `auth.go`: the two maps, every method, the clock | `OneTimeToken` (refinement) |
| `AuthManagerProofs` | proofs about `AuthManager` | `AuthManager` |
| `RemoteCall` | abstract: a request runs at most once and an answer or an error is true of it; a call that was interrupted leaves it open | - |
| `Transport` | server, client, agent loop, code file and MCP caller over a lossy network | `AuthManager` (instance on the same variables), `RemoteCall` (refinement) |
| `TransportProofs` | proofs about `Transport` | `Transport`, `AuthManagerProofs` |
| `SessionProofs` | proofs that a code connects one agent, that a session token reconnects, and that a call over the transport is a `RemoteCall` | `TransportProofs` |
| `AuditLog`, `MCAuditLog` | `audit.go`: the log file, its hash chain, the report | - |
| `AuditLogProofs` | proofs about `AuditLog` | `AuditLog` |
| `AgentHandler` | the agent's main goroutine, its pool of workers, confirmation and logging, and the user at the console | `AuditLog` (instance on the same variables) |
| `AgentHandlerProofs` | proofs about `AgentHandler` | `AgentHandler`, `AuditLogProofs` (instance) |
| `Tunnel` | `tunnel.go`: the download that operators share, the child process, Start and Stop | - |
| `LokiFix` | the operator's main program, its callbacks on overlapping connections, the MCP loop | `Tunnel` |
| `LokiFixProofs` | proofs about `LokiFix` and `Tunnel` | `LokiFix` |
| `Executor` | `executor.go`: one command, its time limit, its output | - |
| `ConnectionCode` | operators: the encoding and decoding of the pasted code | - |
| `FileText` | operators: a page of a file, an edit, a line of CSV | - |
| `FileSearch` | operators: glob, sorting by time, grep | - |
| `AgentTools`, `MCAgentTools` | the agent's tools at work, next to what other programs do | `Executor`, `ConnectionCode`, `FileText`, `FileSearch` |
| `AgentToolsProofs` | proofs about `AgentTools`, `Executor`, `ConnectionCode`, `FileText` and `FileSearch` | `AgentTools` |
| `FileTransfer`, `MCFileTransfer` | the chunked upload and download, both ends | the promise of `RemoteCall`, as the guard of its calls |
| `FileTransferProofs` | proofs about `FileTransfer` | `FileTransfer` |

Definitions marked as variants for mutants are used by no specification: each
is a body that one definition is replaced by to see that a property depends on
the code being as it is.

### AuthManager

`codes` is the map of connection codes as a set of entries with distinct
`code`; `sessionTokens` likewise. `now` is the clock, an integer the action
`Tick` advances up to `MaxClock`; an entry is past its life when
`now - createdAt` *exceeds* the expiration, as in `time.Since(..) > ..`. Each
method is one action, because the code holds the mutex from its first line to
its last. ValidateToken is `AcceptToken` or `RejectToken`, by its answer; both
purge first. GenerateCode draws a token never drawn before (256 random bits) and
a six-character code that *may* collide with one in use: the map entry is then
replaced, and the older token is `displaced`. `issued`, `accepts`, `displaced` and
`revoked` are history: no action reads them except for the freshness of a token.

### Transport

| State | Code |
|---|---|
| `conn`, `cipher` | `Server.conn` (with `agentInfo`, always set together) and `Server.cipher`; a cipher is the token its key is derived from, `NoToken` is nil |
| `pending`, `respCh` | `Server.pending` and each request's channel of capacity one |
| `handler[k]` | the goroutine of handleWebSocket for connection `k`: where it is, the handshake it read, the message it is decrypting |
| `call`, `outcome` | the MCP loop inside SendRequest; what it returned for each request |
| `codeFile` | the token in the connection code file |
| `agent[a]` | connectAndRun: where it is, the token pasted, the session token, the connection, failures in a row |
| `clientKey[k]`, `workers`, `executed` | `Client.cipher` of that connection; the goroutines of handleRequest; history of executions |
| `link[k]` | the network between both ends: up or not, each end open or not, and the messages in flight each way, in order |

A step is what runs between two points where another goroutine can interfere: a
mutex section, a channel operation, an unlocked read of `Server.cipher`, a read
or write of a connection. So SendRequest is five steps: register
(`StartCall`), test the cipher (`TestCipher`), read it again to encrypt
(`Encrypt`, or `EncryptPanics` if it became nil, which ends the process), lock
and write (`WriteRequest`, or an error: `NotSent`, `WriteCancelled`), wait
(`ReceiveResponse`, or `CallCancelled`). `Interrupt` is the signal that cancels
the context of `cmd/lokifix-mcp/main.go:22-30`, at any moment of a call; the
calls that follow are cancelled from the start. A cancelled write may have sent
all of the message and breaks its connection, and the caller of a request that
was written returns while it is anywhere (`server.go:159-160`). handleWebSocket is: read
the handshake and check its session token (`CheckSession`), else its one-time
token (`AcceptCode` / `RejectCode`), draw a session token and answer
(`AnswerHandshake`), store connection and cipher (`Install`), call back
(`AgentConnected`), loop (`ReadMessage`, `Decrypt`; `ReadPing`, `Pong`), and on a read error
`ReadFails`, `Teardown`, `AgentDisconnected`. A nil cipher in `Decrypt` or `Pong` panics on
a goroutine of net/http, which recovers it: `DecryptPanics` ends the handler with
its teardown not run. The pong itself says nothing to the agent, which drops it.

The agent's side is `Dial`, which also writes the handshake, `Connected` or
`Refused`, `ReadRequest`, `Respond` for each worker, `ConnectionLost`, and
`ConnectFailed` with its count of retries. `Lose(k)` breaks a link: of the messages in flight each
way a prefix may still arrive. A write to a broken or closed connection may
succeed locally and be lost, or fail. An end notices that the link is gone when
it has read what arrived. `HandshakeTimeout` and `AuthTimeout` are the two
limits of five seconds; they may strike at any time, since nothing bounds how
long the other side takes. `Quit` is the user ending the agent.

A message names the key it is encrypted under, and is readable exactly by who
holds that key: this is all that is kept of AES-GCM. The choice of tool, its
parameters and its result are left out; executing a request is one step, counted
in `executed`.

### AuditLog

| State | Code |
|---|---|
| `file`, `fileOpen` | the lines of the log file, in order; whether `Close` has been called |
| `prevHash` | `Logger.prevHash`; a hash is the number of the entry it is computed for, `Genesis` the initial one |
| `entries` | `Logger.entries` |
| `report` | the report file: the summary that it holds |
| `reporter[p]` | a goroutine inside WriteReport: where it is, and the summary it made |
| `lost`, `reports`, `failures` | history: entries whose line was not written; bounds |

`Log` is one step, since the lock is held throughout: the entry is added and
`prevHash` advances, whether or not the line could be written (the error is
ignored). WriteReport is four steps, because only the summary is made under the
lock: `BeginReport` (SessionSummary), `WriteReportFile`, `AppendMarker`,
`AppendSummary`. A write fails if the file is closed or the disk fails. Records
are opaque except for their result, which the summary counts. A line keeps the
hash its entry was given and that of its predecessor; how a hash is computed from
the text is left out.

### AgentHandler

`main` is the main goroutine: dialling, inside Run, ending the session, writing the report,
waiting for Enter, exited. `worker[r]` is the goroutine that handles request
`r`: `queued` at the semaphore, `asking` at the dialog, `approved` or `denied` but
not logged yet, at `dispatch`, executed but not logged (`log`), at `respond`, and `done`,
with the connection it belongs to. `logging` is FALSE if NewLogger
failed, and then every call of the logger is skipped. `stdin` holds the lines typed and not
read. Each dialog makes a buffered reader of its own: `TakeLine` removes one line (a
console) or everything written so far (a pipe), and uses the first line. A line
remembers which question its author had in mind, which no step looks at.

Run does not wait for its workers, so they outlive the connection and run while
main reports and closes the log; `RunReturns` needs `Queued = {}` because the
read loop does not look at the context while it waits at the semaphore. When
main has exited no goroutine takes a step. The model lets several requests
arrive at once, as the agent's pool of twenty invites; the shipped operator sends
one at a time.

### FileTransfer

`local` and `remote` hold one file on each machine, a sequence of bytes or
`Absent`. A transfer is `StartUpload` (reads the whole local file) or
`StartDownload`; then for each chunk a call, which arrives (`CallArrives`) or
fails before anything was sent (`CallFails`), or is cancelled (`CallCancelled`)
wherever its request is: then the transfer has failed for the operator, while the
agent may still check (`LateCheck`) and write (`LateWrite`) the chunk at any
time, into the next transfer too. `late` holds these chunks. On the agent an upload's chunk is `CheckExists`, for the
first one without overwrite, then `WriteChunk`; a download's is `StatFile`, then
`ReadChunk`, and the operator's `SaveChunk`. The code checks and then acts on
files it does not lock, so these are separate steps, and `OthersAct`, any other
program that creates, replaces, extends or removes a file, may run between any
two. A write may fail and leave a part of its chunk; a read may fail with nothing,
or after some bytes, which the agent then sends as a whole chunk
(`fileops.go:665-668`): `short` remembers that.

### Tunnel

| State | Code |
|---|---|
| `binary`, `tmp` | `cloudflared.exe` and `cloudflared.exe.tmp`: the pieces written, with holes, or `Absent` |
| `dl[p]` | operator process `p` inside EnsureCloudflared: before it (`none`), about to create, copying, removing, renaming, `ok`, `failed`, `dead`; and the pieces it has written |
| `tun`, `cf`, `url` | Start and the tunnel it returned; the child process, with the goroutine that waits for it; the address, printed or scanned |
| `interrupted` | the context of the main program |
| `upset` | history: a download was given up while another was under way |

EnsureCloudflared is a step per system call, because the processes that run it
share two names and no lock: `Look`, `CreateTmp` (which truncates what another
one is writing), `CopyPiece`, `CopyEnds` or `CopyFails`, `RemoveTmp` or `Rename`.
A rename or a removal fails while anybody has the file open, as on Windows, the
only system the binary is downloaded for. Other operators may die and start
again. In Start, `ScanUrl`, `ReportCrash` and `KillCancelled` are its goroutines and
the one of os/exec that kills the child when its context is done (`Cancelled`: the
program's is, or Start failed); `TakeUrl`, `TakeError` and `TimeIsUp` are the cases of its select. The child
prints, exits and crashes as it likes.

### LokiFix

`main` is where the main goroutine is, from the tunnel's installation to the end; `handler[k]`
is the goroutine of connection `k`, from its installation (`Accept`) through the
callbacks to the end; `codes` numbers the codes as they are generated, `codeFile` is
the one in the file, `seen` those that ever were, `used` those an agent came with;
`told` is the last notification. `Transport` has the connection itself; here the
network accepts and loses connections as it likes, and what is detailed is the
order of the callbacks' own steps: remove the file, notify; generate a code, write
the file, notify. Between the assignments of the callbacks (`AssignCallback`) and after the
publication of the code an agent may already come and find no callback.
`Teardown` clears `conn` whoever it belongs to, as in finding 1; `ReadPanics` is
the handler whose cipher is taken away under it, of which no callback runs.

The loop reads a line (`ReadCall`), looks whether an agent is there, and only
then sends (`SendCall`) and waits (`CallAnswered`, `CallCancelled`); only between
two lines can the end of the input end it (`RunEnds`). `Exit` is the clean-up and the
deferred stop of the tunnel, which a failing GenerateCode skips with os.Exit.
`KillTunnel` is `KillCancelled`, as long as the program lives.

### Executor and AgentTools

`Executor` is Run with what os/exec does around it: `run` and `result` are Run's,
`ctxDone` its context, `child`, `printed` and `held` the shell, its output and its
pipes in the hands of a process it left behind, `kill` the watching goroutine of os/exec.
`KillShell` races `ChildExits`, and `Reap` ends the race: exit code 1 of a killed
shell goes before the context, and a kill that came too late turns exit code 0
into a time-out.

`AgentTools` gives the agent one job at a time. A command runs in `Executor` and is
answered by `HandleShellExec`, `HandleProcesses` (which stands for the
queries that read a table) or `HandleRegistry`. `HandleFileRead` is one page of a client that goes on
from the last line it was shown or, as the tool is described, at the line it
wants next (`Offset`), while lines are appended or the file is removed. An edit is `EditReads` and `EditWrites`, with
other requests between them; a glob walks, then sorts by the times of then. The
pure parts are operators of `ConnectionCode` (bytes and base64 digits as numbers), `FileText`
and `FileSearch`, close to the loops of the code; the properties have
definitions of another shape to compare with: a text rewritten from left to
right, a path cut into segments, the list of all groups and its first prefix
that is long enough. An expression to search for is one like `begin.*end`: a line has
either part, both or none (`Parts`), so that a match across lines, which the
flag of multiline allows, exists in the model (`Matches`) and is there to be missed. The loops of a search and of the sort have one operator per
round (`GrepLine`, `GrepOneFile`; `Compared`, `NewestAt`), a function of what the
round before has left; the two matchers give, for each place of the pattern, the set
of places of the path from which the rest fits.

## 3. What the runs check

| Run | Instance | Shows |
|---|---|---|
| `auth` | 2 codes, 3 tokens, code life 1, session life 2, clock to 3 | `OneTimeUse`, `CodeAnswer`, `SessionAnswer`: no order of calls, purges, collisions and clock steps makes a token work twice or makes an answer depend on anything but that token's history; `ImplementsOneTimeToken` |
| `transport_safety` | 2 agents, 3 connections, 2 faults, clock to 1 | `CipherWithConn`, `HeldByItsHandler`, `SameKey`, `SessionReconnects`; `OneAgentPerCode`: two agents that race with one code are never both let in |
| `transport_calls` | 1 agent, 2 connections, 2 requests, 1 fault, 1 retry, the signal at any moment, fairness | `ImplementsRemoteCall` over two consecutive calls, `DeliveryNeverBlocks`, `BrokenConnectionEnds`, `AgentSettles`, `CallReturnsUnlessFault` |
| `audit_log` | 2 reporters, 3 entries, 2 reports, 1 failed write | `GapsAreFailedWrites`, `SummaryFollowsItsEntries`: logging, reporting and closing at the same time break the chain nowhere but where an entry could not be written |
| `agent_session` | 2 dangerous requests, 2 workers, 2 connections, no retry | `NeverMoreThanApproved`, `EffectsAreLogged`, `AnswersAreReported` |
| `agent_stops` | 2 requests, 1 dangerous, 1 worker, 2 connections, 1 retry, fairness | `CtrlCEndsOnceAnswered`: a full pool and a connection being made do not keep Ctrl+C from ending the session |
| `file_transfer` | files of up to 3 chunks of 2 bytes, 2 transfers, 2 faults, 2 changes by others | `SuccessIsACopy`, `FailureSaysHowFar`, `KeptUnlessOverwrite` |
| `operator` | 3 connections, 1 call, 2 operators, 2 pieces, fairness | `ReadyForTheNextAgent`, `InstalledIsComplete`, `TunnelServesOrEnds`, `EndsWhenAsked` |
| `agent_tools` | commands of 3 pieces; texts of up to 4 characters or 3 lines, 2 files, paths and patterns of up to 3 segments, codes of up to 5 bytes; fairness | `CommandResultIsHonest`, `CommandsEnd`, `CodeSurvivesPasting`, `PagesCoverTheFile`, `EditIsExact`, `SearchGoesLineByLine`, `GlobFindsNewestFirst` |
| `stale_teardown` | 1 agent, 2 connections, 1 fault | finding: `RunningAgentIsConnected` fails |
| `lost_call` | 1 agent, 2 connections, 1 fault, fairness | finding: `CallReturns` fails |
| `late_action` | 1 request, 1 connection | finding: `ActionsInTheFile` fails |

**Findings.**

1. *The teardown of an old connection drops the new one* (`server.go:272-276`).
   The agent loses its link, reconnects, and is installed; only then the old
   handler's read fails, and its teardown sets `conn`, `cipher` and `agentInfo` to
   nil. The agent runs on a sound connection and IsConnected says no, for ever.
2. *A call whose connection is lost never returns* (`server.go:158`). The
   documented limit of 120 seconds (`mcp/server.go:177`, guide 1015) is enforced
   by the agent only; the teardown does not fail pending calls; the MCP
   loop, which serves one call at a time, stops for good.
3. *An action that ends after Ctrl+C is not in the log* (`cmd/lokifix-agent/main.go:83`).
   Run does not wait for its workers. Main logs SESSION_END, writes the report and
   closes the file while a request runs; the entry of that request is then
   written to a closed file and the error is dropped (`audit.go:147`). The guide (948)
   says that every action is registered.

`ImplementsRemoteCall` holds *in spite of* these: a success is the answer of the
one run, and an error means that the request did not and will never run. What
findings 1 and 2 cost is progress, never a wrong report. The one error that means
nothing is that of a cancelled context: the request may have run, may be running,
or may still arrive, and the same word "error" is what the client is told
(`RemoteCall` calls it "interrupted"). Likewise
`AnswersAreReported` holds in spite of finding 3: what the operator had an answer to is
in the report, because it is logged before the response is sent.

**Where the code departs from its descriptions, shown by the properties that pass.**
These have no run of their own: the property says of both sides what the code
does, and would fail if the code did what the text says.

* `mcp/server.go:190` says of the offset of a read "Start from this line number";
  the page starts at the line after it. `PagesCoverTheFile`: who goes on from the last
  line it was shown misses nothing, who goes on at the line it wants next is never shown
  that line, on any page but the first.
* `mcp/server.go:258` and `272` promise multiline matching "where . matches newlines";
  lines are matched one by one (`fileops.go:344-346`, `397`). `SearchGoesLineByLine`: the option
  changes nothing.
* `mcp/server.go:271` calls `head_limit` "Max results to return"; lines of context count,
  and the group of the match that reaches the limit is shown whole.
  `SearchGoesLineByLine`: as many lines more as one match has context.
* `fileops.go:142` says that a glob "Matches against the full relative path from
  basePath", and `mcp/server.go:251` that `path` is the "Base directory to search
  in"; a pattern with a slash and without `**` that fits something in the agent's own directory
  lists that, and nothing under the base (`fileops.go:154-158`). `GlobFindsNewestFirst`: exactly then
  (`LedAstray`).
* A download whose read is cut short by an error reports success with bytes missing
  (`fileops.go:665-668`), nobody compares `BytesRead` with what was asked for. `SuccessIsACopy`: what it
  leaves is then shorter than the size it reports, so that who compares the two can tell.
* `docs/guida-lokifix.html:731` says of a reconnection "nessun nuovo token
  generato"; the server draws a new session token for every accepted handshake
  (`server.go:232-233`, `AnswerHandshake`), and the client goes on with it (`client.go:103-104`). `SameKey` and
  `SessionReconnects` are about what that could have broken.

**Seen while modelling, and not stated as findings.** What the models do and a
maintainer should know, of behaviour that we found no promise about.

* *Transport.* SendRequest chooses the key before it takes the lock
  (`server.go:135`): a request that crosses a reconnection goes to the new
  connection under the old key, is dropped there, and the call waits.
* *Transfers.* A download of an empty file always fails: ReadAt returns EOF
  (`fileops.go:666`). After an upload that failed half-way, the same upload
  without overwrite is refused, by the part that the first one left. After a
  cancelled call "upload failed at chunk i/n" (`mcp/server.go:549-555`) does not say that
  chunk i is not there: it may be, or may come later, into a repetition of the
  same upload (`FailureSaysHowFar`, `LateWrite`).
* *Operator.* A signal alone does not end the loop; it ends with its input. A
  download that hangs ignores the context (`tunnel.go:147`). If GenerateCode
  fails, os.Exit skips the tunnel's Stop. When cloudflared ends with code 0
  before it has said its address, Start waits its 30 seconds; when it ends later
  nobody notices. A cloudflared stays behind in two cases, both in the exception of
  `TunnelServesOrEnds`: after os.Exit, and if the program ends right after Start gave
  up, before os/exec has killed the child. The guide (999) knows leftover instances; a
  killed operator process, which is not modelled, leaves one too. Two operators that download at the same time can install a
  broken binary if one of them gives up and starts again: `InstalledIsComplete`
  excludes exactly these histories (`upset`). The client's last notification may
  say "disconnected" while a newer agent is connected. The code is published
  before the callbacks are assigned, so a very quick agent leaves its used code in
  the file until it disconnects. The file is not removed at the end. JSON-RPC
  notifications of the client other than `notifications/initialized` are
  answered with an error, and a last line without a newline is dropped.
* *Commands.* A command killed at its time limit has exit code 1 and no word of
  a time-out on Windows; "timed out" is said of a kill that came too late, or of
  Ctrl+C before the start. A process that a killed command leaves behind keeps
  Run waiting as long as it holds the pipes (WaitDelay is zero): this is the condition
  of `CommandsEnd`. A table query that fails is answered as success with an
  empty table.
* *Files.* EditFile counts what does not overlap, so "aa" in "aaa" counts as unique; an edit
  overwrites what another request wrote since it read; a write that fails
  leaves part of the text.
* *Connection code.* The decoder strips the blanks and dashes that a user may have
  added (`auth.go:108-110`), but a dash is also the digit that `>` and `~` lead to when
  they are the last of three bytes. Tokens and the addresses of tunnels have
  neither; an address with a `~` in `LOKIFIX_TUNNEL_URL` (`cmd/lokifix-mcp/main.go:50`) may
  give a code that no agent can use. `CodeSurvivesPasting` is about `PlainBytes`.
* *Searches.* Overlapping contexts repeat lines. Under the base path the `*` of a
  simple glob crosses directories on Windows.

**Bounds, and why they are enough.** Three connections give an old handler, its
successor, and a third that inherits what the first two left. Two faults give a
loss during the recovery from a loss, or a lost answer followed by a timeout.
`transport_calls` has one fault, one retry and two connections: so after the one lost
answer the agent has a connection left, is refused on it with the burned token,
and has to give up, which `AgentSettles` asks for; and a cancelled call leaves a
request under way that the next call meets.
`transport_safety` has no
requests, so that two agents and three connections fit: what it checks speaks of
connections, keys and tokens, and all of it but `SessionReconnects` is proved
with requests, too (section 4). `transport_calls` has two
consecutive requests, which show that nothing of the first disturbs the second. Clock
bound 1 with life 0 makes tokens both live and past their life, in one
instance, between any two steps; `auth` has the finer clock. `Tokens` is large
enough for every draw of the bounded number of connections, so no handler is ever stuck for
lack of one. `MaxRetries` is 1 (5 in the code) and `MaxWorkers` 1 (20), so that
giving up and a full pool both occur. Every bound is a constant used in a
guard: `MaxDials` (connections), `MaxRequests`, `MaxFaults`, `MaxClock`.

In `AuditLog`, three entries give a predecessor, a lost one and a successor, and
two reporters whose steps interleave. In the agent runs `MaxEntries` 8 is more
than what two requests can log, so `Log` is never disabled by its bound; two
requests make one worker read the other's line, and two connections make a worker
outlive its own. `agent_session` has no retries, since giving up and the loss of
the connection end in the same steps; `agent_stops` has one. Writes fail in
`audit_log` only. In `file_transfer` all bytes of a file differ, which suffices
for loops that only move bytes; its files have no byte, less than a chunk, a
whole number of chunks and a number that is not whole, and one is over
`MaxSize`. Two faults give a cancelled call whose chunk comes late and one that fails to be written,
and two transfers a late chunk that meets the repetition.

In `operator`, three connections overlap in every order of their callbacks; one
call suffices for a loop that serves one at a time. Agents come only if there is no
tunnel (`NoTunnel`), and other operators install only while this one does: the
tunnel and the handlers share no state, so only their interleavings are lost.
Two pieces of a download have a middle, and two operators are what a shared name
needs. In `agent_tools`, every job is a small instance of its own: texts over two
letters up to four characters contain overlapping, adjacent and separate occurrences of
up to two; three lines with limits 0 to 2 are more pages than one, exactly full
and not full, with one appended line and a line that is too long anywhere, for both ways
to go on (`from`); two files of two lines have matches across lines; the base
directory has the name of a file in it (`BaseName`); bytes are chosen so that
the digits of a code come from the whole of the base64 alphabet but the dash. One other write, or one removed file,
happens meanwhile.

`CHECK_DEADLOCK FALSE` in the Transport configurations: the system may really
stop. An agent that gave up or was ended is never started again, and
at the bounds nothing more can be dialled. That it does not stop *earlier* is what the
liveness properties say. It stands in the other configurations that have it
for the same reason: the agent's program exits, a closed log with its bounds
used up has no step left, and neither has the last transfer.

**Fairness** (`Fairness` in `Transport`). Weak fairness on the MCP loop's steps,
on each handler, each agent and each worker: a goroutine that can run is run by
Go's scheduler. It covers the steps by which an end notices a broken
connection: TCP keep-alive, which Go sets on both ends by default, and the limits of
five seconds on the handshake end such reads. The agent's ping (`client.go:245-277`)
has no deadline and waits for no answer; it only gives TCP something to send. Nothing is assumed of losses, timeouts, failed
dials, users and the clock. In `AgentHandler`, weak fairness on the main
goroutine and on each worker; an execution ends, because a command has a time
limit and a file operation is finite (a process that a command leaves behind is not
thought of there: see `CommandsEnd`). Nothing is assumed of the user, who may
leave a question or the final Enter unanswered, nor of the network.
In `LokiFix`, weak fairness on the main goroutine, which includes the timer of
Start, and on `KillTunnel`, the goroutine of os/exec that waits for the child's
context: nothing of the child, the agents, the network or a download, so
`EndsWhenAsked` starts after the installation. In `AgentTools`, weak fairness on
the handlers and on what the Go runtime does for a command: its timer, the kill
and the wait. Nothing is assumed of the command, which may never end by itself,
nor of what it leaves behind.

## 4. What is proved

The proof modules are about every value of the constants that satisfies the
assumptions of the component: `ExpirationAssumption` (lives and the clock's bound
are natural numbers), `TransportAssumption` (the bounds are natural numbers, there
is at least one worker, `NoToken` and `NoAgent` are not a token or an agent),
`AuditLogAssumption` (the bounds are natural numbers, records have a result),
`AgentAssumption` (the same of the agent's bounds, and the dangerous requests are
requests), `TransferAssumption` (files are sequences of bytes, a chunk has at least
one), `TunnelAssumption` (this operator is an operator, the binary has at least one
piece), `LokiFixAssumption` and `ExecutorAssumption` (the bounds are natural numbers) and
`ToolsAssumption` (a file that is read is a sequence of lines, a text that is edited
one of characters; addresses and
tokens are of plain bytes, an address without the bar that ends it; the rows of a
table have all its columns, there is at least one, and what is printed is the
header and the rows; a search has one of the three modes; a walk names every path once,
a path and a pattern have at least one segment, the base directory has a name, and every path walked has a time). The runs of the
same components evaluate them.

Every safety property that a passing run checks, of `AuthManager`, `Transport`, `AuditLog`,
`AgentHandler`, `FileTransfer`, `Tunnel`, `LokiFix` and `AgentTools`, is a theorem, and so are the
three refinements (`ImplementsOneTimeToken`, `ImplementsRemoteCall`, and the uses of
`AuthManager` and `AuditLog` on shared variables).

**AuthManagerProofs.** `OneTimeUse` alone is not inductive: nothing in it says
that a used token's entry, if still there, is marked. `IInv` adds that every
entry of `codes` comes from the history of issued tokens (`CodesFromHistory`,
with `used` exactly when the token was accepted), that an issued code token loses
its entry only by age or to a later code (`CodesKept`), the same two facts for
session tokens, that a token is issued once, and that nothing is recorded of a
token before it is drawn. From it follow, as theorems of `Spec`: `TypeCorrect`,
`OneTime`, `CodeAnswerHolds`, `SessionAnswerHolds`, and `Refinement`, that
every step maps to a step of `OneTimeToken` or a stutter.

**TransportProofs.** The conjuncts that are wanted are `CipherWithConn`,
`HeldByItsHandler` and `SameKey`. What makes them inductive is knowledge about what
each process may find in the network: connections are handed out in order
(`DialsInOrder`); an agent and the open end of its connection belong together
(`AgentsHoldLinks`); a handler that read a handshake has its token
(`HandlerStages`); to the server goes one handshake, then responses
(`ToServerOrder`); to the agent goes one answer, then requests, and while
the answer is owed and deliverable it is the first in the queue
(`ToAgentOrder`); the agent's side has a key, workers and a running loop only
after the answer (`AfterTheAnswer`); while the agent waits, both ends have the
same two tokens (`SameTokens`), which is why the keys agree even though the
client then replaces its session token. `StepIsAuthStep` shows that every step is
a step of `AuthManager` or leaves it alone, so `AuthManagerProofs!IInv` is a
conjunct of the invariant, and `AuthManagerIsUsed` that the system as a whole
implements `AuthManager`.

**SessionProofs.** *Tokens.* An agent has a *claim* once it has a session token or one
of its handshakes was accepted (`HasClaim`). A handshake carries the one-time
token of the agent that sent it, and a session token only if that agent has one
(`OwnTokens`): so a *first* claim is made by `AcceptCode` only, and costs the one
acceptance that `OneTimeUse` grants the token (`ClaimsPaid`). Hence no two agents
that were given the same code both have a claim (`ClaimsApart`), which is more
than `OneAgentPerCode`.

`SessionReconnects` speaks of one moment of a handshake, when the server falls back on the
one-time token. `SessionInv` says of every place a session token may be in (an
answer, an agent, a handshake, a handler) that it was issued as a session token;
that none is ever revoked; and that a handler which fell back on the one-time token found
it past its life. That the server knows every such token until then is
`SessionsKept` of `AuthManagerProofs`.

*Requests.* The refinement needs to know that a request runs at most once,
and that it can no longer run when its caller is given an error; neither is inductive.
`OnePlace` says where a request may be: on its way to an agent, with a worker, on its way
back, in the hands of a handler, or in the caller's channel, and in one of
them at most (`OneRequest`, `OneAnswer`); the places before its run
exclude those after it (`RunOnce`); and before it is written, or once its
call has returned an error, it has not run and is on its way to nobody (`CallerKnows`). Nothing of the
kind is said of a call that was interrupted: its request stays in `OnePlace`, and
may go through all of them after its caller has left. Few steps move a request. Of all the others,
`Quiet` and `Fewer` say that they only take messages away: a lost link, a teardown, a
reconnection or a refused handshake never brings one back. It follows that every step maps
to a step of `RemoteCall` or a stutter (`CallIsRemoteCall`), and that the channel of
capacity one is empty whenever a read loop delivers (`DeliveryIsFree`).

**AuditLogProofs.** That the chain breaks exactly at lost entries
speaks of two neighbouring lines of the file; that it does follows from facts about the entries logged.
`IInv` has: `prevHash` is the hash of the last entry, written or not
(`ChainAtLast`); an entry line is that of an entry that was logged and not lost, and
names the entry before it as its predecessor (`LinesAreLogged`); entry lines stand
in the order of their hashes (`LinesInOrder`); every entry logged is a line or is lost
(`NothingElseLost`), and only those are lost (`LostWereLogged`); and the summary a
reporter carries counts entries that are logged (`SummariesOfThePast`), which is
why one appended without the lock still stands below what it counts. From it follow `TypeCorrect`,
`ChainHolds` and `SummaryBelowItsEntries`, for any number of reporters and
goroutines that log.

**AgentHandlerProofs.** `StepIsLogStep` shows that every step of the agent is a step of
`AuditLog`, with the main goroutine as its one reporter, or leaves the log alone
(`AuditLogIsUsed`); so the invariant of `AuditLogProofs` is a conjunct of the agent's,
and the chain of the agent's own log holds (`AgentLogChainHolds`). The rest of the invariant ties
a worker's place to what was executed (`WorkerStages`), to the entries that are there
by then (`WorkIsLogged`), and the answers given to what the summary
counted (`AnswersAreCounted`: at the moment of SessionSummary every answer given is
logged, and main makes one summary only after the last connection, when nothing is answered
any more). `NeverMoreThanApproved` counts: every permission of a worker costs one
line with a yes, which it removes from the console (`PermissionsPaid`), and no line is read
twice (`LinesOnce`). This holds for both kinds of `TakeLine`.

**FileTransferProofs.** While a transfer runs, the destination holds the bytes of the
source before the current chunk and no others: `Uploaded` and `Downloaded`, each under the
weakest condition on what others did that makes it true (`HarmlessToUpload`,
`HarmlessToDownload`; `Smooth` adds that no read was cut short). `ShortSoFar` counts the bytes instead: once a
read was cut short, the destination stays behind the offset for good, which is why the size
tells. `LateChunks` says of every chunk of the last transfer that is still to be written
that it is the part of the source at the place where that transfer failed, so that
writing it, whole or in part, keeps `FailureSaysHowFar`. Further a chunk that was read is the part of the file at its offset, and full
unless it is the end (`ChunkRead`). `ChunksSay` is the arithmetic: the
chunks announced cover the file, and all but that of an empty file have bytes. From
this `SuccessCopies` (an action property), `FailureIsExact` and `ExistingFileKept`, for
files and chunks of any size. `TypeCorrect` includes that the number of chunks announced is never zero.

**LokiFixProofs.** Three parts that hardly share state. *The installation*: an
installed binary is whole because, as long as nobody gave up, whoever truncated the
temporary file last has written all that it has counted (`SomebodyCompletes`), and nobody
renames a file that another one has open. *The child*: of it only its types are
proved, since `TunnelServesOrEnds` is liveness. *The codes*: the file has a good code, or a handler is on
its way to put one there (`FileWillBeGood`), with a code that is nobody else's
(`FreshCodes`); while the client believes that an agent is there, a handler will
tell it otherwise (`WillBeTold`); and each connection draws one code at most
(`CodesCounted`), which bounds the codes.

**AgentToolsProofs.** *The command*: `ExecInv` says what Run and the shell know of each
other, that a killed shell has exit code 1 and that a shell which ended with exit code 0 has
printed everything; `RunReportsTheTruth` is the part of `CommandResultIsHonest` that speaks of
the race with the time limit. *The table* is its other part: `ParsedInParts` says that the loop over
the characters of a line may be followed piece by piece; between the quotes that ConvertTo-Csv puts
around a field, the loop only adds characters and drops the doubled quotes (`FieldIsRead`), so that
a comma inside is no end of the field (`QuotedIsRead`); by induction over the fields
`RowIsRead`, and a table of such rows loses none (`TableSays`). Hence `ResultsAreHonest`, for any
fields and any number of columns. *The pages*: `PageSays` is what one page has, for any
offset and limit, from which `PagesCover` follows for both ways to go on, next to a file that grows or vanishes. *The code*: `DigitsSay` and
`DecodedIsEncoded` are base64 and back, for any sequence of plain bytes.
What the decoder strips is a recursive function over the code. The prover has no rule of induction
to offer, but one can be proved for a set of numbers: `UpTo` says that a set
which has 0 and with each number the next one, up to n, has n (else its numbers below n
would be mapped one to one onto fewer). With it `WithoutSays` describes the recursive function, and
`PastedIsCleaned` follows: what is left of a code with a character too many is the code. Hence
`CodeSurvives`. *The edit*: Go's Count and Replace are loops over the positions of
the text, the promise is a recursion over what is left of it, and both are defined
by an equation, so `CountingExists`, `WritingExists` and `RewritingExists` first show by
induction that a function has it. `CountingSays`: what is counted are occurrences
that do not overlap, each other one overlaps one that began before, so that more than one is counted
exactly if two are apart (`CountSays`). `WrittenIsRewritten`: after each position, what the loop has
written is followed by what the recursion makes of the rest, which begins behind the
last string that was found. Hence `EditSays`, and `EditsAreExact` from `EditInv`: until it is answered
an edit holds the replacement of a text that was in the file.

*The search*: the code stops in the middle of three loops, the promise is a prefix of a list
of groups. `IsCut` is what connects them: what was found so far is the shortest prefix of the groups
met so far that reaches the limit, or all of them; `CutGoesOn` takes it over one match, `FileIsSearched` over
a file and `ContentIsCut` over the walk. `ContextSays` is the arithmetic of one group at the two ends of a file
and for negative contexts, and bounds it; `FilesAreRight` is the same for the modes that list files, and
`SearchIsComplete` follows from `GrepSays`. *The glob*: each of the two matchers computes sets backwards from the end of
the pattern, the promise speaks of a cut of the path; `CutExists` shows, once for both, that such
sets have a beginning exactly if there is a cut (the one from the other by induction downwards, the other by
choosing the next place), and `MatchSays` and `MatchDoubleGlobSays` that each step of the code is a step of
the cut. `SegmentsTake` (a pattern without `**` needs as many segments as it has) explains
the look at the name alone and that of filepath.Glob. `PickedOnce`: what is picked from a walk is there once, in
its order. `NewestSays`: the inner loop of the sort leaves what is before its entry, rearranges the
rest and ends with the newest of it, so that the outer one (`SortSays`) keeps the paths and descends. Hence
`GlobsAreRight` from `GlobInv`: between the walk and the sort the handler has what was found, and the times may
change until they are read.

**Only model-checked:** liveness (`BrokenConnectionEnds`, `AgentSettles`,
`CallReturnsUnlessFault`, `CtrlCEndsOnceAnswered`, `EndsWhenAsked`, `TunnelServesOrEnds`, `CommandsEnd`),
which is out of the prover's reach, as are ENABLED and what the fairness conditions
rest on. The three properties of the findings are violated, and refuted by a run each. What the
models mark as external, such as ConvertTo-Csv and filepath.Match, is assumed to do what its
definition says.

## 5. What is not modelled

Writes never block: TCP's send buffer is unbounded, so the hazard that the
server's lock is held during `conn.Write` is listed and not covered. Pings and
pongs are not messages of the model: `ReadPing` lets one be read whenever nothing else is in
the queue, and what becomes of the pong is left out. The code file can always be written (`Publish`); the code drops the error of
os.WriteFile (`cmd/lokifix-mcp/main.go:222`), and the file would then be the old one. `LokiFix` and `Transport` are not composed
into one state: the first has the callbacks of connections that come and go in
any way, the second has the connections with callbacks that are one step. The operator's log is not
composed with `LokiFix`: the disconnect callback reports on a logger that the clean-up
may have closed, which is `AuditLog` with two reporters and an early `Close`. Codes do not expire in `LokiFix`: one
that stands in the file for more than its fifteen minutes is no longer accepted, and no
code is generated until the next agent disconnects. Nor does the drawing of a
later code fail there: the callback would leave the file without one. A report file is
replaced in one step, a line is written whole or not at all, the end of the
console's input is not modelled, and the agent's check that a request is
dangerous is a constant set. The division by the number of chunks in
`handler.go:489` is not modelled; the operator never announces zero of them (`TypeOK` of
`FileTransfer`). A request that
never returns is a transfer that stops.

Of the tools: a regular expression is whether it matches a line, a file's filters
are files without lines, a name matches a segment of a pattern if they are equal or the
segment is `*`. ListDir, the single-message transfers that no tool of the operator uses
any more, and the queries that only pass on what Go's library says (GetSysInfo,
GetNetInfo, GetEnvVars) compute nothing that a property could get wrong. The
cryptography, the layout of messages, logs and reports, the console
interface and the installer are data or I/O that no property here looks at.

## 6. Plan

The models are complete as far as section 5 says: `OneTimeToken`, `AuthManager`,
`RemoteCall`, `Transport`, `AuditLog`, `AgentHandler`, `FileTransfer`,
`Tunnel`, `LokiFix`, `Executor`, `AgentTools` and their operators; the proofs are those
of section 4.

Every safety property of a passing run is proved. What could be added is in section 5: a
connection whose writes block, and the composition of `LokiFix` with `Transport`.
