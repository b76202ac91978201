# A TLA+ model of webserv

webserv is an HTTP/1.x server in C++98: one process, one thread, one epoll
loop. It serves files, directory listings and uploads, and relays requests to
CGI scripts it forks. This directory holds a TLA+ model of it, the TLC runs that
check the model on small instances, and TLAPS proofs of theorems that hold for
every instance.

## 1. Inventory

| Component | Source | State | Operations |
|---|---|---|---|
| Event loop | `src/EpollLoop.cpp`, `inc/EpollLoop.hpp` | `_connections` (descriptor to object), the epoll set, `_deletion_queue`, `_reserve_fd` | `run`, `add`, `mod`, `rearm`, `del`, `clear`, `delete_conn`, reserve |
| CGI children | `src/EpollLoop.cpp` | `_children` (pid to deadline, signalled) | `track_child`, `kill_child`, `reap_children`, destructor |
| Listening socket | `src/ServerConnection.cpp` | `fd` | `handle` |
| Client connection | `src/ClientConnection.cpp` | `_state`, `fd`, `_client_fd`, `_cgi_stdin_fd`, `_cgi_stdout_fd`, `_cgi_pid`, `_last_update`, `_buf`, `_req`, `_res`, `_stream` | `handle` and its handlers, `handle_timeout`, destructor |
| Request routing | `handle_setup`, `epi_redirect` | `_req`, `_loc`, `_denied_loc` | one call per request |
| Request parsing | `handle_req_line`, `handle_req_headers` | `_buf`, `_req` | one call per read |
| Scratch buffer | `src/ScratchBuffer.cpp` | `readpos`, `writepos` | `fill`, `feed`, `erase`, `clear`, `find` |
| Response | `src/Response.cpp` | queue of header lines | `add_*` |
| Configuration parser | `src/ConfigParser.cpp` | the file, the token stream, a stack of open blocks | `Lexer::lex_file`, `Grouper::group` |
| Configuration | `src/Config.cpp` | servers, locations, ports | location matching, virtual hosts, inheritance |
| Directory listing, logger, main | `src/autoindex*.cpp`, `inc/Logger.hpp`, `src/webserv.cpp` | none | |

How they interact. `main` registers a `ServerConnection` per listening address
and calls `run`. Each round of `run` waits in `epoll_wait`, calls `handle` of the
objects with an event, calls `handle_timeout` of the client connections that
have been silent for too long, deletes what was queued in the round, and reaps
children. The handlers call back into the loop: `add`, `mod`, `rearm`, `del`,
`track_child`, `kill_child`. A client connection has one registration at a time
and moves it between the client's socket and the pipes of its script; between
the loop's map, the epoll set, the object's `fd` field and its three other
descriptor fields there is no check at run time, only the discipline of the
handlers.

What is hard: deletion in the middle of a batch, several names for a
descriptor, descriptor numbers and pids that are reused at once, timeouts that
race with the same round's events, scripts that outlive or are outlived by their
connection, and a full descriptor table; bytes that arrive and are taken in
pieces cut anywhere, one buffer that serves both directions, and files that
uploads and downloads share. `PROJECT.json` lists the hazards with
the line where each bites.

What makes the components correct:

* the map, the epoll set and the objects name each other; nothing dangles;
* every descriptor has one owner, and every open one has an owner;
* a connection waits for what its state needs;
* every child is tracked until collected, and ended when nobody wants it;
* a client is answered at most once, and let go of in the end;
* a request is read as it was sent, however it is cut, and its body is passed on
  in order, each byte once;
* an answer reaches its client whole and in order;
* with the table full the loop sheds clients and does not spin;
* the end of the process leaves nothing behind.

## 2. Modules

| Module | Models |
|---|---|
| `Kernel` | external: descriptors (lowest free number first), processes, pipes, the backlog; the faults an instance may meet |
| `EpollLoop` | `EpollLoop`: registration, deletion queue, children, reaping |
| `ClientConnection` | `ClientConnection`: one action per state of `handle`, the timeout |
| `ServerConnection` | `ServerConnection::handle` |
| `Webserv` | composes them: `run`, the destructors, the shutdown, clients, scripts and clock; the properties |
| `Lifecycle` | abstract: what the server promises each client |
| `RequestSetup` | `handle_setup` and `epi_redirect`, the call between request and answer, cut at its branches |
| `Blocks` | reading `http`, `server` and `location` blocks: order, inheritance, options, refusals |
| `ScratchBuffer` | `ScratchBuffer`: positions, capacities, searches |
| `Transfer` | the bytes: the head of a request, the body to a file or a script, the output of a script, `handle_response`; streams and files |
| `ConfigParser` | `Lexer` and `Grouper`: from the characters of the configuration to the tree of directives |
| `Locations` | the tree of locations of a server and the search in it |
| `VirtualHosts` | servers, ports and sockets: the default server and the server of a name |
| `MCConfiguration` | instances of `Blocks`, `VirtualHosts` and `Locations` for TLC, one of which runs at a time: they share no state |
| `MCWebserv`, `MCTransfer`, `MCRequestSetup`, `MCConfigParser` | instances for TLC |
| `WebservProofs` | moves of handlers; type correctness; the inductive invariant of the server; descriptors, processes, abandoned scripts, shutdown, timeout loop, reserve; the refinement |
| `SetupProofs` | routing: the inductive invariant of one call |
| `RoutingProofs` | the default server and the server of a name; the location of a path |
| `BlocksProofs` | what a block takes over from those around it |
| `ParserProofs` | which tokens a file has, which files are taken, and what tree is made of them |
| `TransferProofs` | sequences and the buffer; the body keeps its order |
| `AnswerProofs` | the answer keeps its order, and how it ends; what is stored of an upload; what a script is answered by; the bounds of the buffer |
| `HeadProofs` | the head is read as it was sent; nobody waits for what is there |

`EpollLoop`, `ServerConnection` and `ClientConnection` are composed by `Webserv`.
`Transfer` models the same handlers again, with the bytes they move and without
the descriptors, events and processes. The others stand beside these two:
`ClientConnection!Setup` and the requests of `Transfer` let a request take any of
the routes, and `RequestSetup` says which route it takes and why; a location
there is what `Locations` finds, with the settings `Blocks` gives it, in a server
`VirtualHosts` picks, from the tree `ConfigParser` makes of the file. They share
no state at run time, because a configuration does not change once it was read.

**State.** The variables keep the names of the fields. `connections`,
`epollPtr` and `interest` are functions of the descriptor: the map, and the
pointer and events of the epoll registration. The fields of client connections
are functions of the object. `_state` is `st`; `REQ_SETUP` exists only within a
call of `handle` and is not a value of it. A deadline is kept as the ticks that
are left (`left`), a timestamp as the ticks since (`age`, capped one above
`Timeout`). Here the contents of `_buf`, request and response are abstracted to
`room`: how many more reads or writes the code's own limits (buffer capacity,
content length, response size) allow in this state. The head of a request has
such a limit for each line of it and none for their number: a line that is read
is erased, the buffer has its room again (`NextLines`), and the header fields
gather. What a handler does with the bytes is a choice among the outcomes the code has: incomplete, complete, error,
end of file. `Transfer` has the bytes.

**Steps.** `run` is cut at its handlers: `EpollWait`, one `Handle…` per event in
any order, `BeginSweep`, one `SweepOne` per expired connection, `Clear`, `Reap`.
Handlers are atomic because the process has one thread and does not block in
them. The environment (a client connects, a script exits, a second passes) steps
only while the loop is in `epoll_wait`: a handler makes one system call per
descriptor and round, and cannot tell whether what it finds happened before or
during the round.

**Abstractions.** An `EPOLLERR` or `EPOLLHUP` is not told apart from readiness: a
handler does on it what it does when its read or write fails, or what it does on
input; both are outcomes. One listening socket stands for all; one `Timeout` for
the per-location ones. The descriptors of `_stream` and of the temporary files
are not modelled. When a timeout handler erases the map element under the
iterator of the timeout loop, which is undefined behaviour, the model lets the
loop skip any of the other expired connections; it does not crash. The
destructors of the deleted objects run as one step. The fields of a freed object
take their initial values.

**The reserve.** `AcceptOutOfFds` is one step, because the handler does not block,
but it is the four calls of the code, each with what the one before left: the
reserve is released (`Released`), the second `accept` takes the lowest free number
or fails (`Shed`), what it returned is closed, and `open` takes a number again or
fails (`Reclaim`), in which case there is no reserve until the next time. The
mutants of the run `full` are two other orders of these calls.

**Life cycle.** `Lifecycle` has the head of a request (`heading`) as a stage of its
own, because the code promises less there: its fair part lets go of a client in
any stage but that one. `SilentHeadEnds` says what holds of it.

**Bytes.** In `Transfer` a byte is a string, so that the bytes a handler compares
(`cr`, `lf`, `nul`, `:`) and those it only moves can be told apart; a request
line's flaw is a byte that names the status it is refused with, its version,
HTTP/1.0 or 1.1, is a field of the request that is made, and a header
line the server makes is one byte and its line end. A connection is one record
(`conn[c]`): `_state`, `_buf`, the header fields read, `_req.status`,
`_written_body`, the lines of `_res` as one sequence that is taken a line at a
time, `_res_body`, `_stream` with its get position and what was put in and not
flushed, the temporary file; and, as history, what was read (`taken`), what the
head was taken for (`verdict`, `start`), what a file or script was given, what
the client got and was to get (`answer`, `plan`), and how it ended. `clean` says
that a script was started on an empty buffer and a closed stream, `torn` that
somebody else changed the file a connection has open. Each handler is an operator from a
record to a record and carries the source's name; an action picks how many bytes
the kernel moves and lets the record `Become` the new one, which also changes the
disk when a stream is opened for writing or closed. A stream may flush at any
time (`Flush`). A script that closes its stdin after a partial write leaves
`_buf` with `writepos` past what `erase` keeps: the position then wraps, and the
bytes read there are any (`Stray`).

**Routing.** One behaviour of `RequestSetup` is one call of `handle_setup`. Sites
and disks are chosen in `SetupInit`. A path is a resource and whether it ends in
a slash; a location is what the call reads of it; `Serves` gives the location of
a resource and `IndexOf` the index of a directory, which may be a directory.
`touched` is a history of what the call did to the disk. What the disk holds does
not change in a call, except by its own upload or deletion, after which the code
does not look again.

**Configuration.** In `ConfigParser` a file is a sequence of lines and a line a
sequence of characters, of which only the classes are kept that the lexer tells
apart. `lex_file` is cut at its tokens, `group` at its iterations; the blocks on
`group`'s stack are known by the token that opened them. In `Blocks` a directive's value is
the number of the block that said it, so that "which value" becomes "whose value";
the arguments themselves are not modelled, but for the two that may be left out
and then leave a field of the object as it was: `create_path` of
`upload_directory` and the status of `return` (`Options`). A `return` with a number and
nothing else reads past the end of its tokens (`Config.cpp:678`) and is not
modelled. In `Locations` a path is a sequence of parts, and the parts
are chosen so that prefix and suffix are what they are for strings. In
`VirtualHosts` the names and listens of a server block keep their order.

**Faults** (`Faults`, a constant): circumstances a run may include or leave out.
`timeout_page_cgi`: `error_page 408` names a path that has `cgi_pass`.
`pid_reuse`: `fork` returns a number a connection still remembers. `early_eof`: a
script closes its stdout and runs on. `enfile`: the system-wide file table is
full, so that any call that opens a descriptor may fail (`Opens`); without it one
fails when the server's own table is full. `listen_error`: `EPOLLERR` on the listening socket.

## 3. Runs

| Run | Instance | Checks |
|---|---|---|
| `webserv` | 2 clients, 2 pids, 9 descriptors, no faults | all safety properties of `Webserv`, the refinement of `Lifecycle` |
| `full` | 2 clients, 3 descriptors (room for one client) | the reserve and progress of `accept` |
| `live` | 1 client, 2 pids, all faults but `pid_reuse` | every script is collected, every client let go of whose head was read or does not go on |
| `header_dribble` | 1 client, no faults | violated: `HeadInTime` |
| `timeout_page` | 1 client, `timeout_page_cgi` | violated: `FdsAccounted` |
| `sweep_skips` | 2 clients, `timeout_page_cgi` | violated: `SweepReachesAll` |
| `transfer` | 1 or 2 connections, 118 requests, a buffer of 6 bytes | the head is read as it was sent, body and answer keep their order and are whole, uploads are stored, nobody waits for what is there |
| `transfer_leftovers` | the same | violated: `EveryScriptAnswers` |
| `setup` | 4 resources, 2 locations in 280 combinations, 6 disks, every method and error | routing: refusals, the disk, `Allow`, termination |
| `setup_unlisted` | the same with neither index nor listing | violated: `AlwaysTerminates` |
| `config_file` | files of up to 4 of 13 lines | the tokens are the text, the tree is that of the braces, what is refused |
| `configuration` | up to 3 directives of 11 kinds, with and without their options, in up to 4 blocks; up to 3 servers, 2 addresses, 2 names, 2 backlogs; up to 3 nested locations, 5 parameters, 7 paths | the innermost block decides; default servers, names, sockets, refusals; what the search finds, and that it narrows |

Bounds. Two clients are what the properties that relate connections need: each
is about one pair. Nine descriptors hold the listening socket, the reserve, and
for two clients a socket and two kept pipe ends each, plus the one that the last
`pipe` needs in passing; with three, one client fills the table. Two pids let two
scripts run at once or one follow another. `Timeout`, `CgiTimeout` and
`KillGrace` of one tick and `Units` of 1 let a limit be reached and not be
reached in every state; in `webserv` the first is 0, which a configuration may say
too (`Config.cpp:83`): a client is late one tick after it was last stamped. The backlog is bounded by the number of objects
(`Connect`). Connections and pids are symmetric in the safety runs.

Two locations are the one that is asked and the one of the error page; with
`REDIRECT_LIMIT` at its value of 5 a chain of pages can lead from one to the other
and back. Three servers are two that disagree on an address and one before, between
or after them. Three locations are a parent, a child and the sibling the child
copies. Three directives and four blocks put two directives of a kind, or two
that exclude each other, on one line of blocks and a third beside or below them.

A buffer of six bytes holds five and the NUL `fill` puts behind them. `host:a` with
its line end is the longest line that fits, `get x y z` with its own one too
many, and the heads of scripts are two, one and no bytes shorter than the buffer,
so that every limit is met, just met and missed; a head, a body and an output are
longer than the buffer and must go through it in several pieces, and reads and
writes of every size cut them everywhere, between CR and LF too. Bodies are as
long as they say, shorter, longer and empty. Requests are made one at a time, but
for two uploads of one file and an upload and a download of it: a file is all
that connections share in `Transfer`. Thirteen lines have every kind of token at
every place of a line that matters to the lexer, and four lines a block in a
block, or one refused between two others.

`Transfer` states no fairness. That something is answered in the end is about
who waits for whom, and there it is a safety property: in no state does a handler
wait for bytes that were read already (`NobodyWaits`). `Webserv` has the clock.

Fairness (`FairSetup`): the call is not interrupted; each of its steps is a
statement that returns. `Terminates` holds of sites where every directory has an
index or a listing; `setup_unlisted` shows that the condition is needed.

Fairness (`FairSpec`): weak fairness of the loop as a whole, because the process
is scheduled and its calls return, and strong fairness of the clock, which can
only tick between two rounds but then always may: `epoll_wait` waits up to 5 ms.
Clients and scripts are promised nothing: they may send nothing, read nothing
and never exit.

What the timeouts promise under it: `LifecycleFairSpec` is about clients whose head
was read. One whose head is not complete is let go of when it falls silent or sends
a line that does not end, which is `SilentHeadEnds`: from some time on no read
completes lines of its head. It may complete them for ever, because every read
stamps the connection and there is no limit to the lines; `header_dribble` shows
it. `SweepReachesAll` holds where no script is the page of a timeout, and says that
`handle_timeout` has an end in every state; `sweep_skips` has the other case,
the handler that moves the connection in the map it was called from. A
process that a script leaves behind with the script's stdout is not modelled:
the output of a script is taken to end with it.

What the violated runs show is described in `PROJECT.json`, `findings`. Other
disagreements met while modelling, for which no run is kept; where a `.cfg` is
named it gives the counterexample, under the `MC` module of its component:

* a script that closes its stdout and runs on (`early_eof`) outlives its
  connection until its own deadline (`ClientConnection.cpp:1166`);
  `AbandonedScriptsCondemned` is therefore checked without that fault;
* after `ENFILE` the reserve may not be had back before the next `accept` that
  fails (`EpollLoop.cpp:203`), and nothing tries: "then take the reserve back"
  (`ServerConnection.cpp:27`) is a hope. `ReserveReady` is violated in
  `WebservReserveLost.cfg`, which has that fault;
* when the page configured for 413 is missing, the status is no longer 413 where
  the code decides whether to drain the body (`ClientConnection.cpp:709`);
* a second refusal, of the error page, overwrites `_denied_loc`, so `Allow` lists
  what the error page's location allows (`ClientConnection.cpp:637`);
* an index that an extension location is responsible for is served by the
  directory's location (`ClientConnection.cpp:651`);
* the response code -1 of an error page is used as a status
  (`ClientConnection.cpp:547`);
* an error on a server whose "/" allows no GET is answered 405, because the method
  is already that of the error page when it is checked (`ClientConnection.cpp:582`):
  "a server must respond with 400 to a HTTP/1.1 request without host header"
  (`ClientConnection.cpp:483`) is then not what it does. `BadRequestIs400` is
  violated in `SetupPostOnly.cfg`;
* two backlogs for one address are refused (`Config.cpp:1612`), although
  `CONFIGURATION.md:117` says the default server's prevails: `BacklogPrevails` is
  violated in `VirtualHostsBacklogs.cfg`. `RefusedIsAmbiguous` is about
  configurations with one backlog for each address;
* regular locations are also compared with the end of a path (`Config.cpp:1538`), so
  that a location "/b" serves "/a/b" before "/a" does, against "the longest match"
  of `CONFIGURATION.md:69`: `LongestMatch` is violated in `LocationsRegularEnd.cfg`.
  `AnswerIsBest` says nothing of the length where a path ends in a regular location;
* of the extension locations the first that fits is taken, not "the longest
  matching one" (`Config.cpp:1286`; `CONFIGURATION.md:71`): `LongestExtension` is
  violated in `LocationsFirstEnd.cfg`;
* a nested location starts as a copy of its parent with the siblings read so far
  (`Config.cpp:1248`), so that the search can leave what was to be "only
  reachable under their parent location" (`CONFIGURATION.md:67`), and go on to a
  match that is no better: `OnlyToBetter` is violated in `LocationsCopies.cfg`, and
  `Narrows` says what still holds;
* a `return` without a status, in a location below one that gives one, answers with
  that one (`Config.cpp:667`) and not with "the default response code"
  (`CONFIGURATION.md:187`): `ReturnDefaults` is violated in `BlocksReturn.cfg`. In the
  same way `create_path` cannot be taken back (`Config.cpp:502`);
* `output_buffer` tests the flag of `default_type` (`Config.cpp:1221`): said
  twice it is accepted, and said once after `default_type` it is refused;
* `_cgi_pid` is not reset when `reap_children` collects the script; if the kernel
  gives the number to another connection's script, the first connection's
  destructor condemns that one. The fault `pid_reuse` of `Webserv` has it;
* the last line of a configuration is read only up to its first token if no
  newline ends it, and a file of one such line is empty (`ConfigParser.cpp:208`);
  `TokensAreTheText` is stated for files that end in one;
* a character no pattern takes ends the lexing without a word: `load` does not
  ask what `lex_file` returned (`ConfigParser.cpp:279`);
* a `{` without a name asks for the front of an empty vector
  (`ConfigParser.cpp:301`);
* a number at the end of a line is lexed as a string, because the end of the line
  is neither a space nor a semicolon;
* directives and blocks with a name that is no string are reported and passed
  over; the block's contents fall to the block around it, and if a closing brace
  is missing too the file is accepted (`ConfigParser.cpp:302`);
* a header line of `Capacity - 1` bytes or more never fits into the buffer and
  the connection is dropped instead of answered (`ClientConnection.cpp:829`), also
  when it is one of a script's, all of which "reach the client with exact values"
  (`cgi_test.clj:33`): `ScriptAnswerArrives` is violated in `TransferStuck.cfg`, and
  `EndsWhole` says it is the only such case;
* a script's head of `Capacity - 1` bytes is accepted or answered 502 depending on
  how the reads cut it (`ClientConnection.cpp:1026`; `ScriptAnswers` allows both);
* bytes beyond `Content-Length` that come with the body are given to the file or
  script as well (`ClientConnection.cpp:1149`), although an upload is drained "until
  content_length bytes have been written" (`upload_test.clj:6`): `BodyEnds` is
  violated in `TransferBeyond.cfg`; `BodyInOrder` allows it;
* an upload truncates the file a download is being answered from
  (`ClientConnection.cpp:758`), and the bytes delivered are not "the advertised
  Content-Length" (`regression_test.clj:35`): `SentAsPromised` is violated in
  `TransferShort.cfg`; `AnswerInOrder` and `EndsWhole` leave such connections out;
* an upload that times out and whose page for 408 is a script still has its
  stream open: opening the temporary file fails and the page's body is lost
  (`ClientConnection.cpp:1053`);
* when `setup_autoindex` cannot make its temporary file it sets up a static page,
  over which a second response is then written (`ClientConnection.cpp:661`).

## 4. Theorems

For every number of connections, descriptors and pids and every set of faults,
from `KernelAssumption`, `LoopAssumption` and `ClientAssumption` alone:

* `TypeCorrect`: `Spec => []TypeOK`.
* `ServerSound`, and from it `RegistryHolds`, `PointersHold`, `OwnersDiffer` and
  `InterestHolds`: the registry, the pointers, the ownership of descriptors and
  the interest are right in every state.
* `ChildrenNeverForgotten`: the registry of children is the set of processes.
* `ServerRefinesLifecycle`: the server implements `Lifecycle` (its safety part).

For every site, disk and request, from `SetupAssumption` alone:

* `SetupTyped`, `SetupCorrect`, `RefusalsHold`: a request that was refused, in
  error or too large is never answered as a success and does not change the disk.
* `TouchesHold`: what is deleted or stored is what the client asked for, or what
  its indexes lead to, by a location that allows it.
* `AllowHolds`: the `Allow` of a 405 is that of a location that refused.

For every configuration, from `HostsAssumption` alone:

* `HostsCorrect`, `DefaultHolds`, `RoutingHolds`: the default server of an address
  is the declared or else the first one; a name reaches the server that has it.
* `AddressesHold`: every address of every server has a socket.
* `RefusalHolds`: with one backlog for each address, a configuration is refused only
  when it has two defaults or one name twice at one of them.

For every tree of locations, of any depth and with any paths that are not empty,
and every path that is asked for, from `LocationsAssumption` alone:

* `AnswerHolds`: what serves the path is a location it begins or ends with; and
  unless the path ends in a regular location of the server, an extension of the
  server's when one fits, or else the longest of its locations that the path begins
  with, or one found in it.
* `SearchNarrows`: the search goes on to longer paths only, except below a location
  that began as a copy of others.

For every file, however many blocks lie in or beside each other, from
`BlocksAssumption` alone:

* `BlocksInherit`: a directive takes effect with what the innermost block around
  says, an option with what the innermost block that gives the option says, and
  `cgi_param` with what all of them say.

For every file, of any length and depth, from `ParserAssumption` alone:

* `ParserTypeCorrect`: `top()` and `pop()` never meet an empty stack.
* `TokensHold`: the tokens of a file whose last line is ended are its words and
  marks from left to right, up to a character that cannot be read.
* `QuietHolds`: a file is taken without a complaint exactly when its braces match,
  its directives end and its names are strings.
* `TreeHolds`: in such a file a directive stands in the innermost block around it,
  once and in order, with its words.
* `RefusalsNoticed`: a block that was refused for its name makes `group` return
  false in the end, unless the file has more opening braces than closing ones.

For every buffer, every content of the files, every set of requests and every cut
of the reads and writes, from `TransferAssumption` and `WordsAssumption` (which
says that the words of the model are strings):

* `BodyKeepsOrder`: a file or script is given the bytes after the head, each once
  and in order.
* `AnswerKeepsOrder`: what the client has got, followed by what is left in the
  buffer, the header lines, the file and the page, is the answer as it was decided.
* `AnswersEndWhole`: a connection that ends after its answer has sent the whole of
  it, or has a header line next that cannot fit into the buffer.
* `UploadsAcknowledgedWhole`: an upload is answered when all of its body was given
  to the stream.
* `UploadsReachTheFile`: when its connection ends, in whatever way, the file holds
  what was given, unless somebody else wrote to it.
* `ScriptsAnswerWhole`: a script that is first listened to with an empty buffer and
  no open stream is answered by all of its output, in one piece, or with a 502 if
  the end of its head is missing or leaves no room.
* `HeadsReadAsSent`: a head, of HTTP/1.0 or 1.1, is refused with the status, or accepted with the fields
  and the begin of the body, that all of what the client sends gives it when it is
  read at once and without a buffer.
* `NobodyIsKeptWaiting`: no handler waits for bytes of a client that it has read
  already, and a buffer that a script has filled is given up or emptied next.
* `TransferTypeCorrect`: where a request is read or answered the positions of the
  buffer are in order and in its memory, there is room for the NUL of `fill`, and
  a stream that is open has its file.

Unless a script serves the page of a timeout (`timeout_page_cgi`, which the run
`timeout_page` shows to be needed):

* `NothingLeaks`: open descriptors are the owned ones.
* `ShutdownIsClean`: the end of the process leaves no child, object or descriptor.
* `SweepIsComplete`: when the timeout loop is through, every connection that is late
  is on its way out, in whatever state it was found.
* `AbandonedAreCondemned`: a script without a connection is due for a signal or has
  had one; this needs also that no script closes its output and runs on
  (`early_eof`).

Unless the system's file table is full (`enfile`):

* `ReserveIsReady`: the reserve is there when the server's own descriptors run out,
  however often it was released: what `open` needs to take it back is what closing
  the client that was turned away has freed.
* `AcceptProgresses`: every event on the listening socket takes a client off the
  backlog, if the socket does not break (`listen_error`).

The argument. `WebservProofs` first shows that every handler, and the timeout,
makes exactly one of ten *moves* (`Move`), so that an invariant need only be
shown to survive ten cases. The safety properties are not inductive one by one.
`RegistryMatches` survives a `rearm` only if the new descriptor is not watched
for another object; that follows from `FdsNotShared` when the connection holds it
already, and from `OwnedOpen` when the kernel has just handed it out;
`FdsNotShared` survives an `accept` or a `pipe` only because owned descriptors
are open; `OwnedOpen` survives a `close` only because the closed one is not
shared; and that the closed one is the script's stdin is
`InterestMatchesState`. `FieldsMatchState` supplies that the pipe end a state
moves to exists. `Sound` is the conjunction of these, with `PhasesClean` for the
pointers the loop holds; `ServerSound` proves it inductive.

`AbandonedScriptsCondemned` is no invariant of a step either: it says nothing of a
script whose connection still exists. `Attached` says that the connection still
names the script by its `_cgi_pid`, or that the script is due or signalled, and
that a connection whose request is being read names none, so that a new script is
never written over an old one. Of the moves of a handler, only the one that
answers 502 leaves a script that runs, and it makes the script due; deleting the
connection makes it due as well.

`RefusalsStayRefused` is about the end of a call and says nothing on the way.
What is kept on the way is `SetupSound`: once an error was met the call is
*chastened*, its method is GET, its status is not a success and nothing was
touched, and every branch that could make it a success again needs another
method. `TouchesTheAsked` adds the converse (`Own`): a request whose method is not
GET has never been sent to an error page, so its location and the method's
permission are those of the path the client asked for, and the indexes followed
since then lead to where it is.

`DefaultIsDeclared` and `RoutedByName` speak of servers all of whose addresses
were entered. While the file is read, the last server has been entered at some of
them: `HostsSound` says of each port what the servers *entered there so far* say
(`OnPort`), and that no server was entered at an address twice (`EnteredOnce`),
which holds because its own names would stop it. That the declared default server
is unique needs the latter: a server with one address listed twice is refused.
`RefusedIsAmbiguous` needs in addition that the backlog of a port is that of a
listen directive entered there (`BacklogSound`).

A location is a record that holds records of its kind, to any depth, and there is
no induction over it to be had. `Deep` goes without: a location is sound when it
lies in some set of sound records that has the locations below each of its members
too. Such a set is given anew when a location is closed, and the search goes from
member to member. `AnswerIsBest` then needs only what the search has seen so far of
the list it is in, and that this list is the server's or one below an answer that
is good already (`SearchSound`).

`Inheritance` is about blocks that were read; while they are read the settings of
the open blocks are what the directives *so far* call for. `Nested` says that, and
that a block with another one in it has no more directives to come, which is why
copying the settings inwards when a block opens is enough: nothing that is said
later is said around it. `ReadSound` says so of the blocks that were read: those
around them are past their directives.

The grouper is at token `it`. `GroupInv` says where it stands in terms of what a
reader sees of the tokens before it: the words that wait are those since the last
delimiter, an error was printed when one of the delimiters before is out of place,
and the depth by braces is that of the stack and the blocks that were refused
(`BracesCount`). As long as no error was printed the stack holds exactly the blocks
around, each with all that ended in it, in order (`StackIsAround`, `Holds`); a
block is handed to its parent when it closes, so one that is still open does not
count (`OnStack`). That the first error spoils the file whatever comes after it
gives one half of `QuietIffWellFormed`, the braces the other.

`BodyInOrder` says nothing of the head. `InOrder` does: while the head is read the
buffer holds the last of what was read (`Lastly`), which reading appends to and
`erase` takes from the front of; when the head ends, `start` is put where the
buffer begins, and from then on what was given and what is unfed are together the
bytes from `start` to `taken`. A connection that does not pass a body on keeps
what it gave (`Late`, `Declines`).

`AnswerInOrder` needs that nothing was sent before there is an answer (`Silent`),
that a page and a file are never both there, since the page is sent after the
file, and that a file that is being read is on the disk (`Shaped`): `Owes`. Each
handler is shown to keep it for the disk it ran on (one lemma per handler,
`Fits`); filling the buffer moves bytes from the front of what is left to the end
of the buffer and leaves their concatenation alone (`HeadersMove`, `FileMoves`,
`BodyMoves`). Then the disk changes under the connections: a handler that begins
to read a file has written none (`Steady`), so its own disk did not change, and
the others are torn if theirs did (`SetOwes`). The positions of the buffer are out
of order in `CGI_HEADERS` at times; that the header lines are still bytes
(`ScriptFieldsTyped`) is proved of the recursive function by a least
counterexample, since induction is not to be had.

`EndsWhole` follows from it once a connection that has sent everything has nothing
left to send. `Whole` says what that takes in each state: the buffer has its
capacity, no end was reached yet, and until a script's page is written the stream
has not failed (`Ready`); an answer with a failed stream has neither header lines
nor a page (`Bare`). A pass of `handle_response` that moves nothing into an empty
buffer has then either come to the end of header lines, file and page, or met a
line that is longer than the buffer can be.

`BodyWhole` needs that the count of the bytes is the count of what was given while
the body is read, and that nothing but a body is read into an open upload
(`Told`). `UploadStored` is about the last step; what holds before it is that the
file followed by what is pending is what was given, and that the stream is at the
end of the file (`Laid`). A handler adds to what is pending or opens an empty file
(`Loads`); the library moves bytes from what is pending to the end of the file
(`FlushLaid`); another connection that changes the file tears the upload. That the
connection that ends is the one that takes the step, and leaves no stream open, is
`Whole`.

`ScriptAnswers` speaks of the answer when it is decided; what leads to it is `Hears`.
While the head of a script is read the buffer holds all that was heard and no end
of a head (`Listens`); when the end comes the header lines are those of the whole
output, because a head that ends in a prefix ends there in all of it; from then on
the temporary file and the buffer together are what was heard behind the head
(`Spools`), and at the end of the output that is all of its body (`Answered`). A
connection that was not clean when its script was first listened to never becomes
so, which is why no more is claimed of it: `EveryScriptAnswers` is violated.

`TransferTypeOK` says that the buffer is in bounds only in some states, and there
it is not inductive: that reading does not overrun the buffer needs room for one
byte more than was read. `Typed` asks for that room (`Room`) in every state but
the answer, where the buffer may be full (`Brimful`); an answer is begun with the
room and only drained and filled up to the capacity, and no way leads back from it
to reading. The order of the positions comes from `InOrder` and `Owes`, the file of
a stream from `Laid` and `Shaped`.

The reference of `HeadReadAsSent` is not a second parser that runs along with the
first: it speaks of all the line ends in what the client sends (`LineEnds`) and of
the first of them that decides (`Decides`). `Waits` says how far a handler has got:
the line that is being read begins at some position `p`, none of the lines before
it decides, the fields collected are those that the lines before `p` name
(`Says`), the buffer holds what was read from `p` on and no line end, and
there is room in it for one more byte. A read that brings a line end brings the
one the reference sees there, because a CR at the end of the buffer stays in it
until its LF comes; so a line is judged alike by both, and one that is judged
without a flaw moves `p` behind it. `Awaits` is the inductive
invariant of a connection: that, what is on record of the head, and what
`NobodyWaits` needs once the head was read: the count of the body is what was
given or discarded and less than what is to come, and a buffer that a script fills
has nothing in front that was fed already (`Loaded`).

The reader of `TokensAreTheText` takes one character after the other (`InLine`,
`InFile`), the lexer a token at a time, with no thought of what came before. Where
the lexer stands the two agree in one respect (`Fits`): the next character, or the
end of the line, does to the reader what it would if the tokens found so far were
out and no word was open. That is the invariant (`LexAt`); a space keeps it, a
blank line keeps it, and a token moves it to where the token ends, whatever the
pattern was that took it (`TokenRead`). The hard case is a number, which is one only if the
character behind its unit says so (`NumberRead`, `NumberlikeRead`). That functions
defined by recursion exist, and what stays the same over many characters
(`Iterates`, `Stays`), is proved by a least counterexample.

Only model-checked: everything under fairness (`ScriptsCollected`,
`LifecycleFairSpec`, `SilentHeadEnds`, `Terminates`), which is beyond the prover.
Every invariant of a passing run is a theorem.

## 5. Plan

Done: the event loop with its connections and scripts, routing, the bytes of
requests and answers with buffer, relay and uploads, the configuration from its
characters to its servers. What is left:

* Open file descriptions shared with a child between `fork` and `execve`.

## 6. Not modelled

* Inside a request line: percent-decoding, the normalization of the path, the
  method and version; HTTP/0.9. A flaw is a byte.
* Failures of `mkstemp`, of writes to a full disk, and while the sockets are
  opened; the directory an upload may create.
* In `Transfer`: an error page that is a file (it is answered as a file is), and
  failures of `fork` and `pipe`, which `Webserv` has.
* The argument checks of the configuration's directives; numbers and their units.
* The HTML of a directory listing, the wording of header lines, logging.
* Open file descriptions as such: a descriptor number is all the models have.
