------------------------------- MODULE Transfer -------------------------------
(* The bytes of a connection: what its client sends goes through one buffer to  *)
(* the parser of the head, then to a file or to a script, and what answers it   *)
(* comes through the same buffer from the header lines, a file, a script or a   *)
(* page. Every read and write takes as many bytes as the kernel lets it. Which  *)
(* route handle_setup() takes is given: RequestSetup is about that.             *)
EXTENDS ScratchBuffer, FiniteSets, TLC

CONSTANTS
    Conns,
    Files,          \* the paths of files
    Locked,         \* those that stat() finds and nobody may open
    Worlds,         \* what the files may hold at first, and the clients ask for
    Capacity        \* client_header_buffer_size

Routes == {"file", "listing", "upload", "script", "large"}

\* A request. head and body follow each other on the wire; version is what the
\* request line names, length the value of Content-Length. page says what answers errors, output what a script
\* writes, or what a listing says.
Requests == [head : Seq(STRING), body : Seq(STRING), length : Nat, post : BOOLEAN,
             version : {"HTTP/1.0", "HTTP/1.1"}, route : Routes, file : Files, page : {"inline", "script"},
             output : Seq(STRING)]

ASSUME TransferAssumption ==
    /\ Files \subseteq STRING /\ "temp" \notin Files
    /\ Locked \subseteq Files
    /\ \A w \in Worlds :
          /\ w.disk \in [DOMAIN w.disk -> Seq(STRING)] /\ DOMAIN w.disk \subseteq Files
          /\ w.asked \in [DOMAIN w.asked -> Requests] /\ DOMAIN w.asked \subseteq Conns
    /\ Capacity \in Nat /\ Capacity > 2

\* The words the handlers put into answers, and those of the history, are strings,
\* like those of the requests.
ASSUME WordsAssumption ==
    {CR, LF, NUL, Stray, "date", "length", "location", "page", "none", "0", "200", "201", "204",
     "400", "404", "408", "411", "413", "414", "431", "500", "501", "502", "505",
     "ok", "sent", "stuck", "dropped"} \subseteq STRING

VARIABLES
    asked,      \* the requests
    disk,       \* what the files that exist hold
    conn        \* the connections

vars == <<asked, disk, conn>>

\* What has been written to a file and has not left the stream is pending.
NoStream == [mode |-> "none", file |-> "temp", pos |-> 0, pending |-> <<>>, eof |-> FALSE, good |-> TRUE]
Stream(mode, file) == [NoStream EXCEPT !.mode = mode, !.file = file]

\* The last seven fields are history: how many bytes of the request were read,
\* what the parser made of the head and where it ended; what a file or a script
\* was given; what the client got, and was to get; how the connection ended.
Fresh == [state |-> "REQ_LINE", buf |-> Buffer(Capacity), fields |-> <<>>, status |-> "none",
          written |-> 0, headers |-> <<>>, body |-> <<>>, stream |-> NoStream, temp |-> <<>>,
          heard |-> 0, clean |-> FALSE, torn |-> FALSE,
          taken |-> 0, verdict |-> "none", start |-> 0, given |-> <<>>,
          answer |-> <<>>, plan |-> <<>>, end |-> "none"]

Present == DOMAIN asked

Sent(q) == q.head \o q.body

-----------------------------------------------------------------------------
\* The head of the request.

\* The line that ends at e, one of the places of "\r\n" in d.
LineTo(d, e) ==
    LET before == {i \in Ends(d) : i < e}
    IN SubSeq(d, IF before = {} THEN 1 ELSE Max(before) + 2, e - 1)

\* Bytes that stand for what is wrong with a request line: how it is answered.
Flaws(line) ==
    IF line = <<>> THEN {"400"} ELSE {line[i] : i \in DOMAIN line} \cap {"400", "501", "505"}

Fail(k, status) == [k EXCEPT !.state = "REQ_SETUP", !.status = status]

handle_req_line(k) ==
    LET d == k.buf.data
        end == Min(Ends(d))
        flaws == Flaws(LineTo(d, end))
    IN IF Ends(d) = {}
       THEN IF FillCapacity(k.buf) <= 0 THEN Fail(k, "414") ELSE k
       ELSE IF flaws # {}
       THEN Fail(k, CHOOSE f \in flaws : TRUE)
       ELSE [k EXCEPT !.state = "REQ_HEADERS", !.buf = Erase(@, end + 1)]

Colons(line) == {i \in DOMAIN line : line[i] = ":"}
Name(line) == IF line = <<>> THEN "" ELSE line[1]
Value(line) == SubSeq(line, Min(Colons(line)) + 1, Len(line))

\* A header line nothing can be made of.
Malformed(line) == line # <<>> /\ (Colons(line) = {} \/ line[1] = ":")

\* Does the line that ends at e name the host again?
HostAgain(k, d, e) ==
    /\ Name(LineTo(d, e)) = "host"
    /\ \/ "host" \in DOMAIN k.fields
       \/ \E i \in Ends(d) : i < e /\ Name(LineTo(d, i)) = "host"

\* Where handle_req_headers() stops: the blank line, or one it refuses.
Stops(k, d) ==
    {e \in Ends(d) : LineTo(d, e) = <<>> \/ Malformed(LineTo(d, e)) \/ HostAgain(k, d, e)}

\* _req.headers with the lines that end in E: the first of a name stays.
Insert(fields, d, E) ==
    LET names == {Name(LineTo(d, e)) : e \in E}
    IN [n \in DOMAIN fields \cup names |->
           IF n \in DOMAIN fields THEN fields[n]
           ELSE Value(LineTo(d, Min({e \in E : Name(LineTo(d, e)) = n})))]

\* This byte stands for a port or a number that is none.
Bad(value) == value # <<>> /\ value[1] = "bad"

\* A host that is not named, or empty, is missed by HTTP/1.1 alone.
HostRefused(host, q) == Bad(host) \/ (host = <<>> /\ q.version = "HTTP/1.1")
LengthRefused(value) == value = <<>> \/ Bad(value)

\* Mutant of parse_req_headers: HTTP/1.0 is asked for a host as well.
parse_req_headers_strict(k, q) ==
    LET host == IF "host" \in DOMAIN k.fields THEN k.fields["host"] ELSE <<>>
    IN IF host = <<>> \/ Bad(host) THEN Fail(k, "400")
       ELSE IF "len" \in DOMAIN k.fields
       THEN Fail(k, IF LengthRefused(k.fields["len"]) THEN "400" ELSE k.status)
       ELSE Fail(k, IF q.post THEN "411" ELSE k.status)

parse_req_headers(k, q) ==
    IF HostRefused(IF "host" \in DOMAIN k.fields THEN k.fields["host"] ELSE <<>>, q)
    THEN Fail(k, "400")
    ELSE IF "len" \in DOMAIN k.fields
    THEN Fail(k, IF LengthRefused(k.fields["len"]) THEN "400" ELSE k.status)
    ELSE Fail(k, IF q.post THEN "411" ELSE k.status)

handle_req_headers(k, q) ==
    LET d == k.buf.data
        stops == Stops(k, d)
        stop == Min(stops)
        read == {e \in Ends(d) : stops = {} \/ e < stop}
        \* what is left after the lines that were read
        rest == [k EXCEPT !.fields = Insert(@, d, read),
                          !.buf = IF read = {} THEN @ ELSE Erase(@, Max(read) + 1)]
    IN IF stops = {}
       THEN IF FillCapacity(rest.buf) <= 0 THEN Fail(rest, "431") ELSE rest
       ELSE IF LineTo(d, stop) # <<>>
       THEN Fail(rest, "400")
       ELSE parse_req_headers([rest EXCEPT !.buf = Erase(@, 2), !.written = 0], q)

-----------------------------------------------------------------------------
\* The answer.

Lines(names) == [i \in 1..3 * Len(names) |->
                    IF i % 3 = 1 THEN names[(i + 2) \div 3] ELSE IF i % 3 = 2 THEN CR ELSE LF]
Blank == <<CR, LF>>

\* What a stream that is read from has yet to give.
Unread(k, files) ==
    IF k.stream.mode # "in" \/ k.stream.eof THEN <<>>
    ELSE LET whole == IF k.stream.file = "temp" THEN k.temp ELSE files[k.stream.file]
         IN SubSeq(whole, k.stream.pos + 1, Len(whole))

\* All that is left to answer, but for what the buffer holds.
Rest(k, files) == k.headers \o Unread(k, files) \o k.body

\* The state the client is answered in, with its history.
Respond(k, files) == [k EXCEPT !.state = "RESPONSE", !.plan = Rest(k, files)]

\* setup_internal_error(): a page of its own, in a buffer of its own.
InternalError(k) ==
    LET page == Lines(<<"500">>) \o Blank
    IN [k EXCEPT !.state = "RESPONSE", !.plan = page, !.buf = SetData(page),
                 !.stream = NoStream, !.headers = <<>>, !.body = <<>>]

Headed(k, names) == [k EXCEPT !.headers = Lines(<<k.status, "date">> \o names) \o Blank,
                              !.buf = Clear(@), !.body = <<>>]

\* setup_res(), for a file,
AnswerFile(k, f, files) ==
    IF f \in Locked
    THEN InternalError(k)
    ELSE Respond([Headed(k, <<"length">>) EXCEPT !.stream = Stream("in", f)], files)

\* an error without a file,
AnswerPage(k, files) ==
    Respond([Headed(k, <<"length">>) EXCEPT !.body = <<"page", k.status>>], files)

\* and an upload that is complete: its stream stays open.
AnswerUpload(k, files) == Respond(Headed(k, <<"location">>), files)

\* setup_autoindex(): the listing goes through a temporary file.
AnswerListing(k, q, files) ==
    Respond([Headed(k, <<"length">>) EXCEPT !.temp = q.output, !.stream = Stream("in", "temp")],
            files)

\* The handler goes on to what the script writes. The buffer is as it is.
Collect(k) == [k EXCEPT !.state = "CGI_HEADERS", !.heard = 0,
                        !.clean = k.buf.data = <<>> /\ k.stream.mode = "none"]

\* setup_cgi(): a body is passed on first.
setup_cgi(k, length) ==
    IF length > 0 THEN [k EXCEPT !.state = "CGI_TRANSMIT_BODY", !.written = 0]
    ELSE Collect([k EXCEPT !.written = 0])

\* handle_setup(), after an error: the page for it is there, written by a script,
\* or missing. What is left of a body that is too large is read first.
AnswerError(k, q, files) ==
    IF q.page = "script" THEN setup_cgi(k, 0)
    ELSE IF k.status # "413" THEN AnswerPage(k, files)
    ELSE LET drained == [k EXCEPT !.written = FeedCapacity(k.buf), !.buf = Clear(@)]
         IN IF drained.written >= q.length THEN AnswerPage(drained, files)
            ELSE [drained EXCEPT !.state = "DISCARD_BODY"]

Refuse(k, status, q, files) == AnswerError([k EXCEPT !.status = status], q, files)

\* The bytes in the buffer go to the stream, which takes them all.
Stored(k) ==
    [k EXCEPT !.stream.pending = @ \o Unfed(k.buf), !.given = @ \o Unfed(k.buf),
              !.written = @ + FeedCapacity(k.buf), !.buf = Clear(@)]

\* Mutants of Acknowledged: the last byte is not waited for, or one more is.
AcknowledgedEarly(k, length) == k.written + 1 >= length
AcknowledgedLate(k, length) == k.written > length
Acknowledged(k, length) == k.written >= length

\* handle_post() and handle_post_leftover(), once the bytes are in the buffer.
StoreBody(k, q, files) ==
    IF Acknowledged(Stored(k), q.length) THEN AnswerUpload(Stored(k), files)
    ELSE [Stored(k) EXCEPT !.state = "REQ_BODY"]

\* 201 when the file is new, 204 when it is replaced.
PostStatus(f, files) == IF f \in DOMAIN files THEN "204" ELSE "201"

\* setup_post()
setup_post(k, q, files) ==
    IF q.file \in Locked THEN Refuse(k, "500", q, files)
    ELSE StoreBody([k EXCEPT !.status = PostStatus(q.file, files), !.written = 0,
                             !.stream = Stream("out", q.file)], q, files)

handle_setup(k, q, files) ==
    LET ok == [k EXCEPT !.status = "200"]
    IN IF k.status # "none" THEN AnswerError(k, q, files)
       ELSE CASE q.route = "large" -> Refuse(k, "413", q, files)
              [] q.route = "upload" -> setup_post(k, q, files)
              [] q.route = "script" -> setup_cgi(ok, IF q.post THEN q.length ELSE 0)
              [] q.route = "listing" -> AnswerListing(ok, q, files)
              [] q.route = "file" ->
                    IF q.file \in DOMAIN files THEN AnswerFile(ok, q.file, files)
                    ELSE Refuse(k, "404", q, files)

-----------------------------------------------------------------------------
\* The handlers: what they make of a connection, of the n bytes they read.

\* The next n bytes of the client.
FillRequest(k, q, n) ==
    [k EXCEPT !.buf = Fill(@, SubSeq(Sent(q), k.taken + 1, k.taken + n)), !.taken = @ + n]

\* What the parser made of the head, for the record.
Judged(k) ==
    IF k.state # "REQ_SETUP" THEN k
    ELSE [k EXCEPT !.verdict = IF k.status = "none" THEN "ok" ELSE k.status,
                   !.start = k.taken - Len(k.buf.data)]

\* handle(), in the states of the head.
handle_head(k, q, n, files) ==
    LET filled == FillRequest([k EXCEPT !.buf = IF FeedCapacity(@) = 0 THEN Clear(@) ELSE @], q, n)
        lined == IF k.state = "REQ_LINE" THEN handle_req_line(filled) ELSE filled
        headed == IF lined.state = "REQ_HEADERS" THEN handle_req_headers(lined, q) ELSE lined
    IN IF headed.state = "REQ_SETUP" THEN handle_setup(Judged(headed), q, files) ELSE headed

\* handle(), in DISCARD_BODY. No bytes: the client has closed its side.
handle_discard(k, q, n, files) ==
    LET dropped == [k EXCEPT !.buf = Clear(@), !.taken = @ + n, !.written = @ + n]
    IN IF n = 0 \/ dropped.written >= q.length THEN AnswerPage(dropped, files) ELSE dropped

handle_post(k, q, n, files) == StoreBody(FillRequest(k, q, n), q, files)

\* handle_cgi_input(), from the client
read_cgi_body(k, q, n) == [FillRequest(k, q, n) EXCEPT !.state = "CGI_TRANSMIT_BODY"]

\* Mutant of handle_cgi_input: one write is taken to be enough.
handle_cgi_input_once(k, q, n) ==
    LET fed == [k EXCEPT !.given = @ \o SubSeq(Unfed(k.buf), 1, n), !.buf = Clear(@),
                         !.written = @ + n]
    IN IF fed.written >= q.length THEN Collect(fed) ELSE [fed EXCEPT !.state = "REQ_BODY"]

\* and to the script, which takes n bytes.
handle_cgi_input(k, q, n) ==
    LET fed == [k EXCEPT !.given = @ \o SubSeq(Unfed(k.buf), 1, n), !.buf = Feed(@, n),
                         !.written = @ + n]
        empty == [fed EXCEPT !.buf = Clear(@)]
    IN IF FeedCapacity(fed.buf) > 0 THEN fed
       ELSE IF fed.written >= q.length THEN Collect(empty)
       ELSE [empty EXCEPT !.state = "REQ_BODY"]

\* The head of what a script wrote: its lines end in "\n" or "\r\n", and where
\* it ends, 0 if it does not.
ScriptLine(d, e) ==
    LET before == {i \in Feeds(d) : i < e}
        first == IF before = {} THEN 1 ELSE Max(before) + 1
    IN SubSeq(d, first, IF e > first /\ d[e - 1] = CR THEN e - 2 ELSE e - 1)

HeadEnd(d) ==
    LET blank == {e \in Feeds(d) : ScriptLine(d, e) = <<>>}
    IN IF blank = {} THEN 0 ELSE Min(blank)

\* Its fields, as they are passed on, and the last status it names.
ScriptFields(d) ==
    LET upto[e \in 0..HeadEnd(d)] ==
            IF e = 0 THEN <<>>
            ELSE IF e \in Feeds(d) /\ Colons(ScriptLine(d, e)) # {} /\ Name(ScriptLine(d, e)) # "status"
            THEN upto[e - 1] \o ScriptLine(d, e) \o Blank
            ELSE upto[e - 1]
    IN upto[HeadEnd(d)]

ScriptStatus(d) ==
    LET named == {e \in Feeds(d) : e <= HeadEnd(d) /\ Colons(ScriptLine(d, e)) # {}
                                     /\ Name(ScriptLine(d, e)) = "status"}
        value == Value(ScriptLine(d, Max(named)))
    IN IF named = {} THEN "200" ELSE IF value = <<>> THEN "0" ELSE value[1]

\* The head is not to come: the script is given up.
BadGateway(k, files) ==
    Respond([k EXCEPT !.status = "502", !.headers = Lines(<<"502", "date">>) \o Blank,
                      !.buf = Clear(@)], files)

\* Mutant of BeginBody: what came with the head is dropped with it.
BeginBodyClear(k) ==
    LET d == k.buf.data
    IN [k EXCEPT !.state = "CGI_BODY", !.status = ScriptStatus(d),
                 !.headers = Lines(<<ScriptStatus(d)>>) \o ScriptFields(d),
                 !.buf = Clear(@), !.temp = <<>>, !.stream = Stream("out", "temp")]

\* The head is passed on; the temporary file for the rest is opened, unless the
\* stream is open already.
BeginBody(k) ==
    LET d == k.buf.data
    IN [k EXCEPT !.state = "CGI_BODY", !.status = ScriptStatus(d),
                 !.headers = Lines(<<ScriptStatus(d)>>) \o ScriptFields(d),
                 !.buf = Erase(@, HeadEnd(d)), !.temp = <<>>,
                 !.stream = IF @.mode = "none" THEN Stream("out", "temp")
                            ELSE [@ EXCEPT !.good = FALSE]]

\* To the temporary file, which is closed before it is read.
SpoolBody(k) ==
    IF FeedCapacity(k.buf) = 0 THEN k
    ELSE [k EXCEPT !.temp = IF k.stream.good THEN @ \o Unfed(k.buf) ELSE @, !.buf = Clear(@)]

finalize_cgi(k, files) ==
    Respond([k EXCEPT !.stream = Stream("in", "temp"), !.headers = @ \o Blank, !.buf = Clear(@)],
            files)

\* handle_cgi_output(); eof when the script has closed its stdout.
handle_cgi_output(k, q, n, eof, files) ==
    LET filled == [k EXCEPT !.buf = Fill(@, SubSeq(q.output, k.heard + 1, k.heard + n)),
                            !.heard = @ + n]
        d == filled.buf.data
        begun == IF k.state = "CGI_HEADERS" THEN BeginBody(filled) ELSE filled
        spooled == SpoolBody(begun)
    IN IF k.state = "CGI_HEADERS" /\ HeadEnd(d) = 0
       THEN IF eof \/ FillCapacity(filled.buf) <= 1 THEN BadGateway(filled, files) ELSE filled
       ELSE IF eof THEN finalize_cgi(spooled, files) ELSE spooled

\* Mutant of FittingLines: a line has to leave room for one more byte.
FittingLinesLess(k) == {i \in Feeds(k.headers) : i + 1 < FillCapacity(k.buf)}

\* The ends of the header lines up to which they all fit.
FittingLines(k) == {i \in Feeds(k.headers) : i < FillCapacity(k.buf)}

\* buffer_res_headers(): the lines that fit,
BufferHeaders(k) ==
    LET n == Max({0} \cup FittingLines(k))
    IN [k EXCEPT !.buf = Fill(@, SubSeq(k.headers, 1, n)),
                 !.headers = SubSeq(@, n + 1, Len(@))]

\* Mutant of FileWaits: the header lines need not be in the buffer yet.
FileWaitsNot(k) == k.stream.eof \/ ~k.stream.good

\* There is no file to read from, or it is not its turn.
FileWaits(k) == k.headers # <<>> \/ k.stream.eof \/ ~k.stream.good

\* buffer_file(): what fits of the file, whose end is seen by reading past it,
BufferFile(k, files) ==
    IF k.stream.mode = "none" \/ FileWaits(k) \/ FillCapacity(k.buf) <= 1 THEN k
    ELSE LET left == Unread(k, files)
             n == IF Len(left) < FillCapacity(k.buf) THEN Len(left) ELSE FillCapacity(k.buf)
         IN [k EXCEPT !.buf = Fill(@, SubSeq(left, 1, n)), !.stream.pos = @ + n,
                      !.stream.eof = n < FillCapacity(k.buf)]

\* buffer_inline_body(): and of the page.
BufferBody(k) ==
    IF k.headers # <<>> \/ FillCapacity(k.buf) <= 1 THEN k
    ELSE LET room == FillCapacity(k.buf) - 1
             n == IF room < Len(k.body) THEN room ELSE Len(k.body)
         IN [k EXCEPT !.buf = Fill(@, SubSeq(k.body, 1, n)), !.body = SubSeq(@, n + 1, Len(@))]

fill_res_buffer(k, files) == BufferBody(BufferFile(BufferHeaders(k), files))

\* The connection is deleted: what it leaves is its history, of which the status
\* is enough when the client was not served to the end.
Delete(k, end) == [k EXCEPT !.state = "CLOSED", !.stream = NoStream, !.end = end]
Drop(k) == [Fresh EXCEPT !.state = "CLOSED", !.status = k.status, !.end = "dropped"]

\* handle_response() until write(): the buffer is filled when it is empty.
Refilled(k, files) ==
    IF FeedCapacity(k.buf) > 0 THEN k
    ELSE fill_res_buffer([k EXCEPT !.buf = Clear(@)], files)

\* Nothing to answer is left, as the handler sees it.
Finished(k) ==
    /\ k.headers = <<>> /\ k.body = <<>> /\ FeedCapacity(k.buf) = 0
    /\ k.stream.mode = "none" \/ k.stream.eof

-----------------------------------------------------------------------------
\* What a handler has made of connection c becomes its state. The disk is changed
\* by the opening of an upload, which empties its file, and by the end of one,
\* which flushes its stream.

\* `bytes` at offset pos of a file; a gap reads as NULs.
Overlay(old, pos, bytes) ==
    [i \in 1..(IF Len(old) > pos + Len(bytes) THEN Len(old) ELSE pos + Len(bytes)) |->
        IF i > pos /\ i <= pos + Len(bytes) THEN bytes[i - pos]
        ELSE IF i <= Len(old) THEN old[i] ELSE NUL]

Writes(stream) == stream.mode = "out" /\ stream.file # "temp"

\* Mutant of Truncated: the file keeps what it holds.
TruncatedNot(f) ==
    [g \in DOMAIN disk \cup {f} |-> IF g \in DOMAIN disk THEN disk[g] ELSE <<>>]

Truncated(f) == [g \in DOMAIN disk \cup {f} |-> IF g = f THEN <<>> ELSE disk[g]]

DiskAfter(old, new) ==
    IF Writes(old) /\ ~Writes(new)
    THEN [disk EXCEPT ![old.file] = Overlay(@, old.pos, old.pending)]
    ELSE IF Writes(new) /\ ~Writes(old) THEN Truncated(new.file)
    ELSE disk

\* The others that have a file open whose contents changed are torn.
Set(c, k, files) ==
    /\ disk' = files
    /\ conn' = [d \in Present |->
          IF d = c THEN k
          ELSE IF /\ conn[d].stream.mode # "none"
                  /\ \E f \in DOMAIN disk : f = conn[d].stream.file /\ disk[f] # files[f]
               THEN [conn[d] EXCEPT !.torn = TRUE]
               ELSE conn[d]]
    /\ UNCHANGED asked

Become(c, k) == Set(c, k, DiskAfter(conn[c].stream, k.stream))

\* How much read(fd, ...) may bring of what the client sends.
Readable(c, room) ==
    {n \in 1..(Len(Sent(asked[c])) - conn[c].taken) : n <= room}

HandleHead(c) ==
    /\ conn[c].state \in {"REQ_LINE", "REQ_HEADERS"}
    /\ \E n \in Readable(c, FillCapacity(conn[c].buf)) :
          Become(c, handle_head(conn[c], asked[c], n, disk))

HandleDiscard(c) ==
    /\ conn[c].state = "DISCARD_BODY"
    /\ \E n \in Readable(c, Capacity - 1) :
          Become(c, handle_discard(conn[c], asked[c], n, disk))

\* The client that sends a body that is too large closes its side early.
CloseSide(c) ==
    /\ conn[c].state = "DISCARD_BODY"
    /\ Become(c, handle_discard(conn[c], asked[c], 0, disk))

\* A body for a script goes back to the script, one for a file into it.
HandleBody(c) ==
    /\ conn[c].state = "REQ_BODY"
    /\ \E n \in Readable(c, FillCapacity(conn[c].buf)) :
          Become(c, IF asked[c].route = "script" THEN read_cgi_body(conn[c], asked[c], n)
                    ELSE handle_post(conn[c], asked[c], n, disk))

HandleCgiInput(c) ==
    /\ conn[c].state = "CGI_TRANSMIT_BODY"
    /\ \E n \in 0..FeedCapacity(conn[c].buf) :
          /\ n = 0 => FeedCapacity(conn[c].buf) = 0
          /\ Become(c, handle_cgi_input(conn[c], asked[c], n))

\* The script closes its stdin: EPOLLERR, or a write that fails.
CloseStdin(c) ==
    /\ conn[c].state = "CGI_TRANSMIT_BODY"
    /\ Become(c, Collect(conn[c]))

\* A full buffer is not read into. The end of the output is read by itself.
HandleCgiOutput(c) ==
    LET room == FillCapacity(conn[c].buf)
        left == Len(asked[c].output) - conn[c].heard
    IN /\ conn[c].state \in {"CGI_HEADERS", "CGI_BODY"}
       /\ \E n \in 0..left :
             /\ IF room > 1 THEN n <= room /\ (n = 0 => left = 0) ELSE n = 0
             /\ Become(c, handle_cgi_output(conn[c], asked[c], n, room > 1 /\ n = 0, disk))

\* The client takes n bytes of the answer.
HandleResponse(c) ==
    LET k == Refilled(conn[c], disk)
    IN /\ conn[c].state = "RESPONSE"
       /\ IF FeedCapacity(k.buf) = 0
          THEN Become(c, Delete(k, IF Finished(k) THEN "sent" ELSE "stuck"))
          ELSE \E n \in 1..FeedCapacity(k.buf) :
                 Become(c, [k EXCEPT !.answer = @ \o SubSeq(Unfed(k.buf), 1, n),
                                     !.buf = Feed(@, n)])

\* handle_timeout()
Timeout(c) ==
    /\ conn[c].state # "CLOSED"
    /\ Become(c,
          IF conn[c].state \in {"REQ_LINE", "REQ_HEADERS", "REQ_BODY"}
          THEN handle_setup([conn[c] EXCEPT !.status = "408"], asked[c], disk)
          ELSE IF conn[c].state = "DISCARD_BODY" THEN AnswerPage(conn[c], disk)
          ELSE Drop(conn[c]))

\* The client goes away, or its descriptor reports an error.
Leave(c) ==
    /\ conn[c].state # "CLOSED"
    /\ Become(c, Drop(conn[c]))

\* The library writes out part of what is pending.
Flush(c) ==
    /\ Writes(conn[c].stream)
    /\ \E n \in 1..Len(conn[c].stream.pending) :
          LET s == conn[c].stream
          IN Set(c, [conn[c] EXCEPT !.stream.pos = @ + n,
                                    !.stream.pending = SubSeq(@, n + 1, Len(@))],
                 [disk EXCEPT ![s.file] = Overlay(@, s.pos, SubSeq(s.pending, 1, n))])

Handle(c) ==
    \/ HandleHead(c) \/ HandleDiscard(c) \/ HandleBody(c)
    \/ HandleCgiInput(c) \/ HandleCgiOutput(c) \/ HandleResponse(c)

TransferInit ==
    /\ \E w \in Worlds : asked = w.asked /\ disk = w.disk
    /\ conn = [c \in Present |-> Fresh]

TransferNext ==
    \E c \in Present :
        Handle(c) \/ CloseSide(c) \/ CloseStdin(c) \/ Timeout(c) \/ Leave(c) \/ Flush(c)

TransferSpec == TransferInit /\ [][TransferNext]_vars

-----------------------------------------------------------------------------
States == {"REQ_LINE", "REQ_HEADERS", "REQ_BODY", "DISCARD_BODY", "CGI_TRANSMIT_BODY",
           "CGI_HEADERS", "CGI_BODY", "RESPONSE", "CLOSED"}

ConnOK(k) ==
    /\ k.state \in States
    /\ k.buf.data \in Seq(STRING) /\ k.buf.writepos \in Int /\ k.buf.capacity \in Nat
    /\ {k.headers, k.body, k.temp, k.given, k.answer, k.plan} \subseteq Seq(STRING)
    /\ {k.written, k.heard, k.taken, k.start} \subseteq Nat
    /\ {k.status, k.verdict, k.end} \subseteq STRING
    /\ {k.clean, k.torn} \subseteq BOOLEAN
    /\ k.stream.mode \in {"none", "in", "out"} /\ k.stream.file \in Files \cup {"temp"}
    /\ k.stream.pos \in Nat /\ k.stream.pending \in Seq(STRING)
    /\ {k.stream.eof, k.stream.good} \subseteq BOOLEAN

\* The type invariant. A connection that reads a request, or answers one, has its
\* buffer in order, with room for the NUL after the bytes it has read; and a stream
\* is open on a file that exists.
TransferTypeOK ==
    /\ asked \in {w.asked : w \in Worlds}
    /\ DOMAIN disk \subseteq Files /\ \A f \in DOMAIN disk : disk[f] \in Seq(STRING)
    /\ DOMAIN conn = Present
    /\ \A c \in Present :
          /\ ConnOK(conn[c])
          /\ conn[c].state \notin {"CGI_HEADERS", "CGI_BODY", "CLOSED"} => InBounds(conn[c].buf)
          /\ conn[c].state \notin {"RESPONSE", "CLOSED"} =>
                Len(conn[c].buf.data) < conn[c].buf.capacity
          /\ conn[c].stream.file # "temp" => conn[c].stream.file \in DOMAIN disk

\* A file or a script is given the bytes after the head, in their order, each
\* once, through whatever reads and writes: what has been given and what is in
\* the buffer are the bytes read since the end of the head (the leftover of
\* handle_setup() included).
BodyInOrder ==
    \A c \in Present :
        LET k == conn[c]
        IN /\ k.given = SubSeq(Sent(asked[c]), k.start + 1, k.start + Len(k.given))
           /\ k.state \in {"REQ_BODY", "CGI_TRANSMIT_BODY"} =>
                 k.given \o Unfed(k.buf) = SubSeq(Sent(asked[c]), k.start + 1, k.taken)

\* "handle_post() drains the rest of the socket into the file until content_length
\* bytes have been written" (upload_test.clj): and no more than that.
BodyEnds ==
    \A c \in Present :
        Writes(conn[c].stream) => Len(conn[c].given) <= asked[c].length

\* An upload is not acknowledged before the whole body was given to its file. (A
\* script that serves an error page may write what status it likes, but its output
\* takes the stream from the upload.)
BodyWhole ==
    \A c \in Present :
        LET k == conn[c]
        IN (k.state = "RESPONSE" /\ k.status \in {"201", "204"} /\ Writes(k.stream))
              => Len(k.given) >= asked[c].length

\* What the client has got, and what the buffer, the header lines, the file and
\* the page have yet to give, is the answer as it was when it was decided: no
\* byte is lost, repeated or put before another by the handlers of the buffer,
\* unless an upload replaces the file meanwhile.
AnswerInOrder ==
    \A c \in Present :
        (conn[c].state = "RESPONSE" /\ ~conn[c].torn)
            => conn[c].answer \o Unfed(conn[c].buf) \o Rest(conn[c], disk) = conn[c].plan

\* handle_response() lets the client go when it has the whole answer, or when the
\* next header line is as long as the empty buffer and will never be in it.
EndsWhole ==
    \A c \in Present :
        LET k == conn[c]
        IN /\ (k.end = "sent" /\ ~k.torn) => k.answer = k.plan
           /\ k.end = "stuck" => /\ k.headers # <<>>
                                 /\ \A i \in Feeds(k.headers) : i >= Capacity - 1

\* "Bytes delivered equal the advertised Content-Length" (regression_test.clj): the
\* client gets as many as there were when the header lines were made.
SentAsPromised ==
    \A c \in Present : conn[c].end = "sent" => Len(conn[c].answer) = Len(conn[c].plan)

\* The answer made of the whole output of a script.
AnswerOf(output) ==
    Lines(<<ScriptStatus(output)>>) \o ScriptFields(output) \o Blank
        \o SubSeq(output, HeadEnd(output) + 1, Len(output))

NoGateway == Lines(<<"502", "date">>) \o Blank

\* The script of c is answered: what is decided is made of what it wrote, in one
\* piece, whatever the reads it came by, or a 502 when its head is missing or does
\* not fit.
AnswersScript(c) ==
    LET o == asked[c].output
    IN \/ HeadEnd(o) \in 1..Capacity - 1 /\ conn[c].plan = AnswerOf(o)
       \/ HeadEnd(o) \notin 1..Capacity - 2 /\ conn[c].plan = NoGateway

ByScript(c) ==
    /\ conn[c].state = "RESPONSE"
    /\ asked[c].route = "script" /\ conn[c].verdict = "ok" /\ conn[c].status # "408"

\* A script, of the request or of the page for an error, that starts with an empty
\* buffer and no open stream is answered by what it wrote.
ScriptAnswers ==
    \A c \in Present : conn[c].state = "RESPONSE" /\ conn[c].clean => AnswersScript(c)

\* What the tests say of every script: "All headers of a multi-header CGI response
\* reach the client with exact values" (cgi_test.clj), and no others.
EveryScriptAnswers == \A c \in Present : ByScript(c) => AnswersScript(c)

\* The same sentence, of the client's end: what was made of the output of a script
\* reaches the client that waits for all of it.
ScriptAnswerArrives ==
    \A c \in Present :
        conn[c].clean /\ conn[c].end \in {"sent", "stuck"} => conn[c].answer = conn[c].plan

\* When the connection of an upload ends, the file holds what was given, through
\* the stream's own buffer, unless somebody else wrote to the file meanwhile.
UploadStored ==
    [][\A c \in Present :
          (/\ Writes(conn[c].stream) /\ ~conn[c].torn
           /\ conn'[c].state = "CLOSED")
          => disk'[conn[c].stream.file] = conn[c].given]_vars

-----------------------------------------------------------------------------
\* The reference for the head: what the client sends, as if all of it were there
\* at once and in no buffer. Where its lines end, and which of them are fields.
LineEnds(q) == Ends(Sent(q))
LineAt(q, e) == LineTo(Sent(q), e)
IsField(q, e) == \E i \in LineEnds(q) : i < e
Naming(q, e, name) == {i \in LineEnds(q) : i < e /\ IsField(q, i) /\ Name(LineAt(q, i)) = name}

\* The buffer does not take the line, its end and a NUL.
TooLong(q, e) == Len(LineAt(q, e)) + 2 >= Capacity

\* The line that ends at e is the last of the head if none before it is: it is
\* the blank line, or refused.
Decides(q, e) ==
    LET line == LineAt(q, e)
    IN \/ TooLong(q, e)
       \/ ~IsField(q, e) /\ Flaws(line) # {}
       \/ IsField(q, e) /\ \/ line = <<>> \/ Malformed(line)
                           \/ Name(line) = "host" /\ Naming(q, e, "host") # {}

Last(q) == Min({e \in LineEnds(q) : Decides(q, e)})

\* A field counts as it is said first.
ValueOf(q, e, name) == Value(LineAt(q, Min(Naming(q, e, name))))

\* What a head without a flaw, whose blank line ends at e, is taken for: a request
\* of HTTP/1.1 names a host, an upload a length, and what is named is sound.
Nameless(q, e) == Naming(q, e, "host") = {} \/ ValueOf(q, e, "host") = <<>>
FieldsSay(q, e) ==
    IF \/ q.version = "HTTP/1.1" /\ Nameless(q, e)
       \/ ~Nameless(q, e) /\ Bad(ValueOf(q, e, "host"))
    THEN "400"
    ELSE IF Naming(q, e, "len") = {} THEN IF q.post THEN "411" ELSE "ok"
    ELSE IF LengthRefused(ValueOf(q, e, "len")) THEN "400" ELSE "ok"

\* The bytes after the last line.
Unended(q) == Len(Sent(q)) - (IF LineEnds(q) = {} THEN 0 ELSE Max(LineEnds(q)) + 1)

\* The status that refuses the head, or "ok", or "none" when more has to come; and
\* where it ends.
Judgement(q) ==
    LET e == Last(q)
        line == LineAt(q, e)
    IN IF \A i \in LineEnds(q) : ~Decides(q, i)
       THEN <<IF Unended(q) + 1 < Capacity THEN "none" ELSE IF LineEnds(q) = {} THEN "414" ELSE "431", 0>>
       ELSE IF TooLong(q, e) THEN <<IF IsField(q, e) THEN "431" ELSE "414", 0>>
       ELSE IF ~IsField(q, e) THEN <<CHOOSE f \in Flaws(line) : TRUE, 0>>
       ELSE IF line # <<>> THEN <<"400", 0>>
       ELSE <<FieldsSay(q, e), e + 1>>

\* Of every request there is.
Judgements == [q \in UNION {{w.asked[c] : c \in DOMAIN w.asked} : w \in Worlds} |-> Judgement(q)]

\* handle_req_line() and handle_req_headers() make of the head, in whatever pieces
\* it comes, what it says as a whole; and the body starts right after it.
HeadReadAsSent ==
    \A c \in Present :
        conn[c].verdict # "none" =>
            /\ conn[c].verdict = Judgements[asked[c]][1]
            /\ conn[c].verdict = "ok" => conn[c].start = Judgements[asked[c]][2]

\* A head that is refused, or a whole request: as many bytes after the head as it
\* says.
Complete(q) ==
    /\ Judgements[q][1] # "none"
    /\ Judgements[q][1] = "ok" => Len(Sent(q)) - Judgements[q][2] >= q.length

\* A client that has sent a head that is refused, or a whole request, is not waited
\* for: no handler expects bytes that have been read already. And a buffer that a
\* script has filled is given up or emptied by the next pass.
NobodyWaits ==
    \A c \in Present :
        LET k == conn[c]
            next == handle_cgi_output(k, asked[c], 0, FALSE, disk)
        IN /\ ( /\ k.state \in {"REQ_LINE", "REQ_HEADERS", "REQ_BODY", "DISCARD_BODY"}
                /\ k.taken = Len(Sent(asked[c])) ) => ~Complete(asked[c])
           /\ (k.state \in {"CGI_HEADERS", "CGI_BODY"} /\ FillCapacity(k.buf) <= 1) =>
                next.state = "RESPONSE" \/ FillCapacity(next.buf) > 1
=============================================================================
