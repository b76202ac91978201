--------------------------- MODULE ClientConnection ---------------------------
(* class ClientConnection: one client from accept() to the destructor. The    *)
(* bytes of requests and responses are abstracted to the progress they allow; *)
(* which route handle_setup() takes is a choice, every route that changes     *)
(* state being one. Descriptors, registrations, children and timestamps are   *)
(* kept exactly.                                                              *)
EXTENDS EpollLoop

CONSTANTS
    Timeout,    \* Connection::_timeout, in ticks
    Units       \* reads or writes a buffer, a body or a response may take

ASSUME ClientAssumption ==
    /\ Timeout \in Nat
    /\ Units \in Nat

VARIABLES
    objs,       \* the Connection objects on the heap
    st,         \* _state
    clientFd,   \* _client_fd
    stdinFd,    \* _cgi_stdin_fd
    stdoutFd,   \* _cgi_stdout_fd
    cgiPid,     \* _cgi_pid
    locCgi,     \* whether _loc has a CGI configured
    age,        \* ticks since _last_update, up to Timeout + 1
    room        \* progress steps left before the code's own limit is reached

pipeVars == <<stdinFd, stdoutFd, cgiPid>>
flowVars == <<st, locCgi, room>>
vars == <<kernelVars, cycleVars, registryVars, reserveFd, childVars,
          objs, clientFd, pipeVars, flowVars, age>>

\* REQ_SETUP only exists within a call of handle().
Receiving == {"REQ_LINE", "REQ_HEADERS", "REQ_BODY"}
States == Receiving \cup {"DISCARD_BODY", "CGI_TRANSMIT_BODY",
                          "CGI_HEADERS", "CGI_BODY", "RESPONSE"}

ClientTypeOK ==
    /\ objs \subseteq Objs
    /\ st \in [Conns -> States]
    /\ clientFd \in [Conns -> Fds \cup {NoFd}]
    /\ stdinFd \in [Conns -> Fds \cup {NoFd}]
    /\ stdoutFd \in [Conns -> Fds \cup {NoFd}]
    /\ cgiPid \in [Conns -> Pids \cup {NoPid}]
    /\ locCgi \in [Conns -> BOOLEAN]
    /\ age \in [Conns -> 0..(Timeout + 1)]
    /\ room \in [Conns -> 0..Units]

ClientInit ==
    /\ objs = {Listener}
    /\ st = [c \in Conns |-> "REQ_LINE"]
    /\ clientFd = [c \in Conns |-> NoFd]
    /\ stdinFd = [c \in Conns |-> NoFd]
    /\ stdoutFd = [c \in Conns |-> NoFd]
    /\ cgiPid = [c \in Conns |-> NoPid]
    /\ locCgi = [c \in Conns |-> FALSE]
    /\ age = [c \in Conns |-> 0]
    /\ room = [c \in Conns |-> 0]

\* The constructor of a connection on client descriptor f. Every field of an
\* unallocated object already has the value its initialiser gives it.
Construct(c, f) ==
    /\ objs' = objs \cup {c}
    /\ clientFd' = [clientFd EXCEPT ![c] = f]
    /\ age' = [age EXCEPT ![c] = 0]
    /\ room' = [room EXCEPT ![c] = Units]
    /\ UNCHANGED <<st, locCgi, pipeVars>>

-----------------------------------------------------------------------------
(* Pieces of the handlers. Each sets the variables its code sets, and leaves  *)
(* the event loop's own variables, objs, clientFd and age to the handler.     *)

Stamp(c) == age' = [age EXCEPT ![c] = 0]

\* A read or a write that leaves the connection in state s.
Progress(c, s) ==
    /\ room[c] > 0
    /\ room' = [room EXCEPT ![c] = @ - 1]
    /\ st' = [st EXCEPT ![c] = s]
    /\ UNCHANGED <<locCgi, pipeVars, kernelVars, registryVars, childVars>>

\* Nothing about the request or its descriptors changes.
KeepRequest == UNCHANGED <<flowVars, pipeVars, kernelVars, registryVars, childVars>>

Enter(c, s) ==
    /\ st' = [st EXCEPT ![c] = s]
    /\ room' = [room EXCEPT ![c] = Units]

\* Mutant of Answer: the socket stays watched for input.
AnswerWithoutMod(c) ==
    /\ Enter(c, "RESPONSE")
    /\ locCgi' = [locCgi EXCEPT ![c] = FALSE]
    /\ UNCHANGED <<registryVars, pipeVars, kernelVars, childVars>>

\* setup_res() and the callers' _state = RESPONSE: answer on the client socket.
Answer(c) ==
    /\ Enter(c, "RESPONSE")
    /\ locCgi' = [locCgi EXCEPT ![c] = FALSE]
    /\ Mod(c, "OUT")
    /\ UNCHANGED <<pipeVars, kernelVars, childVars>>

\* The POST of a static upload whose body has not all arrived, and the 413
\* whose body is still to be drained: the client stays watched for input.
AwaitBody(c, s) ==
    /\ Enter(c, s)
    /\ locCgi' = [locCgi EXCEPT ![c] = FALSE]
    /\ UNCHANGED <<pipeVars, kernelVars, registryVars, childVars>>

\* The child of setup_cgi(): a pid that is neither running nor unreaped. Without
\* the pid_reuse fault the kernel does not come round to a pid that a
\* connection still names.
NewPid(p) ==
    /\ procs[p] = "none"
    /\ "pid_reuse" \in Faults \/ \A c \in Conns : cgiPid[c] # p

\* setup_cgi() up to its return true: the pipes and the child exist, and the
\* object is registered under the script's stdin when there is a body to send,
\* under its stdout otherwise. Of the four pipe ends, opened in a row, the first
\* and the last are kept. The previous values of the fields are lost.
SpawnCgi(c, body) ==
    \E out \in NextFree(0), in \in NextFree(3), p \in Pids :
        /\ NewPid(p)
        /\ procs' = [procs EXCEPT ![p] = "running"]
        /\ serves' = [serves EXCEPT ![p] = c]
        /\ cgiPid' = [cgiPid EXCEPT ![c] = p]
        /\ TrackChild(p)
        /\ stdoutFd' = [stdoutFd EXCEPT ![c] = out]
        /\ stdinFd' = [stdinFd EXCEPT ![c] = IF body THEN in ELSE NoFd]
        /\ openFds' = openFds \cup {out} \cup (IF body THEN {in} ELSE {})
        /\ Enter(c, IF body THEN "CGI_TRANSMIT_BODY" ELSE "CGI_HEADERS")
        /\ IF body THEN Rearm(c, "OUT", in) ELSE Rearm(c, "IN", out)
        /\ locCgi' = [locCgi EXCEPT ![c] = TRUE]
        /\ UNCHANGED backlog

\* The routes out of handle_setup(). A request that was parsed may be an upload
\* or start a script; an error or a timeout has become a GET of its error page,
\* which a script may serve. When setup_cgi() fails the answer is a 500.
Setup(c, outcome) ==
    \/ Answer(c)
    \/ AwaitBody(c, "DISCARD_BODY")
    \/ outcome = "parsed" /\ AwaitBody(c, "REQ_BODY")
    \/ outcome = "parsed" /\ SpawnCgi(c, TRUE)
    \/ /\ outcome = "timeout" => "timeout_page_cgi" \in Faults
       /\ SpawnCgi(c, FALSE)

\* Mutant of CloseStdin: the field keeps the closed descriptor.
CloseStdinKeepsField(c) ==
    /\ openFds' = openFds \ {fd[c]}
    /\ Enter(c, "CGI_HEADERS")
    /\ Rearm(c, "IN", stdoutFd[c])
    /\ UNCHANGED <<pipeVars, locCgi, procs, serves, backlog, childVars>>

\* Mutant of CloseStdin: the descriptor is dropped without being closed.
CloseStdinLeaks(c) ==
    /\ stdinFd' = [stdinFd EXCEPT ![c] = NoFd]
    /\ Enter(c, "CGI_HEADERS")
    /\ Rearm(c, "IN", stdoutFd[c])
    /\ UNCHANGED <<openFds, stdoutFd, cgiPid, locCgi, procs, serves, backlog, childVars>>

\* The three places of handle_cgi_input() that stop feeding the script: close
\* its stdin and collect what it wrote.
CloseStdin(c) ==
    /\ openFds' = openFds \ {fd[c]}
    /\ stdinFd' = [stdinFd EXCEPT ![c] = NoFd]
    /\ Enter(c, "CGI_HEADERS")
    /\ Rearm(c, "IN", stdoutFd[c])
    /\ UNCHANGED <<stdoutFd, cgiPid, locCgi, procs, serves, backlog, childVars>>

\* finalize_cgi(), and the 502 of handle_cgi_output(): the script is forgotten
\* and the client is answered. Only the 502 has the script killed.
LeaveCgi(c, kill) ==
    /\ cgiPid' = [cgiPid EXCEPT ![c] = NoPid]
    /\ Enter(c, "RESPONSE")
    /\ Rearm(c, "OUT", clientFd[c])
    /\ KillChildren(IF kill THEN {cgiPid[c]} ELSE {})
    /\ UNCHANGED <<stdinFd, stdoutFd, locCgi, kernelVars>>

-----------------------------------------------------------------------------
(* handle(), one action per state of the connection                          *)

\* EPOLLERR and EPOLLHUP are not told apart from input and output: a handler
\* does on them what it does when its read or write then fails.
Dispatch(o) ==
    /\ phase = "dispatch"
    /\ o \in batch
    /\ batch' = batch \ {o}
    /\ UNCHANGED <<phase, sweep>>

\* The connection is given up; its data stays until clear().
GiveUp(c) == Del(c) /\ KeepRequest /\ UNCHANGED age

\* The handler stamps the connection and keeps it.
Served(c) == Stamp(c) /\ UNCHANGED deletionQueue

\* The handler keeps the connection without stamping it.
Unserved == UNCHANGED <<age, deletionQueue>>

\* Lines of the head were complete: they are erased from the buffer, which has
\* room again, and more of them are awaited. There is no limit to their number.
NextLines(c) ==
    /\ Enter(c, "REQ_HEADERS")
    /\ UNCHANGED <<locCgi, pipeVars, kernelVars, registryVars, childVars>>

\* Reading the request line and headers: an error or the end of the client
\* gives up, a line that fills the buffer is an error of its own (414, 431).
HandleRequest(c) ==
    /\ Dispatch(c)
    /\ st[c] \in {"REQ_LINE", "REQ_HEADERS"}
    /\ \/ GiveUp(c)
       \/ /\ Served(c)
          /\ \/ Progress(c, st[c])
             \/ NextLines(c)
             \/ \E outcome \in {"parsed", "error"} : Setup(c, outcome)
    /\ UNCHANGED <<objs, clientFd, reserveFd>>

\* handle_post(): the body of a static upload. A file that takes no more bytes
\* leaves the buffer full, and nothing is read or stamped.
HandlePost(c) ==
    /\ Dispatch(c)
    /\ st[c] = "REQ_BODY" /\ ~locCgi[c]
    /\ \/ GiveUp(c)
       \/ Served(c) /\ (Progress(c, "REQ_BODY") \/ Answer(c))
       \/ Unserved /\ KeepRequest
    /\ UNCHANGED <<objs, clientFd, reserveFd>>

\* handle_cgi_input(), reading the body from the client.
HandleCgiBody(c) ==
    /\ Dispatch(c)
    /\ st[c] = "REQ_BODY" /\ locCgi[c]
    /\ \/ GiveUp(c)
       \/ /\ Served(c)
          /\ st' = [st EXCEPT ![c] = "CGI_TRANSMIT_BODY"]
          /\ Rearm(c, "OUT", stdinFd[c])
          /\ UNCHANGED <<locCgi, room, pipeVars, kernelVars, childVars>>
    /\ UNCHANGED <<objs, clientFd, reserveFd>>

\* Mutant of FetchMoreBody: the content length is no limit.
FetchBodyForEver(c) ==
    /\ room' = [room EXCEPT ![c] = @ - 1]
    /\ st' = [st EXCEPT ![c] = "REQ_BODY"]
    /\ Rearm(c, "IN", clientFd[c])
    /\ UNCHANGED <<locCgi, pipeVars, kernelVars, childVars>>

\* The buffer is fed to the script and there is more body to come.
FetchMoreBody(c) ==
    /\ room[c] > 0
    /\ room' = [room EXCEPT ![c] = @ - 1]
    /\ st' = [st EXCEPT ![c] = "REQ_BODY"]
    /\ Rearm(c, "IN", clientFd[c])
    /\ UNCHANGED <<locCgi, pipeVars, kernelVars, childVars>>

\* handle_cgi_input(), writing to the script. A script that stopped reading is
\* not fed any more; with an empty buffer nothing is written or stamped.
HandleCgiInput(c) ==
    /\ Dispatch(c)
    /\ st[c] = "CGI_TRANSMIT_BODY"
    /\ \/ Unserved /\ CloseStdin(c)
       \/ Unserved /\ FetchMoreBody(c)
       \/ /\ Served(c)
          /\ \/ Progress(c, "CGI_TRANSMIT_BODY")
             \/ FetchMoreBody(c)
             \/ CloseStdin(c)
    /\ UNCHANGED <<objs, clientFd, reserveFd>>

\* Output of the script: while it runs there is no bound to it, afterwards the
\* pipe holds at most room[c] reads.
TakeOutput(c, s) ==
    /\ st' = [st EXCEPT ![c] = s]
    /\ IF ScriptRuns(c) THEN UNCHANGED room
       ELSE room[c] > 0 /\ room' = [room EXCEPT ![c] = @ - 1]
    /\ UNCHANGED <<locCgi, pipeVars, kernelVars, registryVars, childVars>>

\* The pipe reports its end: every writer has closed it.
OutputEnds(c) == "early_eof" \in Faults \/ ~ScriptRuns(c)

\* handle_cgi_output(), CGI_HEADERS: the block stays incomplete, is complete and
\* the body begins, or never will be complete, which is a 502. The buffer can
\* hold bytes from before, so all of it can happen without a successful read.
HandleCgiHeaders(c) ==
    /\ Dispatch(c)
    /\ st[c] = "CGI_HEADERS"
    /\ \/ /\ Served(c)
          /\ \E s \in {"CGI_HEADERS", "CGI_BODY"} : TakeOutput(c, s)
       \/ Served(c) /\ LeaveCgi(c, TRUE)
       \/ /\ Unserved
          /\ \/ KeepRequest
             \/ Enter(c, "CGI_BODY") /\ UNCHANGED <<locCgi, pipeVars, kernelVars,
                                                   registryVars, childVars>>
             \/ LeaveCgi(c, TRUE)
             \/ OutputEnds(c) /\ LeaveCgi(c, FALSE)
    /\ UNCHANGED <<objs, clientFd, reserveFd>>

\* handle_cgi_output(), CGI_BODY: the end of the output finishes the response.
HandleCgiOutput(c) ==
    /\ Dispatch(c)
    /\ st[c] = "CGI_BODY"
    /\ \/ Served(c) /\ TakeOutput(c, "CGI_BODY")
       \/ Unserved /\ (KeepRequest \/ (OutputEnds(c) /\ LeaveCgi(c, FALSE)))
    /\ UNCHANGED <<objs, clientFd, reserveFd>>

\* DISCARD_BODY: the answer waits for the last byte.
HandleDiscard(c) ==
    /\ Dispatch(c)
    /\ st[c] = "DISCARD_BODY"
    /\ \/ GiveUp(c)
       \/ Unserved /\ Answer(c)
       \/ Served(c) /\ (Progress(c, "DISCARD_BODY") \/ Answer(c))
    /\ UNCHANGED <<objs, clientFd, reserveFd>>

\* handle_response(): the last byte, a failed write or a hang-up end it.
HandleResponse(c) ==
    /\ Dispatch(c)
    /\ st[c] = "RESPONSE"
    /\ \/ GiveUp(c)
       \/ Served(c) /\ Progress(c, "RESPONSE")
    /\ UNCHANGED <<objs, clientFd, reserveFd>>

Handle(c) ==
    \/ HandleRequest(c) \/ HandlePost(c)
    \/ HandleCgiBody(c) \/ HandleCgiInput(c)
    \/ HandleCgiHeaders(c) \/ HandleCgiOutput(c)
    \/ HandleDiscard(c) \/ HandleResponse(c)

-----------------------------------------------------------------------------

\* Mutant of HandleTimeout: a script that is late is left to its own deadline.
TimeoutSparesScript(c) ==
    \/ st[c] \in Receiving /\ Served(c) /\ Setup(c, "timeout")
    \/ st[c] = "DISCARD_BODY" /\ Served(c) /\ Answer(c)
    \/ st[c] \in {"CGI_HEADERS", "CGI_BODY"} /\ Unserved /\ KeepRequest
    \/ st[c] \in {"CGI_TRANSMIT_BODY", "RESPONSE"} /\ GiveUp(c)

\* Mutant of HandleTimeout: every state is answered 408.
TimeoutAnswersAlways(c) == Served(c) /\ Setup(c, "timeout")

\* Mutant of HandleTimeout: a late answer is given more time.
TimeoutExtends(c) ==
    \/ st[c] \in Receiving /\ Served(c) /\ Setup(c, "timeout")
    \/ st[c] = "DISCARD_BODY" /\ Served(c) /\ Answer(c)
    \/ st[c] \notin Receiving \cup {"DISCARD_BODY"} /\ Served(c) /\ KeepRequest

\* handle_timeout(): a request still being read is answered 408, a body being
\* drained is answered as it is, anything later is given up.
HandleTimeout(c) ==
    \/ st[c] \in Receiving /\ Served(c) /\ Setup(c, "timeout")
    \/ st[c] = "DISCARD_BODY" /\ Served(c) /\ Answer(c)
    \/ st[c] \notin Receiving \cup {"DISCARD_BODY"} /\ GiveUp(c)

=============================================================================
