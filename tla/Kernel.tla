------------------------------- MODULE Kernel -------------------------------
(* External: the operating system as the server uses it. A table of open     *)
(* descriptors with the POSIX rule that a new one takes the lowest free      *)
(* number, the processes the server forked, the pipes that tie a process to  *)
(* the connection it works for, and the backlog of the listening socket.     *)
EXTENDS Integers, FiniteSets

CONSTANTS
    Conns,      \* the ClientConnection objects that can exist at one time
    Listener,   \* the ServerConnection object
    Null,       \* no object, the C++ NULL
    Fds,        \* the descriptors RLIMIT_NOFILE leaves to connections
    ListenFd,   \* the descriptor of the listening socket
    ReserveFd,  \* the descriptor the EpollLoop constructor opens on /dev/null
    Pids,       \* the process ids the kernel hands out
    NoPid,      \* the value -1 of _cgi_pid
    Faults      \* the unusual circumstances this instance may meet

Objs == Conns \cup {Listener}

FaultKinds ==
    { "timeout_page_cgi",  \* error_page 408 names a path served by a CGI
      "pid_reuse",         \* a pid comes round again while a connection still names it
      "early_eof",         \* a script can close its stdout and run on
      "enfile",            \* the system-wide file table can be full
      "listen_error" }     \* the listening socket can report EPOLLERR

ASSUME KernelAssumption ==
    /\ Fds \subseteq Nat
    /\ ListenFd \in Fds /\ ReserveFd \in Fds /\ ListenFd # ReserveFd
    /\ Listener \notin Conns
    /\ Null \notin Conns \cup {Listener}
    /\ NoPid \notin Pids
    /\ Faults \subseteq FaultKinds

NoFd == -1

VARIABLES
    openFds,    \* the descriptors of Fds that are open in the server process
    procs,      \* the state of each process id
    serves,     \* the connection whose pipes a running process holds
    backlog     \* connections the kernel has completed and accept() has not returned

kernelVars == <<openFds, procs, serves, backlog>>

KernelTypeOK ==
    /\ openFds \subseteq Fds
    /\ procs \in [Pids -> {"none", "running", "zombie"}]
    /\ serves \in [Pids -> Conns \cup {Null}]
    /\ backlog \in Nat

KernelInit ==
    /\ openFds = {ListenFd, ReserveFd}
    /\ procs = [p \in Pids |-> "none"]
    /\ serves = [p \in Pids |-> Null]
    /\ backlog = 0

Free == Fds \ openFds

\* The element of S with exactly n smaller ones, in a set of its own: none if S
\* has no more than n elements.
Nth(S, n) == {f \in S : Cardinality({g \in S : g < f}) = n}

\* What the (n+1)-th of several opens in a row returns.
NextFree(n) == Nth(Free, n)

\* A script is still writing for connection c.
ScriptRuns(c) == \E p \in Pids : procs[p] = "running" /\ serves[p] = c

=============================================================================
