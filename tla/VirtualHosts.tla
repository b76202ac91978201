----------------------------- MODULE VirtualHosts -----------------------------
(* The servers of a configuration and the sockets they share: how             *)
(* Http::from_directive() enters each server at each address it listens on,   *)
(* main() opens a socket per address, and a client gets its virtual server,   *)
(* first by the address it connected to, then by the Host header it sends.    *)
EXTENDS Integers, Sequences, FiniteSets

CONSTANTS
    Addresses,      \* address:port pairs
    Names,          \* values of server_name and Host
    Blocks,         \* what a server block may say
    MaxServers      \* bound: server blocks in the file

\* The name of a server block without server_name. No Host is this: an empty one
\* is not looked up.
Unnamed == "unnamed"
Nobody == 0

\* A config::listen, and a server block: names and listens in their order.
Listens == [addr : Addresses, backlog : Nat, isDefault : BOOLEAN]
IsBlock(b) ==
    /\ DOMAIN b = {"names", "listens"}
    /\ b.names \in Seq(Names \cup {Unnamed})
    /\ b.listens \in Seq(Listens)
    /\ b.names # <<>> /\ b.listens # <<>>

ASSUME HostsAssumption ==
    /\ Unnamed \notin Names
    /\ \A b \in Blocks : IsBlock(b)
    /\ MaxServers \in Nat

VARIABLES
    state,      \* "reading", "refused", "serving"
    servers,    \* Http::servers: the blocks in the order of the file
    next,       \* the listen directive of the last server to be entered next
    ports,      \* Http::ports: a function of the addresses met so far
    sockets,    \* the listening sockets: address to backlog
    client      \* the ClientConnection: address and virtual server

vars == <<state, servers, next, ports, sockets, client>>

Disconnected == [addr |-> "none", server |-> Nobody, host |-> Unnamed]

HostsInit ==
    /\ state = "reading"
    /\ servers = <<>>
    /\ next = 1
    /\ ports = [a \in {} |-> Nobody]
    /\ sockets = [a \in {} |-> 0]
    /\ client = Disconnected

-----------------------------------------------------------------------------
(* Reading                                                                    *)

Last == Len(servers)
LastListens == servers[Last].listens
Entering == state = "reading" /\ servers # <<>> /\ next <= Len(LastListens)
Entered == state = "reading" /\ (servers # <<>> => next > Len(LastListens))

\* operator==() of two config::listen.
SameListen(l, port) == l.addr = port.addr /\ l.backlog = port.backlog

Matching(port) == {j \in DOMAIN LastListens : SameListen(LastListens[j], port)}

\* The first listen directive of the last server that is that of the port makes
\* it the default one.
AsDefault(port) ==
    \E j \in Matching(port) :
        /\ \A k \in Matching(port) : j <= k
        /\ LastListens[j].isDefault

NameSet(i) == {servers[i].names[k] : k \in DOMAIN servers[i].names}
NamedTwice(i) ==
    \E k, l \in DOMAIN servers[i].names :
        k # l /\ servers[i].names[k] = servers[i].names[l]

\* Mutant of NotAdded: the first server counts as a declared default.
NotAddedAfterFirst(port) ==
    \/ Matching(port) = {}
    \/ AsDefault(port) /\ port.dserver # Nobody
    \/ NameSet(Last) \cap DOMAIN port.names # {}
    \/ NamedTwice(Last)

\* Port::add_server() throws.
NotAdded(port) ==
    \/ Matching(port) = {}
    \/ AsDefault(port) /\ port.defaultSet
    \/ NameSet(Last) \cap DOMAIN port.names # {}
    \/ NamedTwice(Last)

\* Mutant of Added: the first server is the default one whatever is declared.
AddedFirstWins(port) ==
    [port EXCEPT
        !.dserver = IF DOMAIN port.names = {} THEN Last ELSE @,
        !.defaultSet = @ \/ AsDefault(port),
        !.names = [n \in DOMAIN port.names \cup NameSet(Last) |->
                      IF n \in DOMAIN port.names THEN port.names[n] ELSE Last]]

\* The port with the last server added.
Added(port) ==
    [port EXCEPT
        !.dserver = IF DOMAIN port.names = {} \/ AsDefault(port)
                    THEN Last ELSE @,
        !.defaultSet = @ \/ AsDefault(port),
        !.names = [n \in DOMAIN port.names \cup NameSet(Last) |->
                      IF n \in DOMAIN port.names THEN port.names[n] ELSE Last]]

\* Port(listen)
NewPort(l) ==
    [addr |-> l.addr, backlog |-> l.backlog, dserver |-> Nobody,
     defaultSet |-> FALSE, names |-> [n \in {} |-> Nobody]]

ReadServer ==
    /\ Entered
    /\ Last < MaxServers
    /\ \E b \in Blocks : servers' = Append(servers, b)
    /\ next' = 1
    /\ UNCHANGED <<state, ports, sockets, client>>

\* The port a listen directive names: known, or new.
PortOf(l) == IF l.addr \in DOMAIN ports THEN ports[l.addr] ELSE NewPort(l)

\* Mutant of EnterListen: a server is entered at its first address.
EnterListenOnce ==
    /\ Entering
    /\ LET l == LastListens[next]
       IN /\ ~NotAdded(PortOf(l))
          /\ ports' = [a \in DOMAIN ports \cup {l.addr} |->
                          IF a = l.addr THEN Added(PortOf(l)) ELSE ports[a]]
    /\ next' = Len(LastListens) + 1
    /\ UNCHANGED <<state, servers, sockets, client>>

EnterListen ==
    /\ Entering
    /\ LET l == LastListens[next]
       IN /\ ~NotAdded(PortOf(l))
          /\ ports' = [a \in DOMAIN ports \cup {l.addr} |->
                          IF a = l.addr THEN Added(PortOf(l)) ELSE ports[a]]
    /\ next' = next + 1
    /\ UNCHANGED <<state, servers, sockets, client>>

\* The exception ends the program.
Refuse ==
    /\ Entering
    /\ NotAdded(PortOf(LastListens[next]))
    /\ state' = "refused"
    /\ UNCHANGED <<servers, next, ports, sockets, client>>

\* main() opens a socket for each port.
Start ==
    /\ Entered
    /\ ports # [a \in {} |-> Nobody]
    /\ state' = "serving"
    /\ sockets' = [a \in DOMAIN ports |-> ports[a].backlog]
    /\ UNCHANGED <<servers, next, ports, client>>

\* http without a server block has no port.
NoSocket ==
    /\ Entered
    /\ ports = [a \in {} |-> Nobody]
    /\ state' = "refused"
    /\ UNCHANGED <<servers, next, ports, sockets, client>>

-----------------------------------------------------------------------------
(* Serving                                                                    *)

\* A connection starts with the default server of the address.
Accept ==
    /\ state = "serving" /\ client = Disconnected
    /\ \E a \in DOMAIN sockets :
          client' = [addr |-> a, server |-> ports[a].dserver, host |-> Unnamed]
    /\ UNCHANGED <<state, servers, next, ports, sockets>>

\* Mutant of ServerByName: any server of that name.
ServerByNameAnywhere(a, name) ==
    IF \E i \in DOMAIN servers : name \in NameSet(i)
    THEN CHOOSE i \in DOMAIN servers : name \in NameSet(i)
    ELSE ports[a].dserver

\* Http::get_server()
ServerByName(a, name) ==
    IF name \in DOMAIN ports[a].names THEN ports[a].names[name] ELSE ports[a].dserver

\* The Host header of the request picks the server.
Request ==
    /\ state = "serving" /\ client # Disconnected /\ client.host = Unnamed
    /\ \E name \in Names :
          client' = [client EXCEPT !.server = ServerByName(client.addr, name),
                                   !.host = name]
    /\ UNCHANGED <<state, servers, next, ports, sockets>>

HostsNext == ReadServer \/ EnterListen \/ Refuse \/ Start \/ NoSocket \/ Accept \/ Request
HostsSpec == HostsInit /\ [][HostsNext]_vars

-----------------------------------------------------------------------------
(* Properties                                                                 *)

ListensOn(i, a) == \E j \in DOMAIN servers[i].listens : servers[i].listens[j].addr = a
DeclaredDefault(i, a) ==
    \E j \in DOMAIN servers[i].listens :
        servers[i].listens[j].addr = a /\ servers[i].listens[j].isDefault

\* The default server of an address is the one declared to be, or else the first
\* one in the file that listens there.
DefaultIsDeclared ==
    state = "serving" =>
        \A a \in DOMAIN sockets :
            LET d == ports[a].dserver
            IN /\ ListensOn(d, a)
               /\ \A i \in DOMAIN servers : DeclaredDefault(i, a) => i = d
               /\ \/ DeclaredDefault(d, a)
                  \/ \A i \in DOMAIN servers : ListensOn(i, a) => d <= i

\* A request is served by the server of its address that has the name it asks
\* for, and by the default one only when there is none.
RoutedByName ==
    client # Disconnected /\ client.host # Unnamed =>
        /\ ListensOn(client.server, client.addr)
        /\ \A i \in DOMAIN servers :
              ListensOn(i, client.addr) /\ client.host \in NameSet(i)
                  => client.server = i
        /\ \/ client.host \in NameSet(client.server)
           \/ client.server = ports[client.addr].dserver

\* Every address of every server that was accepted has a socket.
AllAddressesServed ==
    state = "serving" =>
        \A i \in DOMAIN servers :
            \A j \in DOMAIN servers[i].listens :
                servers[i].listens[j].addr \in DOMAIN sockets

\* Two listen directives for one address, the second one in the last server, of
\* which both say default_server or both are of servers with a name in common.
TwoThingsOfOne ==
    \E i \in DOMAIN servers : \E j \in DOMAIN servers[i].listens :
        \E k \in DOMAIN LastListens :
            LET l == servers[i].listens[j]
                m == LastListens[k]
            IN /\ <<i, j>> # <<Last, k>>
               /\ l.addr = m.addr
               /\ (l.isDefault /\ m.isDefault) \/ NameSet(i) \cap NameSet(Last) # {}

OneBacklog ==
    \A i, h \in DOMAIN servers :
        \A j \in DOMAIN servers[i].listens, k \in DOMAIN servers[h].listens :
            LET l == servers[i].listens[j]
                m == servers[h].listens[k]
            IN l.addr = m.addr => l.backlog = m.backlog

\* A configuration that gives every address one backlog is only refused when it
\* says two things of one address, two defaults or the same name twice, whatever
\* the order of its servers and of their addresses.
RefusedIsAmbiguous ==
    state = "refused" /\ servers # <<>> /\ OneBacklog =>
        NamedTwice(Last) \/ TwoThingsOfOne

\* "If multiple listen directives for the same address:port pair have different
\* values for this parameter the default server's value will prevail as true"
\* (CONFIGURATION.md): two backlogs are no ground for a refusal.
BacklogPrevails ==
    state = "refused" /\ servers # <<>> => NamedTwice(Last) \/ TwoThingsOfOne

=============================================================================
