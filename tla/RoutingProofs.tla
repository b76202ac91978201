----------------------------- MODULE RoutingProofs -----------------------------
(* Which server and which location of it a request gets, for every            *)
(* configuration: the default server of an address and the server of a name,  *)
(* then the location of a path.                                               *)
EXTENDS VirtualHosts, Locations, TLAPS

\* Listen directive j of server i has been entered.
EnteredAt(i, j) ==
    /\ i \in 1..Len(servers)
    /\ j \in DOMAIN servers[i].listens
    /\ i = Len(servers) => j < next

OnPort(i, a) ==
    \E j \in DOMAIN servers[i].listens :
        EnteredAt(i, j) /\ servers[i].listens[j].addr = a

Twice(i, a) ==
    \E j, k \in DOMAIN servers[i].listens :
        j # k /\ servers[i].listens[j].addr = a /\ servers[i].listens[k].addr = a

\* What a port knows of the servers entered at it.
PortSound(a) ==
    LET p == ports[a]
    IN /\ p = [addr |-> a, backlog |-> p.backlog, dserver |-> p.dserver,
               defaultSet |-> p.defaultSet, names |-> p.names]
       /\ p.dserver \in 1..Len(servers) /\ OnPort(p.dserver, a)
       /\ p.defaultSet \in BOOLEAN
       /\ DOMAIN p.names # {}
       /\ p.defaultSet => DeclaredDefault(p.dserver, a)
       /\ \A n \in DOMAIN p.names :
             /\ p.names[n] \in 1..Len(servers)
             /\ OnPort(p.names[n], a) /\ n \in NameSet(p.names[n])
       /\ \A i \in 1..Len(servers) : OnPort(i, a) =>
             /\ \A n \in NameSet(i) : n \in DOMAIN p.names /\ p.names[n] = i
             /\ ~Twice(i, a) /\ DeclaredDefault(i, a) => p.defaultSet /\ p.dserver = i
             /\ ~p.defaultSet => p.dserver <= i

\* No server has been entered twice at an address.
EnteredOnce ==
    \A i \in 1..Len(servers) : \A j, k \in DOMAIN servers[i].listens :
        /\ EnteredAt(i, j) /\ EnteredAt(i, k)
        /\ servers[i].listens[j].addr = servers[i].listens[k].addr
        => j = k

ClientSound ==
    client # Disconnected =>
        /\ state = "serving"
        /\ client = [addr |-> client.addr, server |-> client.server, host |-> client.host]
        /\ client.addr \in DOMAIN ports
        /\ client.host # Unnamed =>
              client.server = ServerByName(client.addr, client.host)

\* The inductive invariant.
HostsSound ==
    /\ servers \in Seq(Blocks)
    /\ next \in Nat \ {0}
    /\ \A i \in 1..Len(servers) : \A j \in DOMAIN servers[i].listens :
          EnteredAt(i, j) => servers[i].listens[j].addr \in DOMAIN ports
    /\ \A a \in DOMAIN ports : PortSound(a)
    /\ EnteredOnce
    /\ state = "serving" =>
          /\ DOMAIN sockets = DOMAIN ports
          /\ servers # <<>> => next > Len(LastListens)
    /\ ClientSound

LEMMA BlockShape ==
  ASSUME servers \in Seq(Blocks), NEW i \in 1..Len(servers)
  PROVE  /\ servers[i] \in Blocks
         /\ servers[i].names \in Seq(Names \cup {Unnamed}) /\ servers[i].names # <<>>
         /\ servers[i].listens \in Seq(Listens) /\ servers[i].listens # <<>>
         /\ DOMAIN servers[i].listens = 1..Len(servers[i].listens)
         /\ NameSet(i) # {}
<1>1. servers[i] \in Blocks
  OBVIOUS
<1>2. IsBlock(servers[i])
  BY <1>1, HostsAssumption
<1>3. NameSet(i) # {}
  <2>1. 1 \in DOMAIN servers[i].names
    BY <1>2 DEF IsBlock
  <2> QED BY <2>1 DEF NameSet
<1> QED BY <1>1, <1>2, <1>3 DEF IsBlock

LEMMA HostsInitSound == HostsInit => HostsSound
  BY DEF HostsInit, HostsSound, EnteredOnce, ClientSound

-----------------------------------------------------------------------------
\* A new server has been entered nowhere yet, and the others everywhere.
LEMMA ReadServerSound == HostsSound /\ ReadServer => HostsSound'
<1> SUFFICES ASSUME HostsSound, ReadServer PROVE HostsSound'
  OBVIOUS
<1>1. PICK b \in Blocks : servers' = Append(servers, b)
  BY DEF ReadServer
<1>2. /\ servers \in Seq(Blocks) /\ next' = 1 /\ Len(servers') = Len(servers) + 1
      /\ UNCHANGED <<state, ports, sockets, client>> /\ state = "reading"
      /\ servers # <<>> => next > Len(LastListens)
      /\ servers' \in Seq(Blocks)
      /\ \A i \in 1..Len(servers) : servers'[i] = servers[i]
  BY <1>1 DEF HostsSound, ReadServer, Entered
<1>3. ASSUME NEW i \in 1..Len(servers'), NEW j \in DOMAIN servers'[i].listens,
             EnteredAt(i, j)'
      PROVE  i \in 1..Len(servers) /\ EnteredAt(i, j)
  <2>1. servers' \in Seq(Blocks) /\ servers'[i].listens \in Seq(Listens)
    BY <1>2, HostsAssumption DEF IsBlock
  <2>2. i # Len(servers')
    BY <1>2, <1>3, <2>1 DEF EnteredAt
  <2>3. i \in 1..Len(servers)
    BY <1>2, <2>2
  <2>4. i = Len(servers) => j < next
    BY <1>2, <2>1, <2>3 DEF LastListens, Last, HostsSound
  <2> QED BY <1>2, <2>3, <2>4 DEF EnteredAt
<1>4. ASSUME NEW i \in 1..Len(servers), NEW j \in DOMAIN servers[i].listens,
             EnteredAt(i, j)
      PROVE  EnteredAt(i, j)'
  BY <1>2, <1>4 DEF EnteredAt
<1>5. ASSUME NEW i \in 1..Len(servers), NEW a
      PROVE  /\ OnPort(i, a)' = OnPort(i, a)
             /\ NameSet(i)' = NameSet(i)
             /\ DeclaredDefault(i, a)' = DeclaredDefault(i, a)
             /\ Twice(i, a)' = Twice(i, a)
             /\ i \in 1..Len(servers')
  BY <1>2, <1>3, <1>4 DEF OnPort, NameSet, DeclaredDefault, Twice
<1>6. ASSUME NEW i \in 1..Len(servers'), NEW a, OnPort(i, a)'
      PROVE  i \in 1..Len(servers)
  BY <1>3, <1>6 DEF OnPort
<1>7. ASSUME NEW a \in DOMAIN ports' PROVE PortSound(a)'
  <2>1. PortSound(a)
    BY <1>2 DEF HostsSound
  <2> QED BY <1>2, <1>5, <1>6, <2>1 DEF PortSound
<1>8. EnteredOnce'
  BY <1>2, <1>3 DEF EnteredOnce, HostsSound
<1>9. ClientSound'
  BY <1>2 DEF ClientSound, HostsSound, ServerByName
<1>10. \A i \in 1..Len(servers') : \A j \in DOMAIN servers'[i].listens :
          EnteredAt(i, j)' => servers'[i].listens[j].addr \in DOMAIN ports'
  BY <1>2, <1>3 DEF HostsSound
<1> QED BY <1>2, <1>7, <1>8, <1>9, <1>10 DEF HostsSound

\* One more server at a port.
LEMMA EnterListenSound == HostsSound /\ EnterListen => HostsSound'
<1> SUFFICES ASSUME HostsSound, EnterListen PROVE HostsSound'
  OBVIOUS
<1>l. PICK l : l = LastListens[next]
  OBVIOUS
<1>old. PICK old : old = PortOf(l)
  OBVIOUS
<1>1. /\ state = "reading" /\ servers # <<>> /\ next <= Len(LastListens)
      /\ ~NotAdded(old)
      /\ ports' = [a \in DOMAIN ports \cup {l.addr} |->
                      IF a = l.addr THEN Added(old) ELSE ports[a]]
      /\ next' = next + 1
      /\ UNCHANGED <<state, servers, sockets, client>>
      /\ servers \in Seq(Blocks) /\ next \in Nat \ {0}
  BY <1>l, <1>old DEF EnterListen, Entering, HostsSound
<1>2. Last \in 1..Len(servers) /\ Last = Len(servers)
  BY <1>1 DEF Last
<1>3. /\ LastListens \in Seq(Listens) /\ DOMAIN LastListens = 1..Len(LastListens)
      /\ next \in DOMAIN LastListens /\ l \in Listens
      /\ LastListens = servers[Last].listens
      /\ NameSet(Last) # {}
  <2>1. servers[Last].listens \in Seq(Listens) /\ NameSet(Last) # {}
    BY <1>1, <1>2, BlockShape
  <2> QED BY <1>1, <1>l, <2>1 DEF LastListens
<1>4. ASSUME NEW i \in 1..Len(servers), NEW j \in DOMAIN servers[i].listens
      PROVE  EnteredAt(i, j)' <=> (EnteredAt(i, j) \/ (i = Last /\ j = next))
  <2>1. j \in Nat
    BY <1>1, BlockShape
  <2> QED BY <1>1, <1>2, <1>3, <2>1 DEF EnteredAt
<1>5. ASSUME NEW i \in 1..Len(servers), NEW a
      PROVE  OnPort(i, a)' <=> (OnPort(i, a) \/ (i = Last /\ a = l.addr))
  BY <1>1, <1>l, <1>3, <1>4 DEF OnPort
<1>6. ASSUME NEW i \in 1..Len(servers), NEW a
      PROVE  /\ NameSet(i)' = NameSet(i)
             /\ DeclaredDefault(i, a)' = DeclaredDefault(i, a)
             /\ Twice(i, a)' = Twice(i, a)
  BY <1>1 DEF NameSet, DeclaredDefault, Twice
<1>7. ~OnPort(Last, l.addr)
  <2>1. CASE l.addr \in DOMAIN ports
    <3>1. PortSound(l.addr) /\ old = ports[l.addr]
      BY <1>old, <2>1 DEF HostsSound, PortOf
    <3>2. NameSet(Last) \cap DOMAIN old.names = {}
      BY <1>1 DEF NotAdded
    <3> QED BY <1>2, <1>3, <3>1, <3>2 DEF PortSound
  <2>2. CASE l.addr \notin DOMAIN ports
    BY <1>2, <2>2 DEF OnPort, HostsSound
  <2> QED BY <2>1, <2>2
<1>8. AsDefault(old) => DeclaredDefault(Last, l.addr)
  <2>1. old.addr = l.addr
    BY <1>old DEF PortOf, NewPort, HostsSound, PortSound
  <2> QED BY <1>3, <2>1 DEF AsDefault, Matching, SameListen, DeclaredDefault
<1>9. ~Twice(Last, l.addr) /\ DeclaredDefault(Last, l.addr) => AsDefault(old)
  <2>1. old.addr = l.addr
    BY <1>old DEF PortOf, NewPort, HostsSound, PortSound
  <2>6. Matching(old) # {}
    BY <1>1 DEF NotAdded
  <2>2. SUFFICES ASSUME ~Twice(Last, l.addr), DeclaredDefault(Last, l.addr)
                 PROVE  AsDefault(old)
    OBVIOUS
  <2>3. \A j \in DOMAIN LastListens : LastListens[j].addr = l.addr => j = next
    BY <1>l, <1>3, <2>2 DEF Twice
  <2>4. LastListens[next].isDefault
    BY <1>3, <2>2, <2>3 DEF DeclaredDefault
  <2>5. Matching(old) = {next}
    BY <1>3, <2>1, <2>6, <2>3 DEF Matching, SameListen
  <2> QED BY <1>1, <2>4, <2>5 DEF AsDefault
<1>10. /\ old = [addr |-> l.addr, backlog |-> old.backlog, dserver |-> old.dserver,
                 defaultSet |-> old.defaultSet, names |-> old.names]
       /\ old.defaultSet \in BOOLEAN
       /\ l.addr \notin DOMAIN ports => DOMAIN old.names = {} /\ old.defaultSet = FALSE
       /\ l.addr \in DOMAIN ports => old = ports[l.addr] /\ PortSound(l.addr)
       /\ NameSet(Last) \cap DOMAIN old.names = {}
       /\ AsDefault(old) => ~old.defaultSet
  <2>1. CASE l.addr \in DOMAIN ports
    <3>1. PortSound(l.addr) /\ old = ports[l.addr]
      BY <1>old, <2>1 DEF HostsSound, PortOf
    <3> QED BY <1>1, <2>1, <3>1 DEF PortSound, NotAdded
  <2>2. CASE l.addr \notin DOMAIN ports
    <3>1. old = [addr |-> l.addr, backlog |-> l.backlog, dserver |-> Nobody,
                 defaultSet |-> FALSE, names |-> [n \in {} |-> Nobody]]
      BY <1>old, <2>2 DEF PortOf, NewPort
    <3> QED BY <1>1, <2>2, <3>1 DEF NotAdded
  <2> QED BY <2>1, <2>2
<1>new. PICK new : new = ports'[l.addr]
  OBVIOUS
<1>11. /\ new = [addr |-> l.addr, backlog |-> new.backlog, dserver |-> new.dserver,
                 defaultSet |-> new.defaultSet, names |-> new.names]
       /\ new.dserver = IF DOMAIN old.names = {} \/ AsDefault(old)
                        THEN Last ELSE old.dserver
       /\ new.defaultSet = (old.defaultSet \/ AsDefault(old))
       /\ new.names = [n \in DOMAIN old.names \cup NameSet(Last) |->
                          IF n \in DOMAIN old.names THEN old.names[n] ELSE Last]
  <2>1. new = Added(old)
    BY <1>1, <1>new
  <2>2. PICK d : d = IF DOMAIN old.names = {} \/ AsDefault(old)
                     THEN Last ELSE old.dserver
    OBVIOUS
  <2>3. PICK b : b = (old.defaultSet \/ AsDefault(old))
    OBVIOUS
  <2>4. PICK m : m = [n \in DOMAIN old.names \cup NameSet(Last) |->
                          IF n \in DOMAIN old.names THEN old.names[n] ELSE Last]
    OBVIOUS
  <2>5. new = [old EXCEPT !.dserver = d, !.defaultSet = b, !.names = m]
    BY ONLY <2>1, <2>2, <2>3, <2>4, Zenon DEF Added
  <2>6. PICK k, s, f, t :
           old = [addr |-> l.addr, backlog |-> k, dserver |-> s,
                  defaultSet |-> f, names |-> t]
    BY <1>10
  <2>7. new = [addr |-> l.addr, backlog |-> k, dserver |-> d,
               defaultSet |-> b, names |-> m]
    BY ONLY <2>5, <2>6
  <2>8. /\ new = [addr |-> l.addr, backlog |-> new.backlog, dserver |-> new.dserver,
                  defaultSet |-> new.defaultSet, names |-> new.names]
        /\ new.dserver = d /\ new.defaultSet = b /\ new.names = m
    BY ONLY <2>7
  <2> QED BY ONLY <2>2, <2>3, <2>4, <2>8, Zenon
<1>12. PortSound(l.addr)'
  <2>1. /\ new.dserver \in 1..Len(servers) /\ OnPort(new.dserver, l.addr)'
        /\ new.defaultSet \in BOOLEAN
        /\ DOMAIN new.names # {}
        /\ new.defaultSet => DeclaredDefault(new.dserver, l.addr)
    <3>1. CASE l.addr \in DOMAIN ports
      BY <1>2, <1>3, <1>5, <1>8, <1>10, <1>11, <3>1 DEF PortSound
    <3>2. CASE l.addr \notin DOMAIN ports
      BY <1>2, <1>3, <1>5, <1>8, <1>10, <1>11, <3>2
    <3> QED BY <3>1, <3>2
  <2>2. ASSUME NEW n \in DOMAIN new.names
        PROVE  /\ new.names[n] \in 1..Len(servers)
               /\ OnPort(new.names[n], l.addr)' /\ n \in NameSet(new.names[n])
    <3>1. CASE n \in DOMAIN old.names
      <4>1. l.addr \in DOMAIN ports /\ new.names[n] = old.names[n]
        BY <1>10, <1>11, <3>1
      <4> QED BY <1>5, <1>10, <3>1, <4>1 DEF PortSound
    <3>2. CASE n \notin DOMAIN old.names
      BY <1>2, <1>5, <1>11, <3>2
    <3> QED BY <3>1, <3>2
  <2>3. ASSUME NEW i \in 1..Len(servers), OnPort(i, l.addr)'
        PROVE  /\ \A n \in NameSet(i) : n \in DOMAIN new.names /\ new.names[n] = i
               /\ ~Twice(i, l.addr) /\ DeclaredDefault(i, l.addr)
                      => new.defaultSet /\ new.dserver = i
               /\ ~new.defaultSet => new.dserver <= i
    <3>1. CASE i = Last
      <4>1. old.dserver \in 1..Len(servers) \/ DOMAIN old.names = {}
        BY <1>10 DEF PortSound
      <4>2. \A n \in NameSet(i) : n \in DOMAIN new.names /\ new.names[n] = i
        BY <1>10, <1>11, <3>1
      <4>3. ~Twice(i, l.addr) /\ DeclaredDefault(i, l.addr)
                => new.defaultSet /\ new.dserver = i
        BY <1>9, <1>11, <3>1
      <4>4. new.dserver <= i
        BY <1>2, <1>11, <3>1, <4>1
      <4> QED BY <4>2, <4>3, <4>4
    <3>2. CASE i # Last
      <4>1. OnPort(i, l.addr)
        BY <1>5, <2>3, <3>2
      <4>2. l.addr \in DOMAIN ports
        BY <4>1 DEF OnPort, HostsSound
      <4>3. PortSound(l.addr) /\ old = ports[l.addr]
        BY <1>10, <4>2
      <4>4. /\ \A n \in NameSet(i) : n \in DOMAIN old.names /\ old.names[n] = i
            /\ ~Twice(i, l.addr) /\ DeclaredDefault(i, l.addr)
                   => old.defaultSet /\ old.dserver = i
            /\ ~old.defaultSet => old.dserver <= i
            /\ DOMAIN old.names # {}
        BY <4>1, <4>3 DEF PortSound
      <4> QED BY <1>10, <1>11, <4>4
    <3> QED BY <3>1, <3>2
  <2>4. \A i \in 1..Len(servers), a \in {l.addr} :
           /\ NameSet(i)' = NameSet(i)
           /\ DeclaredDefault(i, a)' = DeclaredDefault(i, a)
           /\ Twice(i, a)' = Twice(i, a)
    BY <1>6
  <2> QED BY <1>1, <1>new, <1>11, <2>1, <2>2, <2>3, <2>4 DEF PortSound
<1>13. ASSUME NEW a \in DOMAIN ports', a # l.addr PROVE PortSound(a)'
  <2>1. PortSound(a) /\ ports'[a] = ports[a]
    BY <1>1, <1>13 DEF HostsSound
  <2> QED BY <1>1, <1>5, <1>6, <1>13, <2>1 DEF PortSound
<1>14. EnteredOnce'
  <2> SUFFICES ASSUME NEW i \in 1..Len(servers),
                      NEW j \in DOMAIN servers[i].listens,
                      NEW k \in DOMAIN servers[i].listens,
                      EnteredAt(i, j)', EnteredAt(i, k)',
                      servers[i].listens[j].addr = servers[i].listens[k].addr
               PROVE  j = k
    BY <1>1 DEF EnteredOnce
  <2>1. CASE EnteredAt(i, j) /\ EnteredAt(i, k)
    BY <2>1 DEF HostsSound, EnteredOnce
  <2>2. CASE i = Last /\ j = next /\ k # next
    BY <1>l, <1>3, <1>4, <1>7, <2>2 DEF OnPort
  <2>3. CASE i = Last /\ k = next /\ j # next
    BY <1>l, <1>3, <1>4, <1>7, <2>3 DEF OnPort
  <2> QED BY <1>4, <2>1, <2>2, <2>3
<1>15. ClientSound'
  BY <1>1 DEF ClientSound, HostsSound
<1>16. \A i \in 1..Len(servers') : \A j \in DOMAIN servers'[i].listens :
          EnteredAt(i, j)' => servers'[i].listens[j].addr \in DOMAIN ports'
  BY <1>1, <1>l, <1>3, <1>4 DEF HostsSound
<1> QED BY <1>1, <1>12, <1>13, <1>14, <1>15, <1>16 DEF HostsSound

\* The steps that leave the servers and the ports alone.
LEMMA OtherStepsSound ==
  HostsSound /\ (Refuse \/ Start \/ NoSocket \/ Accept \/ Request \/ UNCHANGED vars)
      => HostsSound'
<1> SUFFICES ASSUME HostsSound,
                    Refuse \/ Start \/ NoSocket \/ Accept \/ Request \/ UNCHANGED vars
             PROVE  HostsSound'
  OBVIOUS
<1>1. UNCHANGED <<servers, next, ports>>
  BY DEF Refuse, Start, NoSocket, Accept, Request, vars
<1>2. \A i, j : EnteredAt(i, j)' = EnteredAt(i, j)
  BY <1>1 DEF EnteredAt
<1>3. EnteredOnce'
  BY <1>1, <1>2 DEF EnteredOnce, HostsSound
<1>4. ASSUME NEW a \in DOMAIN ports' PROVE PortSound(a)'
  <2>1. PortSound(a)
    BY <1>1 DEF HostsSound
  <2>2. \A i : /\ OnPort(i, a)' = OnPort(i, a)
               /\ NameSet(i)' = NameSet(i)
               /\ DeclaredDefault(i, a)' = DeclaredDefault(i, a)
               /\ Twice(i, a)' = Twice(i, a)
    BY <1>1, <1>2 DEF OnPort, NameSet, DeclaredDefault, Twice
  <2> QED BY <1>1, <2>1, <2>2 DEF PortSound
<1>5. state' = "serving" =>
          /\ DOMAIN sockets' = DOMAIN ports'
          /\ servers' # <<>> => next' > Len(LastListens')
  BY <1>1 DEF Refuse, Start, NoSocket, Accept, Request, vars, HostsSound, Entered,
              LastListens, Last
<1>6. ClientSound'
  <2>1. CASE Accept
    BY <1>1, <2>1 DEF Accept, ClientSound, HostsSound
  <2>2. CASE Request
    <3>1. PICK name \in Names :
             client' = [client EXCEPT !.server = ServerByName(client.addr, name),
                                      !.host = name]
      BY <2>2 DEF Request
    <3>2. /\ client = [addr |-> client.addr, server |-> client.server,
                       host |-> client.host]
          /\ state = "serving" /\ state' = state /\ client.addr \in DOMAIN ports
      BY <2>2 DEF Request, ClientSound, HostsSound
    <3>3. client' = [addr |-> client.addr, server |-> ServerByName(client.addr, name),
                     host |-> name]
      BY <3>1, <3>2
    <3> QED BY <1>1, <3>2, <3>3 DEF ClientSound, ServerByName
  <2>3. CASE UNCHANGED <<state, client>>
    BY <1>1, <2>3 DEF ClientSound, HostsSound, ServerByName
  <2>4. CASE Refuse \/ Start \/ NoSocket
    <3>1. client = Disconnected /\ client' = client
      BY <2>4 DEF Refuse, Start, NoSocket, ClientSound, HostsSound, Entering, Entered
    <3> QED BY <3>1 DEF ClientSound, Disconnected
  <2> QED BY <2>1, <2>2, <2>3, <2>4 DEF vars
<1> QED BY <1>1, <1>2, <1>3, <1>4, <1>5, <1>6 DEF HostsSound, LastListens, Last

\* The inductive invariant: what each port knows is what the servers entered at
\* it so far say (Port::add_server()).
THEOREM HostsCorrect == HostsSpec => []HostsSound
<1>1. HostsSound /\ [HostsNext]_vars => HostsSound'
  BY ReadServerSound, EnterListenSound, OtherStepsSound DEF HostsNext
<1> QED BY HostsInitSound, <1>1, PTL DEF HostsSpec

-----------------------------------------------------------------------------
\* When the sockets are open every server has been entered at all its addresses.
LEMMA AllEntered ==
  ASSUME HostsSound, state = "serving", NEW i \in DOMAIN servers, NEW a
  PROVE  /\ i \in 1..Len(servers)
         /\ ListensOn(i, a) <=> OnPort(i, a)
         /\ ~Twice(i, a)
<1>1. servers \in Seq(Blocks) /\ i \in 1..Len(servers)
  BY DEF HostsSound
<1>2. DOMAIN servers[i].listens = 1..Len(servers[i].listens)
  BY <1>1, BlockShape
<1>3. \A j \in DOMAIN servers[i].listens : EnteredAt(i, j)
  <2>1. i = Len(servers) => next > Len(servers[i].listens)
    BY <1>1 DEF HostsSound, LastListens, Last
  <2>2. next \in Nat /\ servers[i].listens \in Seq(Listens)
    BY <1>1, BlockShape DEF HostsSound
  <2> QED BY <1>1, <1>2, <2>1, <2>2 DEF EnteredAt
<1>4. ~Twice(i, a)
  BY <1>1, <1>3 DEF HostsSound, EnteredOnce, Twice
<1> QED BY <1>1, <1>3, <1>4 DEF ListensOn, OnPort

\* The default server of an address, for every configuration.
THEOREM DefaultHolds == HostsSpec => []DefaultIsDeclared
<1>1. HostsSound => DefaultIsDeclared
  <2> SUFFICES ASSUME HostsSound, state = "serving", NEW a \in DOMAIN sockets
               PROVE  LET d == ports[a].dserver
                      IN /\ ListensOn(d, a)
                         /\ \A i \in DOMAIN servers : DeclaredDefault(i, a) => i = d
                         /\ \/ DeclaredDefault(d, a)
                            \/ \A i \in DOMAIN servers : ListensOn(i, a) => d <= i
    BY DEF DefaultIsDeclared
  <2>1. PortSound(a) /\ DOMAIN servers = 1..Len(servers)
    BY DEF HostsSound
  <2>2. ListensOn(ports[a].dserver, a)
    BY <2>1, AllEntered DEF PortSound
  <2>3. ASSUME NEW i \in DOMAIN servers, DeclaredDefault(i, a)
        PROVE  i = ports[a].dserver
    <3>1. ListensOn(i, a)
      BY <2>3 DEF ListensOn, DeclaredDefault
    <3>2. OnPort(i, a) /\ ~Twice(i, a)
      BY <3>1, AllEntered
    <3> QED BY <2>1, <2>3, <3>2 DEF PortSound
  <2>4. \/ DeclaredDefault(ports[a].dserver, a)
        \/ \A i \in DOMAIN servers : ListensOn(i, a) => ports[a].dserver <= i
    BY <2>1, AllEntered DEF PortSound
  <2> QED BY <2>2, <2>3, <2>4
<1> QED BY HostsCorrect, <1>1, PTL

\* The server of a Host header, for every configuration.
THEOREM RoutingHolds == HostsSpec => []RoutedByName
<1>1. HostsSound => RoutedByName
  <2> SUFFICES ASSUME HostsSound, client # Disconnected, client.host # Unnamed
               PROVE  /\ ListensOn(client.server, client.addr)
                      /\ \A i \in DOMAIN servers :
                            ListensOn(i, client.addr) /\ client.host \in NameSet(i)
                                => client.server = i
                      /\ \/ client.host \in NameSet(client.server)
                         \/ client.server = ports[client.addr].dserver
    BY DEF RoutedByName
  <2>1. /\ state = "serving" /\ client.addr \in DOMAIN ports
        /\ client.server = ServerByName(client.addr, client.host)
    BY DEF HostsSound, ClientSound
  <2>2. PortSound(client.addr) /\ DOMAIN servers = 1..Len(servers)
    BY <2>1 DEF HostsSound
  <2>3. client.server \in 1..Len(servers) /\ OnPort(client.server, client.addr)
    BY <2>1, <2>2 DEF PortSound, ServerByName
  <2>4. ListensOn(client.server, client.addr)
    BY <2>1, <2>2, <2>3, AllEntered
  <2>5. ASSUME NEW i \in DOMAIN servers, ListensOn(i, client.addr),
               client.host \in NameSet(i)
        PROVE  client.server = i
    <3>1. OnPort(i, client.addr)
      BY <2>1, <2>5, AllEntered
    <3> QED BY <2>1, <2>2, <2>5, <3>1 DEF PortSound, ServerByName
  <2>6. \/ client.host \in NameSet(client.server)
        \/ client.server = ports[client.addr].dserver
    BY <2>1, <2>2 DEF PortSound, ServerByName
  <2> QED BY <2>4, <2>5, <2>6
<1> QED BY HostsCorrect, <1>1, PTL

\* Every address of the servers has a socket, for every configuration.
THEOREM AddressesHold == HostsSpec => []AllAddressesServed
<1>1. HostsSound => AllAddressesServed
  <2> SUFFICES ASSUME HostsSound, state = "serving", NEW i \in DOMAIN servers,
                      NEW j \in DOMAIN servers[i].listens
               PROVE  servers[i].listens[j].addr \in DOMAIN sockets
    BY DEF AllAddressesServed
  <2>1. i \in 1..Len(servers) /\ OnPort(i, servers[i].listens[j].addr)
    BY AllEntered DEF ListensOn
  <2> QED BY <2>1 DEF OnPort, HostsSound
<1> QED BY HostsCorrect, <1>1, PTL

-----------------------------------------------------------------------------
\* Server i has been entered at the address with that backlog.
HasBacklog(i, a, backlog) ==
    \E j \in DOMAIN servers[i].listens :
        /\ EnteredAt(i, j)
        /\ servers[i].listens[j].addr = a
        /\ servers[i].listens[j].backlog = backlog

\* The backlog of a port is that of a listen directive entered at it.
BacklogSound ==
    \A a \in DOMAIN ports : \E i \in 1..Len(servers) : HasBacklog(i, a, ports[a].backlog)

LEMMA BacklogReadServer == HostsSound /\ BacklogSound /\ ReadServer => BacklogSound'
<1> SUFFICES ASSUME HostsSound, BacklogSound, ReadServer PROVE BacklogSound'
  OBVIOUS
<1>1. PICK b \in Blocks : servers' = Append(servers, b)
  BY DEF ReadServer
<1>2. /\ ports' = ports /\ servers \in Seq(Blocks) /\ Len(servers') = Len(servers) + 1
      /\ \A i \in 1..Len(servers) : servers'[i] = servers[i]
  BY <1>1 DEF HostsSound, ReadServer
<1>3. ASSUME NEW i \in 1..Len(servers), NEW a, NEW backlog, HasBacklog(i, a, backlog)
      PROVE  i \in 1..Len(servers') /\ HasBacklog(i, a, backlog)'
  BY <1>2, <1>3 DEF HasBacklog, EnteredAt
<1> QED BY <1>2, <1>3 DEF BacklogSound

LEMMA BacklogEnterListen == HostsSound /\ BacklogSound /\ EnterListen => BacklogSound'
<1> SUFFICES ASSUME HostsSound, BacklogSound, EnterListen PROVE BacklogSound'
  OBVIOUS
<1>l. PICK l : l = LastListens[next]
  OBVIOUS
<1>1. /\ servers # <<>> /\ next <= Len(LastListens)
      /\ ports' = [b \in DOMAIN ports \cup {l.addr} |->
                      IF b = l.addr THEN Added(PortOf(l)) ELSE ports[b]]
      /\ next' = next + 1 /\ servers' = servers
      /\ servers \in Seq(Blocks) /\ next \in Nat \ {0}
  BY <1>l DEF EnterListen, Entering, HostsSound
<1>2. Last \in 1..Len(servers) /\ Last = Len(servers)
  BY <1>1 DEF Last
<1>3. /\ \A i \in 1..Len(servers) :
            /\ servers[i].listens \in Seq(Listens)
            /\ DOMAIN servers[i].listens = 1..Len(servers[i].listens)
      /\ next \in DOMAIN servers[Last].listens /\ l = servers[Last].listens[next]
  BY <1>1, <1>2, <1>l, BlockShape DEF LastListens
<1>4. ASSUME NEW i \in 1..Len(servers), NEW a, NEW backlog, HasBacklog(i, a, backlog)
      PROVE  HasBacklog(i, a, backlog)'
  <2>1. ASSUME NEW j \in DOMAIN servers[i].listens, EnteredAt(i, j)
        PROVE  EnteredAt(i, j)'
    BY <1>1, <1>3, <2>1 DEF EnteredAt
  <2> QED BY <1>1, <1>4, <2>1 DEF HasBacklog
<1>5. ASSUME NEW a \in DOMAIN ports
      PROVE  ports'[a].backlog = ports[a].backlog
  <2>1. CASE a = l.addr
    <3>1. ports'[a] = Added(ports[a]) /\ PortSound(a)
      BY <1>1, <1>5, <2>1 DEF PortOf, HostsSound
    <3>2. ports[a] = [addr |-> a, backlog |-> ports[a].backlog,
                      dserver |-> ports[a].dserver,
                      defaultSet |-> ports[a].defaultSet, names |-> ports[a].names]
      BY <3>1 DEF PortSound
    <3>3. Added(ports[a]).backlog = ports[a].backlog
      BY ONLY <3>2 DEF Added
    <3> QED BY <3>1, <3>3
  <2> QED BY <1>1, <1>5, <2>1
<1>6. ASSUME NEW a \in DOMAIN ports'
      PROVE  (\E i \in 1..Len(servers) : HasBacklog(i, a, ports[a].backlog))'
  <2>1. CASE a \in DOMAIN ports
    <3>1. PICK i \in 1..Len(servers) : HasBacklog(i, a, ports[a].backlog)
      BY <2>1 DEF BacklogSound
    <3>2. HasBacklog(i, a, ports'[a].backlog) /\ i \in 1..Len(servers')
      BY <1>1, <1>5, <2>1, <3>1
    <3>3. PICK b : b = ports'[a].backlog
      OBVIOUS
    <3>4. HasBacklog(i, a, b)'
      BY <1>4, <3>2, <3>3
    <3> QED BY <3>2, <3>3, <3>4
  <2>2. CASE a \notin DOMAIN ports
    <3>1. a = l.addr /\ ports'[a] = Added(NewPort(l))
      BY <1>1, <1>6, <2>2 DEF PortOf
    <3>2. ports'[a].backlog = l.backlog
      BY <3>1 DEF Added, NewPort
    <3>3. PICK i, j : i = Last /\ j = next
      OBVIOUS
    <3>4. EnteredAt(i, j)'
      <4>1. i \in 1..Len(servers') /\ j \in DOMAIN servers'[i].listens
        BY <1>1, <1>2, <1>3, <3>3
      <4>2. j < next'
        BY <1>1, <3>3
      <4> QED BY <4>1, <4>2 DEF EnteredAt
    <3>5. i \in 1..Len(servers') /\ HasBacklog(i, a, ports[a].backlog)'
      BY <1>1, <1>2, <1>3, <3>1, <3>2, <3>3, <3>4 DEF HasBacklog
    <3> QED BY <3>5
  <2> QED BY <2>1, <2>2
<1> QED BY <1>1, <1>6 DEF BacklogSound

LEMMA BacklogOthers ==
  BacklogSound /\ (Refuse \/ Start \/ NoSocket \/ Accept \/ Request \/ UNCHANGED vars)
      => BacklogSound'
<1> SUFFICES ASSUME BacklogSound,
                    Refuse \/ Start \/ NoSocket \/ Accept \/ Request \/ UNCHANGED vars
             PROVE  BacklogSound'
  OBVIOUS
<1>1. UNCHANGED <<servers, next, ports>>
  BY DEF Refuse, Start, NoSocket, Accept, Request, vars
<1> QED BY <1>1 DEF BacklogSound, HasBacklog, EnteredAt

\* A listen directive already entered and one of the last server that say two
\* things of one address.
Clash(i, j, k) ==
    LET l == servers[i].listens[j]
        m == LastListens[k]
    IN /\ <<i, j>> # <<Last, k>>
       /\ l.addr = m.addr
       /\ \/ l.isDefault /\ m.isDefault
          \/ NameSet(i) \cap NameSet(Last) # {}
          \/ l.backlog # m.backlog

Clashes ==
    \/ NamedTwice(Last)
    \/ \E i \in DOMAIN servers : \E j \in DOMAIN servers[i].listens :
          \E k \in DOMAIN LastListens : Clash(i, j, k)

RefusedClash == state = "refused" /\ servers # <<>> => Clashes

\* Each of the four reasons to refuse a server comes from such a pair.
LEMMA NotAddedClashes ==
  ASSUME HostsSound, BacklogSound, Entering, NotAdded(PortOf(LastListens[next]))
  PROVE  Clashes
<1> SUFFICES ASSUME ~NamedTwice(Last)
             PROVE  \E i \in DOMAIN servers : \E j \in DOMAIN servers[i].listens :
                       \E k \in DOMAIN LastListens : Clash(i, j, k)
  BY DEF Clashes
<1>l. PICK l : l = LastListens[next]
  OBVIOUS
<1>1. /\ servers # <<>> /\ next <= Len(LastListens)
      /\ servers \in Seq(Blocks) /\ next \in Nat \ {0}
      /\ DOMAIN servers = 1..Len(servers)
  BY DEF Entering, HostsSound
<1>2. Last \in 1..Len(servers) /\ Last = Len(servers)
  BY <1>1 DEF Last
<1>3. /\ LastListens = servers[Last].listens
      /\ DOMAIN LastListens = 1..Len(LastListens)
      /\ next \in DOMAIN LastListens
      /\ NameSet(Last) # {}
  BY <1>1, <1>2, BlockShape DEF LastListens
<1>4. l.addr \in DOMAIN ports
  <2>1. SUFFICES ASSUME l.addr \notin DOMAIN ports PROVE FALSE
    OBVIOUS
  <2>2. PortOf(l) = [addr |-> l.addr, backlog |-> l.backlog, dserver |-> Nobody,
                     defaultSet |-> FALSE, names |-> [n \in {} |-> Nobody]]
    BY <2>1 DEF PortOf, NewPort
  <2>3. next \in Matching(PortOf(l))
    BY <1>l, <1>3, <2>2 DEF Matching, SameListen
  <2> QED BY <1>l, <2>2, <2>3 DEF NotAdded
<1>5. PortOf(l) = ports[l.addr] /\ PortSound(l.addr)
  BY <1>4 DEF PortOf, HostsSound
<1>6. ASSUME NEW i \in 1..Len(servers), NEW j \in DOMAIN servers[i].listens,
             EnteredAt(i, j)
      PROVE  <<i, j>> # <<Last, next>> /\ i \in DOMAIN servers
  <2>1. i = Last => j # next
    BY <1>1, <1>2, <1>6 DEF EnteredAt
  <2> QED BY <1>1, <2>1
<1>7. CASE Matching(ports[l.addr]) = {}
  <2>1. l.backlog # ports[l.addr].backlog
    <3>1. ports[l.addr].addr = l.addr
      BY <1>5 DEF PortSound
    <3> QED BY <1>l, <1>3, <1>7, <3>1 DEF Matching, SameListen
  <2>2. PICK i \in 1..Len(servers) : HasBacklog(i, l.addr, ports[l.addr].backlog)
    BY <1>4 DEF BacklogSound
  <2> QED BY <1>l, <1>3, <1>6, <2>1, <2>2 DEF HasBacklog, Clash
<1>8. ASSUME NEW i \in 1..Len(servers), OnPort(i, l.addr),
             NameSet(i) \cap NameSet(Last) # {}
      PROVE  \E j \in DOMAIN servers[i].listens : Clash(i, j, next)
  BY <1>l, <1>6, <1>8 DEF OnPort, Clash
<1>9. CASE NameSet(Last) \cap DOMAIN ports[l.addr].names # {}
  <2>1. PICK n \in NameSet(Last) : n \in DOMAIN ports[l.addr].names
    BY <1>9
  <2>2. PICK i \in 1..Len(servers) : OnPort(i, l.addr) /\ n \in NameSet(i)
    BY <1>5, <2>1 DEF PortSound
  <2> QED BY <1>1, <1>3, <1>8, <2>1, <2>2
<1>10. CASE AsDefault(ports[l.addr]) /\ ports[l.addr].defaultSet
  <2>1. PICK d \in 1..Len(servers) : OnPort(d, l.addr) /\ DeclaredDefault(d, l.addr)
    BY <1>5, <1>10 DEF PortSound
  <2>2. CASE d = Last
    BY <1>1, <1>3, <1>8, <2>1, <2>2
  <2>3. CASE d # Last
    <3>1. PICK k \in DOMAIN LastListens :
             LastListens[k].addr = l.addr /\ LastListens[k].isDefault
      BY <1>5, <1>10 DEF AsDefault, Matching, SameListen, PortSound
    <3>2. PICK j \in DOMAIN servers[d].listens :
             servers[d].listens[j].addr = l.addr /\ servers[d].listens[j].isDefault
      BY <2>1 DEF DeclaredDefault
    <3>3. Clash(d, j, k)
      BY <2>3, <3>1, <3>2 DEF Clash
    <3> QED BY <1>1, <3>3
  <2> QED BY <2>2, <2>3
<1> QED BY <1>l, <1>5, <1>7, <1>9, <1>10 DEF NotAdded

\* A configuration that gives every address one backlog is only refused when it
\* says two things of one address, two defaults or the same name twice, whatever
\* its server blocks are: the ports entered before, and the order of entering them,
\* are no ground for Port::add_server() to throw.
THEOREM RefusalHolds == HostsSpec => []RefusedIsAmbiguous
<1> DEFINE Inv == HostsSound /\ BacklogSound /\ RefusedClash
<1>1. HostsInit => Inv
  BY HostsInitSound DEF HostsInit, BacklogSound, RefusedClash
<1>2. Inv /\ [HostsNext]_vars => Inv'
  <2> SUFFICES ASSUME Inv, [HostsNext]_vars PROVE Inv'
    OBVIOUS
  <2>1. HostsSound'
    BY ReadServerSound, EnterListenSound, OtherStepsSound DEF HostsNext
  <2>2. BacklogSound'
    BY BacklogReadServer, BacklogEnterListen, BacklogOthers DEF HostsNext
  <2>3. RefusedClash'
    <3>1. ASSUME UNCHANGED servers PROVE Clashes' = Clashes
      <4>1. Last' = Last /\ LastListens' = LastListens
        BY <3>1 DEF Last, LastListens
      <4>2. \A i : NameSet(i)' = NameSet(i) /\ NamedTwice(i)' = NamedTwice(i)
        BY <3>1 DEF NameSet, NamedTwice
      <4>3. NamedTwice(Last)' = NamedTwice(Last)
        BY <3>1 DEF NamedTwice, Last
      <4>4. \A i, j, k : Clash(i, j, k)' = Clash(i, j, k)
        BY <3>1, <4>1 DEF Clash, NameSet
      <4> QED BY <3>1, <4>1, <4>3, <4>4 DEF Clashes
    <3>2. CASE Refuse
      BY <3>1, <3>2, NotAddedClashes DEF Refuse, RefusedClash
    <3>3. CASE NoSocket
      <4>1. SUFFICES ASSUME servers # <<>> PROVE FALSE
        BY <3>3 DEF NoSocket, RefusedClash
      <4>2. /\ servers \in Seq(Blocks) /\ Len(servers) \in 1..Len(servers)
            /\ next \in Nat /\ next > Len(servers[Len(servers)].listens)
        BY <3>3, <4>1 DEF NoSocket, Entered, HostsSound, LastListens, Last
      <4>3. /\ servers[Len(servers)].listens \in Seq(Listens)
            /\ servers[Len(servers)].listens # <<>>
        BY <4>2, BlockShape
      <4>4. EnteredAt(Len(servers), 1) /\ 1 \in DOMAIN servers[Len(servers)].listens
        BY <4>2, <4>3 DEF EnteredAt
      <4> QED BY <3>3, <4>2, <4>4 DEF NoSocket, HostsSound
    <3>4. CASE ReadServer \/ EnterListen \/ Start \/ Accept \/ Request
      <4>1. state' # "refused"
        BY <3>4 DEF ReadServer, EnterListen, Start, Accept, Request, Entering, Entered
      <4> QED BY <4>1 DEF RefusedClash
    <3>5. CASE UNCHANGED vars
      BY <3>1, <3>5 DEF vars, RefusedClash
    <3> QED BY <3>2, <3>3, <3>4, <3>5 DEF HostsNext
  <2> QED BY <2>1, <2>2, <2>3
<1>3. HostsSound /\ RefusedClash => RefusedIsAmbiguous
  <2> SUFFICES ASSUME HostsSound, RefusedClash, state = "refused", servers # <<>>, OneBacklog,
                      ~NamedTwice(Last)
               PROVE  TwoThingsOfOne
    BY DEF RefusedIsAmbiguous
  <2>0. PICK i \in DOMAIN servers : \E j \in DOMAIN servers[i].listens :
          \E k \in DOMAIN LastListens : Clash(i, j, k)
    BY DEF RefusedClash, Clashes
  <2>1. PICK j \in DOMAIN servers[i].listens, k \in DOMAIN LastListens : Clash(i, j, k)
    BY <2>0
  <2>2. Last \in DOMAIN servers
    BY DEF HostsSound, Last
  <2>3. servers[i].listens[j].addr = LastListens[k].addr
            => servers[i].listens[j].backlog = LastListens[k].backlog
    BY <2>2 DEF OneBacklog, LastListens
  <2> QED
    BY <2>1, <2>2, <2>3 DEF Clash, TwoThingsOfOne
<1> QED BY <1>1, <1>2, <1>3, PTL DEF HostsSpec

-----------------------------------------------------------------------------
(* The location of a path: locations and what is in them                      *)

IsSeq(s) == \E S : s \in Seq(S)

\* What was put into a location after it was made is no shorter than its path.
Own(b) ==
    \A k \in DOMAIN b.under :
        k > b.copied /\ b.under[k].is_prefix => Len(b.under[k].path) > Len(b.path)

\* A set of locations with all that is in them.
Tree(S) ==
    /\ S \subseteq [path : Seq(STRING) \ {<<>>}, is_prefix : BOOLEAN,
                    under : Seq(S), copied : Nat]
    /\ \A b \in S : Own(b)

\* In location b no path that is a prefix is shorter than n.
Deep(b, n) ==
    \E S : b \in S /\ Tree(S) /\ \A x \in S : x.is_prefix => Len(x.path) >= n

LEMMA DeepFields ==
  ASSUME NEW n \in Nat, NEW b, Deep(b, n)
  PROVE  /\ b = [path |-> b.path, is_prefix |-> b.is_prefix, under |-> b.under,
                 copied |-> b.copied]
         /\ b.path \in Seq(STRING) /\ b.path # <<>> /\ Len(b.path) \in Nat
         /\ b.is_prefix \in BOOLEAN /\ b.copied \in Nat
         /\ IsSeq(b.under) /\ DOMAIN b.under = 1..Len(b.under) /\ Len(b.under) \in Nat
         /\ Own(b)
         /\ b.is_prefix => Len(b.path) >= n
<1>1. PICK S : b \in S /\ Tree(S) /\ \A x \in S : x.is_prefix => Len(x.path) >= n
  BY DEF Deep
<1>2. b \in [path : Seq(STRING) \ {<<>>}, is_prefix : BOOLEAN, under : Seq(S), copied : Nat]
  BY <1>1 DEF Tree
<1>3. Own(b) /\ (b.is_prefix => Len(b.path) >= n)
  BY <1>1 DEF Tree
<1> QED
  BY <1>2, <1>3 DEF IsSeq

LEMMA DeepUnder ==
  ASSUME NEW n \in Nat, NEW b, Deep(b, n), NEW k \in DOMAIN b.under
  PROVE  Deep(b.under[k], n)
<1>1. PICK S : b \in S /\ Tree(S) /\ \A x \in S : x.is_prefix => Len(x.path) >= n
  BY DEF Deep
<1>2. b.under \in Seq(S)
  BY <1>1 DEF Tree
<1>3. b.under[k] \in S
  BY <1>2
<1> QED
  BY <1>1, <1>3 DEF Deep

\* A location that begins empty.
LEMMA DeepEmpty ==
  ASSUME NEW n \in Nat, NEW p \in Seq(STRING) \ {<<>>}, NEW ip \in BOOLEAN, ip => Len(p) >= n
  PROVE  Deep(Block(p, ip, <<>>), n)
<1> DEFINE b == Block(p, ip, <<>>)
<1> SUFFICES Deep(b, n)
  OBVIOUS
<1>1. b = [path |-> p, is_prefix |-> ip, under |-> <<>>, copied |-> 0]
  BY DEF Block
<1>2. Own(b)
  BY <1>1 DEF Own
<1>5. b.is_prefix = ip /\ b.path = p
  BY <1>1
<1> HIDE DEF b
<1>3. <<>> \in Seq({b})
  OBVIOUS
<1>4. b \in [path : Seq(STRING) \ {<<>>}, is_prefix : BOOLEAN, under : Seq({b}), copied : Nat]
  BY <1>1, <1>3
<1>6. Tree({b})
  BY <1>2, <1>4, Zenon DEF Tree
<1>7. b \in {b} /\ \A x \in {b} : x.is_prefix => Len(x.path) >= n
  BY <1>5
<1> QED
  BY <1>6, <1>7, Zenon DEF Deep

\* More locations, with what is in them, are a tree as well.
LEMMA TreeGrows ==
  ASSUME NEW S, NEW T, NEW b, Tree(S), Tree(T),
         b \in [path : Seq(STRING) \ {<<>>}, is_prefix : BOOLEAN,
                under : Seq(S \cup T), copied : Nat],
         Own(b)
  PROVE  Tree(S \cup T \cup {b})
<1> DEFINE U == S \cup T \cup {b}
           R(X) == [path : Seq(STRING) \ {<<>>}, is_prefix : BOOLEAN, under : Seq(X), copied : Nat]
<1>1. Seq(S) \subseteq Seq(U) /\ Seq(T) \subseteq Seq(U) /\ Seq(S \cup T) \subseteq Seq(U)
  OBVIOUS
<1>2. ASSUME NEW x \in U PROVE x \in R(U)
  <2>1. x \in R(S) \/ x \in R(T) \/ x \in R(S \cup T)
    BY Zenon DEF Tree
  <2> QED
    BY <1>1, <2>1
<1>3. \A x \in U : Own(x)
  BY Zenon DEF Tree
<1> QED
  BY <1>2, <1>3, Zenon DEF Tree

\* A location made as a copy of what was put into another.
LEMMA DeepCopy ==
  ASSUME NEW n \in Nat, NEW c, Deep(c, n),
         NEW p \in Seq(STRING) \ {<<>>}, NEW ip \in BOOLEAN, ip => Len(p) >= n
  PROVE  Deep(Block(p, ip, c.under), n)
<1>1. PICK S : c \in S /\ Tree(S) /\ \A x \in S : x.is_prefix => Len(x.path) >= n
  BY DEF Deep
<1> DEFINE b == Block(p, ip, c.under)
<1> SUFFICES Deep(b, n)
  OBVIOUS
<1>2. b = [path |-> p, is_prefix |-> ip, under |-> c.under, copied |-> Len(c.under)]
  BY DEF Block
<1>3. c.under \in Seq(S)
  BY <1>1 DEF Tree
<1>4. b \in [path : Seq(STRING) \ {<<>>}, is_prefix : BOOLEAN, under : Seq(S \cup S), copied : Nat]
  BY <1>2, <1>3
<1>5. Own(b)
  BY <1>2, <1>3 DEF Own
<1>6. b.is_prefix = ip /\ b.path = p
  BY <1>2
<1> HIDE DEF b
<1>7. Tree(S \cup S \cup {b})
  BY <1>1, <1>4, <1>5, TreeGrows
<1>8. \A x \in S \cup S \cup {b} : x.is_prefix => Len(x.path) >= n
  BY <1>1, <1>6
<1> QED
  BY <1>7, <1>8, Zenon DEF Deep

\* A location in which another is put last.
LEMMA DeepAppend ==
  ASSUME NEW n \in Nat, NEW c, Deep(c, n), NEW d, Deep(d, n),
         d.is_prefix => Len(d.path) > Len(c.path)
  PROVE  Deep([c EXCEPT !.under = Append(@, d)], n)
<1>1. PICK S : c \in S /\ Tree(S) /\ \A x \in S : x.is_prefix => Len(x.path) >= n
  BY DEF Deep
<1>2. PICK T : d \in T /\ Tree(T) /\ \A x \in T : x.is_prefix => Len(x.path) >= n
  BY DEF Deep
<1> DEFINE b == [c EXCEPT !.under = Append(@, d)]
<1> SUFFICES Deep(b, n)
  OBVIOUS
<1>3. /\ c \in [path : Seq(STRING) \ {<<>>}, is_prefix : BOOLEAN, under : Seq(S), copied : Nat]
      /\ Own(c)
  BY <1>1 DEF Tree
<1>4. c.under \in Seq(S \cup T) /\ Append(c.under, d) \in Seq(S \cup T)
  <2>1. c.under \in Seq(S \cup T)
    BY <1>3
  <2> QED
    BY <1>2, <2>1
<1>5. b = [path |-> c.path, is_prefix |-> c.is_prefix, under |-> Append(c.under, d),
           copied |-> c.copied]
  <2>1. c = [path |-> c.path, is_prefix |-> c.is_prefix, under |-> c.under, copied |-> c.copied]
    BY DeepFields
  <2> QED
    BY <2>1
<1>6. b \in [path : Seq(STRING) \ {<<>>}, is_prefix : BOOLEAN, under : Seq(S \cup T), copied : Nat]
  BY <1>3, <1>4, <1>5
<1>7. Own(b)
  <2>1. /\ b.path = c.path /\ b.copied = c.copied /\ b.under = Append(c.under, d)
    BY <1>5
  <2>2. ASSUME NEW k \in DOMAIN Append(c.under, d)
        PROVE  \/ k \in DOMAIN c.under /\ Append(c.under, d)[k] = c.under[k]
               \/ Append(c.under, d)[k] = d
    BY <1>4
  <2> QED
    BY <1>3, <2>1, <2>2 DEF Own
<1>8. b.is_prefix = c.is_prefix /\ b.path = c.path
  BY <1>5
<1> HIDE DEF b
<1>9. Tree(S \cup T \cup {b})
  BY <1>1, <1>2, <1>6, <1>7, TreeGrows
<1>10. \A x \in S \cup T \cup {b} : x.is_prefix => Len(x.path) >= n
  BY <1>1, <1>2, <1>8
<1> QED
  BY <1>9, <1>10, Zenon DEF Deep

-----------------------------------------------------------------------------
(* Building                                                                   *)

ServerSound(s) ==
    /\ s = [path |-> <<>>, is_prefix |-> TRUE, under |-> s.under, copied |-> 0]
    /\ IsSeq(s.under)
    /\ \A k \in DOMAIN s.under :
          /\ s.under[k].path \in Seq(STRING)
          /\ Deep(s.under[k], Len(s.under[k].path))

\* The blocks being read: a location that path prefixes are looked for in is
\* longer than the one around it, and no shorter than the outermost.
StackSound ==
    /\ IsSeq(open) /\ Len(open) \in Nat \ {0} /\ ServerSound(open[1])
    /\ \A d \in 2..Len(open) :
          /\ open[2].path \in Seq(STRING)
          /\ Deep(open[d], Len(open[2].path))
          /\ open[d].is_prefix => Len(open[d].path) > Len(open[d - 1].path)

\* No two locations have the same path.
Distinct(u) == \A j, k \in DOMAIN u : u[j].path = u[k].path => j = k

Built ==
    /\ StackSound
    /\ Distinct(open[1].under)
    /\ pc \in {"ready", "search", "answered"} => Len(open) = 1 /\ HasRoot

LEMMA Appended ==
  ASSUME NEW s, IsSeq(s), NEW e
  PROVE  /\ IsSeq(Append(s, e)) /\ Len(s) \in Nat /\ Len(Append(s, e)) = Len(s) + 1
         /\ \A k \in 1..Len(s) : Append(s, e)[k] = s[k]
         /\ Append(s, e)[Len(s) + 1] = e
         /\ DOMAIN s = 1..Len(s) /\ DOMAIN Append(s, e) = 1..Len(s) + 1
<1>1. PICK S : s \in Seq(S)
  BY DEF IsSeq
<1>2. s \in Seq(S \cup {e}) /\ e \in S \cup {e}
  BY <1>1
<1>3. Append(s, e) \in Seq(S \cup {e})
  BY <1>2
<1> QED
  BY <1>2, <1>3 DEF IsSeq

LEMMA DistinctAppend ==
  ASSUME NEW u, IsSeq(u), Distinct(u), NEW d, \A k \in DOMAIN u : u[k].path # d.path
  PROVE  Distinct(Append(u, d))
<1> DEFINE v == Append(u, d)
<1>1. /\ Len(u) \in Nat /\ DOMAIN u = 1..Len(u) /\ DOMAIN v = 1..Len(u) + 1
      /\ v[Len(u) + 1] = d /\ \A k \in 1..Len(u) : v[k] = u[k]
  BY Appended
<1> HIDE DEF v
<1>2. \A k \in DOMAIN v : k = Len(u) + 1 \/ k \in DOMAIN u
  BY <1>1
<1>3. ASSUME NEW j \in DOMAIN v, NEW k \in DOMAIN v, v[j].path = v[k].path
      PROVE  j = k
  BY <1>1, <1>2, <1>3 DEF Distinct
<1> QED
  BY <1>3 DEF Distinct, v

\* A function of the places of a sequence is a sequence of that length.
LEMMA SameLength ==
  ASSUME NEW n \in Nat, NEW t, t = [j \in 1..n |-> t[j]]
  PROVE  IsSeq(t) /\ Len(t) = n
<1> DEFINE S == {t[j] : j \in 1..n}
<1>1. t \in [1..n -> S]
  OBVIOUS
<1> HIDE DEF S
<1>2. t \in Seq(S) /\ Len(t) = n
  BY <1>1
<1> QED
  BY <1>2 DEF IsSeq

\* A block with another put last in it.
LEMMA UnderAppended ==
  ASSUME NEW b, NEW p, NEW ip, NEW u, NEW c, NEW d,
         b = [path |-> p, is_prefix |-> ip, under |-> u, copied |-> c],
         NEW t, t = [b EXCEPT !.under = Append(@, d)]
  PROVE  t = [path |-> p, is_prefix |-> ip, under |-> Append(u, d), copied |-> c]
<1> DEFINE v == Append(u, d)
<1> HIDE DEF v
<1>1. b.under = u
  OBVIOUS
<1>2. [b EXCEPT !.under = v] = [path |-> p, is_prefix |-> ip, under |-> v, copied |-> c]
  OBVIOUS
<1> QED
  BY <1>1, <1>2 DEF v

LEMMA ServerAppend ==
  ASSUME NEW s, ServerSound(s), NEW d, d.path \in Seq(STRING), Deep(d, Len(d.path))
  PROVE  /\ ServerSound([s EXCEPT !.under = Append(@, d)])
         /\ [s EXCEPT !.under = Append(@, d)].under = Append(s.under, d)
<1> DEFINE t == [s EXCEPT !.under = Append(@, d)]
           u == s.under
<1>1. s = [path |-> <<>>, is_prefix |-> TRUE, under |-> u, copied |-> 0]
  BY DEF ServerSound
<1>0. t = [s EXCEPT !.under = Append(@, d)]
  OBVIOUS
<1> HIDE DEF t, u
<1>2. t = [path |-> <<>>, is_prefix |-> TRUE, under |-> Append(u, d), copied |-> 0]
  BY <1>0, <1>1, UnderAppended, Zenon
<1>3. t.under = Append(u, d)
  BY <1>2
<1>4. IsSeq(u) /\ \A k \in DOMAIN u : u[k].path \in Seq(STRING) /\ Deep(u[k], Len(u[k].path))
  BY DEF ServerSound, u
<1>5. ASSUME NEW k \in DOMAIN t.under
      PROVE  t.under[k].path \in Seq(STRING) /\ Deep(t.under[k], Len(t.under[k].path))
  BY <1>3, <1>4, <1>5, Appended
<1>6. IsSeq(t.under)
  BY <1>3, <1>4, Appended
<1>7. t = [path |-> <<>>, is_prefix |-> TRUE, under |-> t.under, copied |-> 0]
  BY <1>2, <1>3
<1>8. ServerSound(t)
  BY <1>5, <1>6, <1>7 DEF ServerSound
<1> QED
  BY <1>3, <1>8 DEF t, u

LEMMA InitBuilt == LocationsInit => Built
<1> SUFFICES ASSUME LocationsInit PROVE Built
  OBVIOUS
<1>1. open = <<Server>> /\ pc = "building"
  BY DEF LocationsInit
<1>2. Server = [path |-> <<>>, is_prefix |-> TRUE, under |-> <<>>, copied |-> 0]
  BY DEF Server, Block
<1>3. IsSeq(open) /\ Len(open) = 1 /\ open[1] = Server
  <2>1. open \in Seq({Server})
    BY <1>1
  <2> QED
    BY <1>1, <2>1 DEF IsSeq
<1>4. IsSeq(<<>>)
  <2>1. <<>> \in Seq({})
    OBVIOUS
  <2> QED
    BY <2>1 DEF IsSeq
<1>5. ServerSound(Server)
  BY <1>2, <1>4 DEF ServerSound
<1>6. Distinct(Server.under)
  BY <1>2 DEF Distinct
<1> QED
  BY <1>1, <1>3, <1>5, <1>6 DEF Built, StackSound

LEMMA OpenBuilt ==
  ASSUME Built, OpenLocation
  PROVE  Built'
<1>1. PICK ext \in BOOLEAN, param \in Params : open' = Append(open, Made(Top, ext, param))
  BY DEF OpenLocation
<1> DEFINE m == Made(Top, ext, param)
           L == Len(open)
           ip == Top.is_prefix /\ ~ext
           p == IF ip THEN Top.path \o param ELSE param
<1>2. param \in Seq(STRING) /\ param # <<>> /\ Len(param) > 0
  <2>1. param \in Seq(STRING) /\ param # <<>>
    BY LocationsAssumption
  <2> QED
    BY <2>1
<1>3. L \in Nat \ {0} /\ IsSeq(open) /\ ServerSound(open[1])
  BY DEF Built, StackSound
<1>4. /\ IsSeq(open') /\ Len(open') = L + 1 /\ open'[L + 1] = m
      /\ \A d \in 1..L : open'[d] = open[d]
  BY <1>1, <1>3, Appended
<1>5. pc = "building" /\ pc' = "building" /\ Distinct(open'[1].under)
  <2>1. open'[1] = open[1]
    BY <1>3, <1>4
  <2> QED
    BY <2>1 DEF OpenLocation, Built
<1>6. CASE L = 1
  <2>1. Top = open[1] /\ open[1].path = <<>> /\ open[1].is_prefix = TRUE
    BY <1>3, <1>6 DEF Top, ServerSound
  <2>2. m = Block(p, ip, <<>>)
    BY <1>6 DEF Made
  <2>3. ip \in BOOLEAN /\ p \in Seq(STRING) /\ p # <<>> /\ Len(p) > 0
    BY <1>2, <2>1
  <2>4. m.path = p /\ m.is_prefix = ip
    BY <2>2 DEF Block
  <2> HIDE DEF p, ip, m
  <2>5. Deep(m, Len(m.path))
    BY <2>2, <2>3, <2>4, DeepEmpty
  <2>6. open'[2] = m /\ open'[1] = open[1] /\ Len(open') = 2
    BY <1>4, <1>6
  <2>7. Len(open[1].path) = 0
    BY <2>1
  <2>8. StackSound'
    <3>1. ASSUME NEW d \in 2..Len(open')
          PROVE  /\ open'[2].path \in Seq(STRING)
                 /\ Deep(open'[d], Len(open'[2].path))
                 /\ open'[d].is_prefix => Len(open'[d].path) > Len(open'[d - 1].path)
      <4>1. d = 2
        BY <2>6, <3>1
      <4> QED
        BY <2>3, <2>4, <2>5, <2>6, <2>7, <4>1
    <3> QED
      BY <1>3, <1>4, <2>6, <3>1 DEF StackSound
  <2> QED
    BY <1>5, <2>8 DEF Built
<1>7. CASE L # 1
  <2> DEFINE n == Len(open[2].path)
  <2>1. L \in 2..L /\ Top = open[L] /\ Deep(Top, n) /\ n \in Nat
    <3>1. L \in 2..L /\ Top = open[L]
      BY <1>3, <1>7 DEF Top
    <3>2. Deep(Top, n) /\ open[2].path \in Seq(STRING)
      BY <3>1 DEF Built, StackSound
    <3> QED
      BY <3>1, <3>2
  <2>2. m = Block(p, ip, Top.under)
    BY <1>7 DEF Made
  <2>3. /\ Top.path \in Seq(STRING) /\ Top.is_prefix \in BOOLEAN
        /\ Top.is_prefix => Len(Top.path) >= n
    BY <2>1, DeepFields
  <2>4. /\ ip \in BOOLEAN /\ p \in Seq(STRING) /\ Len(p) > 0 /\ p # <<>>
        /\ ip => Len(p) > Len(Top.path) /\ Len(p) >= n
    <3>1. ip => Top.is_prefix = TRUE /\ p = Top.path \o param
      OBVIOUS
    <3>2. ~ip => p = param
      OBVIOUS
    <3>3. ip \in BOOLEAN
      BY <2>3
    <3> HIDE DEF ip, p
    <3>4. CASE ip
      <4> DEFINE q == Top.path
      <4>1. q \in Seq(STRING) /\ Len(q) >= n /\ p = q \o param
        BY <2>3, <3>1, <3>4
      <4> HIDE DEF q, n
      <4>2. p \in Seq(STRING) /\ Len(p) = Len(q) + Len(param)
        BY <1>2, <4>1
      <4>3. Len(p) > Len(q) /\ Len(p) >= n
        BY <1>2, <2>1, <4>1, <4>2
      <4>4. p # <<>>
        BY <1>2, <4>1, <4>2
      <4> QED
        BY <1>2, <2>1, <3>3, <4>1, <4>2, <4>3, <4>4 DEF q
    <3>5. CASE ~ip
      BY <1>2, <3>2, <3>3, <3>5
    <3> QED
      BY <3>4, <3>5
  <2>5. m.path = p /\ m.is_prefix = ip
    BY <2>2 DEF Block
  <2> HIDE DEF p, ip, m, n
  <2>6. Deep(m, n)
    BY <2>1, <2>2, <2>4, DeepCopy
  <2>7. StackSound'
    <3>1. ASSUME NEW d \in 2..Len(open')
          PROVE  /\ open'[2].path \in Seq(STRING)
                 /\ Deep(open'[d], Len(open'[2].path))
                 /\ open'[d].is_prefix => Len(open'[d].path) > Len(open'[d - 1].path)
      <4>1. open'[2] = open[2] /\ open[2].path \in Seq(STRING)
        BY <1>3, <1>4, <1>7, <2>1 DEF Built, StackSound
      <4>2. CASE d = L + 1
        <5>1. open'[d] = m /\ open'[d - 1] = Top
          BY <1>3, <1>4, <2>1, <4>2
        <5> QED
          BY <2>4, <2>5, <2>6, <4>1, <5>1 DEF n
      <4>3. CASE d # L + 1
        <5>1. d \in 2..L /\ open'[d] = open[d] /\ open'[d - 1] = open[d - 1]
          BY <1>3, <1>4, <3>1, <4>3
        <5> QED
          BY <4>1, <5>1 DEF Built, StackSound
      <4> QED
        BY <4>2, <4>3
    <3> QED
      BY <1>3, <1>4, <3>1 DEF StackSound
  <2> QED
    BY <1>5, <2>7 DEF Built
<1> QED
  BY <1>6, <1>7

LEMMA CloseBuilt ==
  ASSUME Built, CloseLocation
  PROVE  Built'
<1> DEFINE L == Len(open)
           up == [open[L - 1] EXCEPT !.under = Append(@, Top)]
<1>1. L \in Nat /\ L > 1 /\ IsSeq(open) /\ ServerSound(open[1])
  BY DEF Built, StackSound, CloseLocation
<1>2. /\ IsSeq(open') /\ Len(open') = L - 1 /\ open'[L - 1] = up
      /\ \A d \in 1..L - 2 : open'[d] = open[d]
  <2>1. PICK S : open \in Seq(S)
    BY <1>1 DEF IsSeq
  <2> DEFINE f == SubSeq(open, 1, L - 1)
  <2>2. f \in Seq(S) /\ Len(f) = L - 1 /\ \A d \in 1..L - 1 : f[d] = open[d]
    BY <1>1, <2>1
  <2>3. open' = [f EXCEPT ![L - 1] = up]
    <3>1. f[L - 1] = open[L - 1]
      BY <1>1, <2>2
    <3> QED
      BY <3>1 DEF CloseLocation
  <2> HIDE DEF f, up
  <2>4. IsSeq(f) /\ L - 1 \in 1..Len(f)
    BY <1>1, <2>2 DEF IsSeq
  <2>5. /\ IsSeq(open') /\ Len(open') = L - 1 /\ open'[L - 1] = up
        /\ \A d \in 1..Len(f) : d # L - 1 => open'[d] = f[d]
    <3>1. f = [d \in 1..L - 1 |-> f[d]] /\ L - 1 \in Nat
      BY <1>1, <2>2
    <3>2. /\ open' = [d \in 1..L - 1 |-> open'[d]] /\ open'[L - 1] = up
          /\ \A d \in 1..L - 1 : d # L - 1 => open'[d] = f[d]
      BY <2>2, <2>3, <2>4, <3>1
    <3> QED
      BY <2>2, <3>1, <3>2, SameLength
  <2>6. \A d \in 1..L - 2 : d \in 1..Len(f) /\ d # L - 1 /\ d \in 1..L - 1
    BY <1>1, <2>2
  <2> QED
    BY <2>2, <2>5, <2>6
<1>3. pc' = "building"
  BY DEF CloseLocation
<1>4. Top = open[L]
  BY DEF Top
<1>5. L \in 2..L
  BY <1>1
<1>6. /\ open[2].path \in Seq(STRING) /\ Deep(Top, Len(open[2].path))
      /\ Top.is_prefix => Len(Top.path) > Len(open[L - 1].path)
  BY <1>4, <1>5 DEF Built, StackSound
<1>7. CASE L = 2
  <2>1. Top = open[2] /\ up = [open[1] EXCEPT !.under = Append(@, Top)]
    BY <1>4, <1>7
  <2>2. ServerSound(up) /\ up.under = Append(open[1].under, Top)
    BY <1>1, <1>6, <2>1, ServerAppend
  <2>3. \A k \in DOMAIN open[1].under : open[1].under[k].path # Top.path
    BY <1>7 DEF CloseLocation, Taken, Parent
  <2>4. IsSeq(open[1].under) /\ Distinct(open[1].under)
    BY DEF Built, StackSound, ServerSound
  <2> HIDE DEF up
  <2>5. Distinct(up.under)
    BY <2>2, <2>3, <2>4, DistinctAppend
  <2>6. Len(open') = 1 /\ open'[1] = up /\ IsSeq(open')
    BY <1>2, <1>7
  <2>7. StackSound'
    BY <2>2, <2>6 DEF StackSound
  <2>8. Distinct(open'[1].under)
    BY <2>5, <2>6
  <2> QED
    BY <1>3, <2>7, <2>8 DEF Built
<1>8. CASE L # 2
  <2> DEFINE n == Len(open[2].path)
             c == open[L - 1]
  <2>1. L - 1 \in 2..L /\ Deep(c, n) /\ n \in Nat
    <3>1. L - 1 \in 2..L
      <4> HIDE DEF L
      <4> QED
        BY <1>1, <1>8
    <3>2. Deep(c, n)
      BY <3>1 DEF Built, StackSound
    <3> QED
      BY <1>6, <3>1, <3>2
  <2>2. Deep(up, n)
    BY <1>6, <2>1, DeepAppend
  <2>3. up.path = c.path /\ up.is_prefix = c.is_prefix
    <3>1. c = [path |-> c.path, is_prefix |-> c.is_prefix, under |-> c.under, copied |-> c.copied]
      BY <2>1, DeepFields
    <3> QED
      BY <3>1
  <2>4. open'[1] = open[1]
    BY <1>1, <1>2, <1>8
  <2>5. \A d \in 2..L - 1 : open'[d].path = open[d].path /\ open'[d].is_prefix = open[d].is_prefix
    <3>1. \A d \in 2..L - 1 : d = L - 1 \/ d \in 1..L - 2
      BY <1>1
    <3> HIDE DEF up
    <3> QED
      BY <1>2, <2>3, <3>1
  <2> HIDE DEF n, up
  <2>6. ASSUME NEW d \in 2..L - 1
        PROVE  /\ open'[2].path \in Seq(STRING)
               /\ Deep(open'[d], Len(open'[2].path))
               /\ open'[d].is_prefix => Len(open'[d].path) > Len(open'[d - 1].path)
    <3>1. open'[2].path = open[2].path /\ d \in 2..L
      BY <1>1, <1>8, <2>5
    <3>2. Deep(open'[d], n)
      <4>1. CASE d = L - 1
        BY <1>2, <2>2, <4>1
      <4>2. CASE d # L - 1
        <5>1. d \in 1..L - 2
          BY <1>1, <2>6, <4>2
        <5> QED
          BY <1>2, <3>1, <5>1 DEF Built, StackSound, n
      <4> QED
        BY <4>1, <4>2
    <3>3. open'[d - 1].path = open[d - 1].path
      <4>1. d = 2 \/ d - 1 \in 2..L - 1
        BY <1>1, <2>6
      <4> QED
        BY <2>4, <2>5, <4>1
    <3>4. open[d].is_prefix => Len(open[d].path) > Len(open[d - 1].path)
      BY <3>1 DEF Built, StackSound
    <3> QED
      BY <1>6, <2>5, <3>1, <3>2, <3>3, <3>4 DEF n
  <2> QED
    BY <1>1, <1>2, <1>3, <1>8, <2>4, <2>6 DEF Built, StackSound
<1> QED
  BY <1>7, <1>8

LEMMA ServerBuilt ==
  ASSUME Built, CloseServer
  PROVE  Built'
<1> DEFINE r == Block(Root, TRUE, <<>>)
<1>1. /\ pc' = "ready" /\ Len(open) = 1 /\ Top = open[1] /\ IsSeq(open)
      /\ ServerSound(open[1])
  BY DEF CloseServer, Built, StackSound, Top
<1>2. CASE HasRoot
  BY <1>1, <1>2 DEF CloseServer, Built, StackSound, HasRoot, Top
<1>3. CASE ~HasRoot
  <2>1. r.path = Root /\ Root \in Seq(STRING) \ {<<>>}
    BY LocationsAssumption DEF Block
  <2>2. Len(Root) \in Nat
    BY <2>1
  <2>3. Deep(r, Len(r.path))
    <3>1. Deep(Block(Root, TRUE, <<>>), Len(Root))
      <4>1. TRUE \in BOOLEAN /\ Len(Root) >= Len(Root)
        BY <2>2
      <4> QED
        BY <2>1, <2>2, <4>1, DeepEmpty
    <3> QED
      BY <2>1, <3>1
  <2> HIDE DEF r
  <2> DEFINE s == [open[1] EXCEPT !.under = Append(@, r)]
  <2>4. ServerSound(s) /\ s.under = Append(open[1].under, r)
    BY <1>1, <2>1, <2>3, ServerAppend
  <2>7. Distinct(s.under)
    <3>1. \A k \in DOMAIN open[1].under : open[1].under[k].path # r.path
      BY <1>1, <1>3, <2>1 DEF HasRoot
    <3>2. IsSeq(open[1].under) /\ Distinct(open[1].under)
      BY <1>1 DEF ServerSound, Built
    <3> QED
      BY <2>4, <3>1, <3>2, DistinctAppend
  <2>5. IsSeq(open') /\ Len(open') = 1 /\ open'[1] = s
    <3>1. open' = [open EXCEPT ![1] = s]
      BY <1>3 DEF CloseServer, r
    <3> HIDE DEF s
    <3>2. open = [d \in 1..1 |-> open[d]]
      BY <1>1 DEF IsSeq
    <3> DEFINE n == 1
               D == 1..n
    <3>5. DOMAIN open = D /\ 1 \in D /\ n \in Nat
      BY <3>2
    <3> HIDE DEF D, n
    <3>6. open' = [d \in D |-> open'[d]] /\ open'[1] = s
      BY <3>1, <3>5
    <3>3. n \in Nat /\ open' = [d \in 1..n |-> open'[d]] /\ open'[1] = s
      BY <3>5, <3>6 DEF D
    <3>4. IsSeq(open') /\ Len(open') = n
      BY <3>3, SameLength, Zenon
    <3> QED
      BY <3>3, <3>4 DEF n
  <2> HIDE DEF s
  <2>6. HasRoot'
    <3>1. IsSeq(open[1].under)
      BY <1>1 DEF ServerSound
    <3>2. /\ Len(open[1].under) + 1 \in DOMAIN s.under
          /\ s.under[Len(open[1].under) + 1] = r
      BY <2>4, <3>1, Appended
    <3> QED
      BY <2>1, <2>5, <3>2 DEF HasRoot, Top
  <2>8. StackSound'
    BY <2>4, <2>5 DEF StackSound
  <2>9. Distinct(open'[1].under)
    BY <2>5, <2>7
  <2> QED
    BY <1>1, <2>5, <2>6, <2>8, <2>9 DEF Built
<1> QED
  BY <1>2, <1>3

-----------------------------------------------------------------------------
(* Searching                                                                  *)

\* The search in the server: no location before the iterator is an extension that
\* fits, and the best is the longest of those that fit.
AtServer ==
    /\ at = open[1]
    /\ \A k \in 1..it - 1 :
          /\ ~EndFits(at.under[k])
          /\ PrefixFits(at.under[k]) =>
                best # Nothing /\ Len(at.under[k].path) <= Len(best.path)

\* The search in a location: the server has no extension that fits and no prefix
\* that is longer.
Within ==
    \E n \in Nat :
        /\ Deep(at, n) /\ PrefixFits(at)
        /\ \A k \in DOMAIN open[1].under :
              /\ ~EndFits(open[1].under[k])
              /\ PrefixFits(open[1].under[k]) => Len(open[1].under[k].path) <= n

SearchSound ==
    pc = "search" =>
        /\ it \in Nat \ {0}
        /\ best = Nothing \/ \E k \in 1..it - 1 :
              k \in DOMAIN at.under /\ best = at.under[k] /\ PrefixFits(best)
        /\ AtServer \/ Within

LocationsInv == Built /\ SearchSound /\ AnswerIsBest

\* What is in the location that is searched is in order, too.
LEMMA SeenSound ==
  ASSUME Built, pc = "search", SearchSound, NEW k \in DOMAIN at.under
  PROVE  /\ at.under[k].path \in Seq(STRING) /\ at.under[k].path # <<>>
         /\ at.under[k].is_prefix \in BOOLEAN
         /\ at.under[k].is_prefix /\ k > at.copied
               => Len(at.under[k].path) > Len(at.path)
<1>1. CASE AtServer
  <2>1. ServerSound(open[1]) /\ at = open[1]
    BY <1>1 DEF Built, StackSound, AtServer
  <2>2. at.under[k].path \in Seq(STRING) /\ Deep(at.under[k], Len(at.under[k].path))
    BY <2>1 DEF ServerSound
  <2> DEFINE b == at.under[k]
  <2> HIDE DEF b
  <2>3. b.path # <<>> /\ b.is_prefix \in BOOLEAN /\ Len(b.path) \in Nat
    <3>1. Len(b.path) \in Nat /\ Deep(b, Len(b.path))
      BY <2>2 DEF b
    <3> QED
      BY <3>1, DeepFields
  <2>4. Len(b.path) > 0
    BY <2>2, <2>3 DEF b
  <2>5. at.path = <<>>
    BY <2>1 DEF ServerSound
  <2>6. Len(at.path) = 0
    BY <2>5
  <2> QED
    BY <2>2, <2>3, <2>4, <2>6 DEF b
<1>2. CASE Within
  <2>1. PICK n \in Nat : Deep(at, n)
    BY <1>2 DEF Within
  <2>2. Deep(at.under[k], n) /\ Own(at)
    BY <2>1, DeepUnder, DeepFields
  <2> QED
    BY <2>2, DeepFields DEF Own
<1> QED
  BY <1>1, <1>2 DEF SearchSound

LEMMA NothingIs == Nothing.is_prefix = FALSE /\ Nothing.path = <<>>
  BY DEF Nothing, Block

LEMMA AskSound ==
  ASSUME LocationsInv, Ask
  PROVE  LocationsInv'
<1>1. /\ UNCHANGED open /\ at' = open[1] /\ it' = 1 /\ best' = Nothing
      /\ pc = "ready" /\ pc' = "search"
  BY DEF Ask, building
<1>2. Built'
  BY <1>1 DEF LocationsInv, Built, StackSound, HasRoot, Top
<1>3. SearchSound'
  BY <1>1 DEF SearchSound, AtServer
<1> QED
  BY <1>1, <1>2, <1>3
  DEF LocationsInv, AnswerIsBest, AnswerMatches, ExtensionsFirst, LongestOtherwise

LEMMA KeepSound ==
  ASSUME LocationsInv, Keep
  PROVE  LocationsInv'
<1>1. /\ UNCHANGED <<open, uri, at, pc>> /\ pc = "search" /\ it' = it + 1 /\ best' = Seen
      /\ it <= Len(at.under) /\ Better
  BY DEF Keep, Searching, building
<1>2. Built'
  BY <1>1 DEF LocationsInv, Built, StackSound, HasRoot, Top
<1>3. it \in Nat \ {0} /\ it \in DOMAIN at.under
  <2>1. IsSeq(at.under)
    <3>1. CASE AtServer
      BY <3>1 DEF AtServer, LocationsInv, Built, StackSound, ServerSound
    <3>2. CASE Within
      BY <3>2, DeepFields DEF Within
    <3> QED
      BY <1>1, <3>1, <3>2 DEF LocationsInv, SearchSound
  <2>2. it \in Nat \ {0}
    BY <1>1 DEF LocationsInv, SearchSound
  <2> QED
    BY <1>1, <2>1, <2>2, Appended
<1>4. /\ Seen.path \in Seq(STRING) /\ Seen.path # <<>> /\ Seen.is_prefix = TRUE
      /\ PrefixFits(Seen) /\ Seen # Nothing
  BY <1>1, <1>3, SeenSound, NothingIs DEF LocationsInv, Seen, Better, PrefixFits
<1>5. SearchSound'
  <2>1. \E k \in 1..it' - 1 : k \in DOMAIN at'.under /\ best' = at'.under[k] /\ PrefixFits(best)'
    BY <1>1, <1>3, <1>4 DEF Seen, PrefixFits
  <2>2. ASSUME AtServer PROVE AtServer'
    <3>1. best # Nothing => Len(best.path) \in Nat /\ Len(best.path) < Len(Seen.path)
      <4>1. ASSUME best # Nothing PROVE best.path \in Seq(STRING)
        BY <1>1, <4>1, SeenSound DEF LocationsInv, SearchSound
      <4> QED
        BY <1>1, <4>1 DEF Better
    <3>2. \A k \in 1..it' - 1 : k \in 1..it - 1 \/ k = it
      BY <1>1, <1>3
    <3>3. ASSUME NEW k \in 1..it - 1
          PROVE  ~EndFits(at.under[k]) /\ (PrefixFits(at.under[k]) => Len(at.under[k].path) <= Len(Seen.path))
      <4>1. k \in DOMAIN at.under
        <5>1. ServerSound(open[1]) /\ at = open[1]
          BY <2>2 DEF LocationsInv, Built, StackSound, AtServer
        <5>2. DOMAIN at.under = 1..Len(at.under) /\ Len(at.under) \in Nat
          BY <5>1, Appended DEF ServerSound
        <5> QED
          BY <1>3, <5>2
      <4>2. Len(at.under[k].path) \in Nat /\ Len(Seen.path) \in Nat
        BY <1>1, <1>4, <4>1, SeenSound DEF LocationsInv
      <4>3. /\ ~EndFits(at.under[k])
            /\ PrefixFits(at.under[k]) =>
                  best # Nothing /\ Len(at.under[k].path) <= Len(best.path)
        BY <2>2 DEF AtServer
      <4>4. ASSUME PrefixFits(at.under[k]) PROVE Len(at.under[k].path) <= Len(Seen.path)
        BY <3>1, <4>2, <4>3, <4>4
      <4> QED
        BY <4>3, <4>4
    <3>4. ~EndFits(at.under[it]) /\ Len(at.under[it].path) <= Len(Seen.path)
      BY <1>4 DEF EndFits, Seen
    <3> QED
      BY <1>1, <1>4, <2>2, <3>2, <3>3, <3>4 DEF AtServer, EndFits, PrefixFits
  <2>3. Within => Within'
    BY <1>1 DEF Within, PrefixFits, EndFits
  <2> QED
    BY <1>1, <1>3, <2>1, <2>2, <2>3 DEF LocationsInv, SearchSound
<1> QED
  BY <1>1, <1>2, <1>5
  DEF LocationsInv, AnswerIsBest, AnswerMatches, ExtensionsFirst, LongestOtherwise

\* The places of what is in the location that is searched.
LEMMA Places ==
  ASSUME LocationsInv, pc = "search"
  PROVE  DOMAIN at.under = 1..Len(at.under) /\ Len(at.under) \in Nat /\ it \in Nat \ {0}
<1>1. IsSeq(at.under)
  <2>1. CASE AtServer
    BY <2>1 DEF AtServer, LocationsInv, Built, StackSound, ServerSound
  <2>2. CASE Within
    BY <2>2, DeepFields DEF Within
  <2> QED
    BY <2>1, <2>2 DEF LocationsInv, SearchSound
<1> QED
  BY <1>1, Appended DEF LocationsInv, SearchSound

\* A location that is searched is one of the longest that the path begins with.
LEMMA WithinLongest ==
  ASSUME LocationsInv, Within
  PROVE  /\ PrefixFits(at) /\ at.path # <<>>
         /\ \A l \in OfServer : ~EndFits(l)
         /\ \A l \in OfServer : PrefixFits(l) => Len(l.path) <= Len(at.path)
<1>1. PICK n \in Nat :
        /\ Deep(at, n) /\ PrefixFits(at)
        /\ \A k \in DOMAIN open[1].under :
              /\ ~EndFits(open[1].under[k])
              /\ PrefixFits(open[1].under[k]) => Len(open[1].under[k].path) <= n
  BY DEF Within
<1>2. at.path # <<>> /\ Len(at.path) \in Nat /\ Len(at.path) >= n
  BY <1>1, DeepFields DEF PrefixFits
<1>3. ASSUME NEW k \in DOMAIN open[1].under
      PROVE  Len(open[1].under[k].path) \in Nat
  BY DEF LocationsInv, Built, StackSound, ServerSound
<1> QED
  BY <1>1, <1>2, <1>3 DEF OfServer

\* What ends the search of the server is an extension, unless the path ends in a
\* regular location of it.
LEMMA EndIsExtension ==
  ASSUME LocationsInv, MatchEnd, AtServer, ~EndsInRegular
  PROVE  Seen \in OfServer /\ EndFits(Seen)
<1>1. /\ pc = "search" /\ it <= Len(at.under) /\ ~Better /\ IsSuffixOf(Seen.path, uri)
      /\ at = open[1]
  BY DEF MatchEnd, Searching, AtServer
<1>2. it \in DOMAIN at.under /\ it \in Nat
  BY <1>1, Places
<1>3. Seen \in OfServer /\ Seen.path \in Seq(STRING) /\ Seen.is_prefix \in BOOLEAN
  BY <1>1, <1>2, SeenSound DEF OfServer, Seen, LocationsInv
<1>4. SUFFICES ASSUME Seen.is_prefix PROVE FALSE
  BY <1>1, <1>3 DEF EndFits
<1>5. Seen.path = uri
  BY <1>1, <1>3, <1>4 DEF EndsInRegular
<1>6. IsPrefixOf(Seen.path, uri)
  BY <1>3, <1>5 DEF IsPrefixOf
<1>7. best # Nothing /\ ~(Len(Seen.path) > Len(best.path))
  BY <1>1, <1>4, <1>6 DEF Better
<1>8. PICK k \in 1..it - 1 : k \in DOMAIN at.under /\ best = at.under[k] /\ PrefixFits(best)
  BY <1>1, <1>7 DEF LocationsInv, SearchSound
<1>9. best.path \in Seq(STRING)
  BY <1>1, <1>8, SeenSound DEF LocationsInv
<1>10. best.path = Seen.path
  <2>1. Len(best.path) <= Len(uri) /\ SubSeq(uri, 1, Len(best.path)) = best.path
    BY <1>8 DEF PrefixFits, IsPrefixOf
  <2>2. Len(best.path) = Len(uri) /\ uri \in Seq(STRING)
    BY <1>3, <1>5, <1>7, <1>9, <2>1
  <2>3. SubSeq(uri, 1, Len(uri)) = uri
    BY <2>2
  <2> QED
    BY <1>5, <2>1, <2>2, <2>3
<1>11. k = it
  BY <1>1, <1>2, <1>8, <1>10 DEF LocationsInv, Built, Distinct, Seen
<1> QED
  BY <1>2, <1>8, <1>11

LEMMA EndSound ==
  ASSUME LocationsInv, MatchEnd
  PROVE  LocationsInv'
<1>1. /\ UNCHANGED <<open, uri, at>> /\ pc = "search" /\ pc' = "answered" /\ result' = Seen
      /\ IsSuffixOf(Seen.path, uri) /\ it <= Len(at.under)
  BY DEF MatchEnd, Searching, building
<1>2. Built'
  BY <1>1 DEF LocationsInv, Built, StackSound, HasRoot, Top
<1>3. AnswerMatches'
  BY <1>1 DEF AnswerMatches, Matches
<1>4. /\ EndsInRegular' = EndsInRegular /\ OfServer' = OfServer
      /\ \A l : EndFits(l)' = EndFits(l) /\ PrefixFits(l)' = PrefixFits(l)
  BY <1>1 DEF EndsInRegular, OfServer, EndFits, PrefixFits
<1>5. CASE AtServer
  <2>1. ~EndsInRegular => Seen \in OfServer /\ EndFits(Seen)
    BY <1>5, EndIsExtension
  <2>2. result' = Seen /\ EndFits(result)' = EndFits(Seen)
    BY <1>1 DEF EndFits
  <2>3. ExtensionsFirst'
    BY <1>4, <2>1, <2>2 DEF ExtensionsFirst
  <2>4. LongestOtherwise'
    BY <1>4, <2>1 DEF LongestOtherwise
  <2> QED
    BY <1>1, <1>2, <1>3, <2>3, <2>4 DEF LocationsInv, SearchSound, AnswerIsBest
<1>6. CASE Within
  <2>1. /\ PrefixFits(at) /\ \A l \in OfServer : ~EndFits(l)
        /\ \A l \in OfServer : PrefixFits(l) => Len(l.path) <= Len(at.path)
    BY <1>6, WithinLongest
  <2>2. ExtensionsFirst'
    BY <1>4, <2>1 DEF ExtensionsFirst
  <2>3. it \in DOMAIN at.under
    BY <1>1, Places
  <2>4. LongestOtherwise'
    BY <1>1, <1>4, <2>1, <2>3 DEF LongestOtherwise, Seen, PrefixFits
  <2> QED
    BY <1>1, <1>2, <1>3, <2>2, <2>4 DEF LocationsInv, SearchSound, AnswerIsBest
<1> QED
  BY <1>1, <1>5, <1>6 DEF LocationsInv, SearchSound

LEMMA SkipSound ==
  ASSUME LocationsInv, Skip
  PROVE  LocationsInv'
<1>1. /\ UNCHANGED <<open, uri, at, pc, best>> /\ pc = "search" /\ it' = it + 1
      /\ it <= Len(at.under) /\ ~Better /\ ~IsSuffixOf(Seen.path, uri)
  BY DEF Skip, Searching, building
<1>2. Built'
  BY <1>1 DEF LocationsInv, Built, StackSound, HasRoot, Top
<1>3. it \in DOMAIN at.under /\ it \in Nat \ {0}
  BY <1>1, Places
<1>4. Len(Seen.path) \in Nat
  BY <1>1, <1>3, SeenSound DEF LocationsInv, Seen
<1>5. ASSUME PrefixFits(Seen) PROVE best # Nothing /\ Len(Seen.path) <= Len(best.path)
  <2>1. best # Nothing /\ ~(Len(Seen.path) > Len(best.path))
    BY <1>1, <1>5 DEF Better, PrefixFits
  <2>2. best.path \in Seq(STRING)
    BY <1>1, <2>1, SeenSound DEF LocationsInv, SearchSound
  <2> QED
    BY <1>4, <2>1, <2>2
<1>6. SearchSound'
  <2>1. \A k \in 1..it' - 1 : k \in 1..it - 1 \/ k = it
    BY <1>1, <1>3
  <2>2. ASSUME AtServer PROVE AtServer'
    <3>1. ~EndFits(at.under[it])
      BY <1>1 DEF EndFits, Seen
    <3> QED
      BY <1>1, <1>5, <2>1, <2>2, <3>1 DEF AtServer, EndFits, PrefixFits, Seen
  <2>3. Within => Within'
    BY <1>1 DEF Within, PrefixFits, EndFits
  <2>4. best' = Nothing \/ \E k \in 1..it' - 1 :
              k \in DOMAIN at'.under /\ best' = at'.under[k] /\ PrefixFits(best)'
    <3>1. 1..it - 1 \subseteq 1..it' - 1
      BY <1>1, <1>3
    <3> QED
      BY <1>1, <3>1 DEF LocationsInv, SearchSound, PrefixFits
  <2> QED
    BY <1>1, <1>3, <2>2, <2>3, <2>4 DEF LocationsInv, SearchSound
<1> QED
  BY <1>1, <1>2, <1>6
  DEF LocationsInv, AnswerIsBest, AnswerMatches, ExtensionsFirst, LongestOtherwise

\* The search goes on in a location that fits.
LEMMA DescendSound ==
  ASSUME LocationsInv, Descend
  PROVE  LocationsInv'
<1>1. /\ UNCHANGED <<open, uri, pc>> /\ pc = "search" /\ it > Len(at.under) /\ best # Nothing
      /\ at' = best /\ it' = 1 /\ best' = Nothing
  BY DEF Descend, building
<1>2. Built'
  BY <1>1 DEF LocationsInv, Built, StackSound, HasRoot, Top
<1>3. PICK j \in DOMAIN at.under : best = at.under[j] /\ PrefixFits(best)
  BY <1>1 DEF LocationsInv, SearchSound
<1>4. \A k \in DOMAIN at.under : k \in 1..it - 1
  BY <1>1, Places
<1>5. Within'
  <2>1. CASE AtServer
    <3>1. ServerSound(open[1]) /\ at = open[1]
      BY <2>1 DEF LocationsInv, Built, StackSound, AtServer
    <3> DEFINE n == Len(best.path)
    <3>2. Deep(best, n) /\ n \in Nat
      BY <1>3, <3>1 DEF ServerSound
    <3>3. ASSUME NEW k \in DOMAIN open[1].under
          PROVE  /\ ~EndFits(open[1].under[k])
                 /\ PrefixFits(open[1].under[k]) => Len(open[1].under[k].path) <= n
      BY <1>4, <2>1, <3>1 DEF AtServer
    <3> HIDE DEF n
    <3> QED
      BY <1>1, <1>3, <3>2, <3>3 DEF Within, PrefixFits, EndFits
  <2>2. CASE Within
    <3>1. PICK n \in Nat :
            /\ Deep(at, n)
            /\ \A k \in DOMAIN open[1].under :
                  /\ ~EndFits(open[1].under[k])
                  /\ PrefixFits(open[1].under[k]) => Len(open[1].under[k].path) <= n
      BY <2>2 DEF Within
    <3>2. Deep(best, n)
      BY <1>3, <3>1, DeepUnder
    <3> QED
      BY <1>1, <1>3, <3>1, <3>2 DEF Within, PrefixFits, EndFits
  <2> QED
    BY <1>1, <2>1, <2>2 DEF LocationsInv, SearchSound
<1>6. SearchSound'
  BY <1>1, <1>5 DEF SearchSound
<1> QED
  BY <1>1, <1>2, <1>6
  DEF LocationsInv, AnswerIsBest, AnswerMatches, ExtensionsFirst, LongestOtherwise

LEMMA SettleSound ==
  ASSUME LocationsInv, Settle
  PROVE  LocationsInv'
<1>1. /\ UNCHANGED <<open, uri, at>> /\ pc = "search" /\ pc' = "answered"
      /\ it > Len(at.under) /\ best = Nothing
      /\ result' = IF at = open[1] THEN at.under[1] ELSE at
  BY DEF Settle, building
<1>2. Built'
  BY <1>1 DEF LocationsInv, Built, StackSound, HasRoot, Top
<1>3. \A k \in DOMAIN at.under : k \in 1..it - 1
  BY <1>1, Places
<1>4. AnswerIsBest'
  <2>0. /\ OfServer' = OfServer /\ RootIsRegular' = RootIsRegular
        /\ \A l : EndFits(l)' = EndFits(l) /\ PrefixFits(l)' = PrefixFits(l)
    BY <1>1 DEF RootIsRegular, OfServer, EndFits, PrefixFits
  <2>1. CASE AtServer
    <3>1. at = open[1] /\ \A k \in DOMAIN at.under : ~EndFits(at.under[k]) /\ ~PrefixFits(at.under[k])
      BY <1>1, <1>3, <2>1 DEF AtServer
    <3>2. PICK k \in DOMAIN at.under : at.under[k].path = Root
      BY <1>1, <3>1 DEF LocationsInv, Built, HasRoot, Top
    <3>3. ~(IsPrefixOf(Root, uri) /\ RootIsRegular)
      BY <3>1, <3>2 DEF PrefixFits, RootIsRegular, OfServer
    <3>4. \A l \in OfServer : ~EndFits(l) /\ ~PrefixFits(l)
      BY <3>1 DEF OfServer
    <3> QED
      BY <1>1, <2>0, <3>3, <3>4
      DEF AnswerIsBest, AnswerMatches, ExtensionsFirst, LongestOtherwise
  <2>2. CASE Within
    <3>1. /\ PrefixFits(at) /\ at.path # <<>>
          /\ \A l \in OfServer : ~EndFits(l)
          /\ \A l \in OfServer : PrefixFits(l) => Len(l.path) <= Len(at.path)
      BY <2>2, WithinLongest
    <3>2. at # open[1]
      <4>1. open[1].path = <<>>
        BY DEF LocationsInv, Built, StackSound, ServerSound
      <4> QED
        BY <3>1, <4>1
    <3>3. result' = at /\ at' = at /\ PrefixFits(at)'
      BY <1>1, <2>0, <3>1, <3>2 DEF PrefixFits
    <3> QED
      BY <1>1, <2>0, <3>1, <3>3
      DEF AnswerIsBest, AnswerMatches, ExtensionsFirst, LongestOtherwise, Matches
  <2> QED
    BY <1>1, <2>1, <2>2 DEF LocationsInv, SearchSound
<1> QED
  BY <1>1, <1>2, <1>4 DEF LocationsInv, SearchSound

LEMMA LocationsInvKept == LocationsSpec => []LocationsInv
<1>1. LocationsInit => LocationsInv
  BY InitBuilt
  DEF LocationsInit, LocationsInv, SearchSound, AnswerIsBest, AnswerMatches, ExtensionsFirst,
      LongestOtherwise
<1>2. LocationsInv /\ [LocationsNext]_locationVars => LocationsInv'
  <2> SUFFICES ASSUME LocationsInv, [LocationsNext]_locationVars PROVE LocationsInv'
    OBVIOUS
  <2>1. CASE OpenLocation \/ CloseLocation \/ RefuseLocation \/ CloseServer
    <3>1. Built'
      <4>1. RefuseLocation => Built'
        BY DEF RefuseLocation, building, LocationsInv, Built, StackSound
      <4> QED
        BY <2>1, <4>1, OpenBuilt, CloseBuilt, ServerBuilt DEF LocationsInv
    <3>2. pc' \in {"building", "refused", "ready"}
      BY <2>1 DEF OpenLocation, CloseLocation, RefuseLocation, CloseServer
    <3> QED
      BY <3>1, <3>2
      DEF LocationsInv, SearchSound, AnswerIsBest, AnswerMatches, ExtensionsFirst, LongestOtherwise
  <2>2. CASE UNCHANGED locationVars
    BY <2>2
    DEF locationVars, building, search, LocationsInv, Built, StackSound, HasRoot, Top, SearchSound,
        AtServer, Within, EndFits, PrefixFits, AnswerIsBest, AnswerMatches, ExtensionsFirst,
        LongestOtherwise, Matches, RootIsRegular, EndsInRegular, OfServer
  <2> QED
    BY <2>1, <2>2, AskSound, KeepSound, EndSound, SkipSound, DescendSound, SettleSound
    DEF LocationsNext
<1> QED
  BY <1>1, <1>2, PTL DEF LocationsSpec

\* For every tree of locations, of any depth and in any order, and every path that
\* does not end in a regular location of the server: an extension of the server's
\* serves it when one fits, and otherwise the search ends in the longest location
\* that the path begins with, or in a longer one within it. Whatever the path ends
\* in, what serves it is a location that it begins or ends with.
THEOREM AnswerHolds == LocationsSpec => []AnswerIsBest
<1>1. LocationsInv => AnswerIsBest
  BY DEF LocationsInv
<1> QED
  BY <1>1, LocationsInvKept, PTL

\* For every tree of locations the search goes on to a longer path, unless the
\* location began as a copy of others.
THEOREM SearchNarrows == LocationsSpec => Narrows
<1>1. ASSUME LocationsInv, [LocationsNext]_locationVars,
             at' # at, pc = "search", at.copied = 0
      PROVE  Len(at'.path) > Len(at.path)
  <2>1. Descend
    BY <1>1
    DEF LocationsNext, OpenLocation, CloseLocation, RefuseLocation, CloseServer, Ask, Keep,
        MatchEnd, Skip, Settle, Searching, locationVars, search
  <2>2. PICK j \in DOMAIN at.under : at' = at.under[j] /\ PrefixFits(at.under[j])
    BY <1>1, <2>1 DEF Descend, LocationsInv, SearchSound
  <2>3. j > 0
    BY <1>1, <2>2, Places
  <2> QED
    BY <1>1, <2>2, <2>3, SeenSound DEF LocationsInv, PrefixFits
<1> QED
  BY <1>1, LocationsInvKept, PTL DEF LocationsSpec, Narrows

================================================================================
