---------------------------- MODULE MCConfiguration ----------------------------
(* What a configuration comes to, for TLC: what its directives set in nested   *)
(* blocks, which server an address and a name reach, and which location of a   *)
(* server a path reaches. Each part starts from the file that was read and     *)
(* touches nothing of the others, so that one of them runs at a time.          *)
EXTENDS VirtualHosts, Locations, Blocks

-----------------------------------------------------------------------------
(* A directive of every kind the code treats alike.                           *)

MCWords == {"root", "client_header_timeout", "default_type", "index", "autoindex",
            "error_page", "upload_directory", "output_buffer", "types",
            "return", "cgi_param"}

-----------------------------------------------------------------------------
(* Server blocks: two addresses, two names, two backlogs.                     *)

CONSTANTS A, B, n1, n2

Listen(a, b, d) == [addr |-> a, backlog |-> b, isDefault |-> d]

\* One address, both, or one of them twice.
MCListens ==
    {<<Listen(a, b, d)>> : a \in {A, B}, b \in {5, 6}, d \in BOOLEAN}
    \cup {<<Listen(A, 5, d), Listen(B, 5, e)>> : d, e \in BOOLEAN}
    \cup {<<Listen(A, b, d), Listen(A, c, e)>> : b, c \in {5, 6}, d, e \in BOOLEAN}

MCServerBlocks ==
    [names : {<<Unnamed>>, <<n1>>, <<n2>>, <<n1, n2>>, <<n1, n1>>}, listens : MCListens]

-----------------------------------------------------------------------------
(* Paths, in parts that no other part is the end or beginning of.             *)

MCRoot == <<"/">>
MCParams == {<<"/">>, <<"/", "a">>, <<"/", "b">>, <<"/", "a", "/", "b">>, <<".x">>}
MCUris == {<<"/">>, <<"/", "a">>, <<"/", "b", "/", "a">>, <<"/", "a", "/", "b", "/", "c">>,
           <<"/", "a", "/", "c", ".x">>, <<"/", "a", "/", "a", "/", "b", "/", "c">>,
           <<"/", "b", "/", "a", "/", "b">>}

-----------------------------------------------------------------------------

ConfigurationInit == BlocksInit /\ HostsInit /\ LocationsInit

ConfigurationNext ==
    \/ HostsInit /\ LocationsInit /\ BlocksNext /\ UNCHANGED <<vars, locationVars>>
    \/ BlocksInit /\ LocationsInit /\ HostsNext /\ UNCHANGED <<blocksVars, locationVars>>
    \/ BlocksInit /\ HostsInit /\ LocationsNext /\ UNCHANGED <<blocksVars, vars>>

ConfigurationSpec ==
    ConfigurationInit /\ [][ConfigurationNext]_<<blocksVars, vars, locationVars>>

=============================================================================
