------------------------------ MODULE MCStore ------------------------------
(***************************************************************************)
(* Instances of Store: a keyed table with a sequence and a second unique   *)
(* index, a set table whose rows collide in the hash index, an event table *)
(* beside a keyed one, and concurrent readers; and, in behaviours of its   *)
(* own, one B-tree index of a table that grows past a page.                *)
(***************************************************************************)
EXTENDS Store

CONSTANTS btreePageMaxEntries

VARIABLES pages, mappings, mapped, indexOnly

MCMappings ==
    {<<<<k, 1>>, k>> : k \in 1 .. 5} \cup {<<<<k, 2>>, 10 - k>> : k \in 2 .. 4} \cup {<<<<1, 2>>, 9>>, <<<<2, 1>>, 10>>}
MCEndpointKeys == {<<2>>, <<3, 2>>, <<6>>}

index == INSTANCE BTreeIndex WITH Mappings <- MCMappings, EndpointKeys <- MCEndpointKeys

Index(cols, unique, primary) == [cols |-> cols, unique |-> unique, primary |-> primary]

Keyed ==
    [schemas |-> [t |-> [width |-> 2, nullable |-> {2}, auto |-> 1, max |-> 4, event |-> FALSE,
                         indexes |-> <<Index(<<1>>, TRUE, TRUE), Index(<<2>>, TRUE, FALSE)>>]],
     rows |-> [t |-> {<<0, 1>>, <<0, 2>>, <<2, 1>>, <<2, NULL>>, <<NULL, 1>>}], txs |-> 2, readers |-> {}]

SmallSequence ==
    [schemas |-> [t |-> [width |-> 2, nullable |-> {}, auto |-> 2, max |-> 2, event |-> FALSE,
                         indexes |-> <<Index(<<2>>, TRUE, FALSE)>>]],
     rows |-> [t |-> {<<1, 0>>, <<1, 2>>}], txs |-> 2, readers |-> {}]

SetTable ==
    [schemas |-> [t |-> [width |-> 2, nullable |-> {}, auto |-> 0, max |-> 0, event |-> FALSE,
                         indexes |-> <<Index(<<2>>, FALSE, FALSE)>>]],
     rows |-> [t |-> {<<1, 1>>, <<1, 2>>, <<2, 1>>}], txs |-> 2, readers |-> {}]

Events ==
    [schemas |-> [e |-> [width |-> 1, nullable |-> {}, auto |-> 0, max |-> 0, event |-> TRUE,
                         indexes |-> <<Index(<<1>>, TRUE, TRUE)>>],
                  t |-> [width |-> 1, nullable |-> {}, auto |-> 1, max |-> 4, event |-> FALSE,
                         indexes |-> <<Index(<<1>>, TRUE, TRUE)>>]],
     rows |-> [e |-> {<<1>>}, t |-> {<<0>>, <<1>>}], txs |-> 2, readers |-> {}]

Reading ==
    [schemas |-> [t |-> [width |-> 1, nullable |-> {}, auto |-> 0, max |-> 0, event |-> FALSE,
                         indexes |-> <<Index(<<1>>, TRUE, TRUE)>>]],
     rows |-> [t |-> {<<1>>}], txs |-> 2, readers |-> {"r1", "r2"}]

Idle == [schemas |-> <<>>, rows |-> <<>>, txs |-> 0, readers |-> {}]

MCScenarios == {Keyed, SmallSequence, SetTable, Events, Reading, Idle}

MCInit ==
    /\ index!Init
    /\ indexOnly \in BOOLEAN
    /\ Init
    /\ indexOnly <=> scenario = Idle

MCNext ==
    \/ ~indexOnly /\ Next /\ UNCHANGED <<pages, mappings, mapped, indexOnly>>
    \/ indexOnly /\ index!Next /\ UNCHANGED <<vars, indexOnly>>

MCSpec == MCInit /\ [][MCNext]_<<vars, pages, mappings, mapped, indexOnly>>

\* Every index of every table holds exactly its rows, in memory as in a
\* transaction (Store), and lookups and ranges of the paged index yield exactly
\* the rows mapped to the key, in order (BTreeIndex).
IndexesAgree == IndexesMatchRows /\ (indexOnly => index!LookupsAgree)
=============================================================================
