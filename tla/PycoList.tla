------------------------------ MODULE PycoList ------------------------------
(***************************************************************************)
(* The linked lists in which the C extension pycoclib keeps its named      *)
(* objects: a global head and a global tail, Add at the tail, Find and     *)
(* Delete from the head.  Two forms of the same code are modelled:         *)
(*                                                                         *)
(*   list = "socket"  socketBoxAdd, Find and Delete; socketClose looks the *)
(*                    name up before it deletes it                         *)
(*   list = "device"  deviceAdd, Find and Delete; the lists of links,      *)
(*                    multicast requests, key-value vectors, TFTP sessions,*)
(*                    record trees and notes are the same code again       *)
(*                                                                         *)
(* Nodes are the chunks malloc can return.  A freed chunk keeps what was   *)
(* written to it and malloc may return it at any time.  A chunk handed to  *)
(* other code of the process is outside the model.                         *)
(***************************************************************************)
EXTENDS Naturals, FiniteSets, Sequences

CONSTANTS Nodes, Names, NULL,
          Lists           \* the forms of the list to look at

\* Nodes is finite and without NULL, there is a name, and Lists is a set of
\* "socket" and "device".

VARIABLES list,         \* the form of the list
          head, tail,
          next, name,   \* the fields of every chunk
          live,         \* chunks allocated and not freed
          held,         \* names whose Add has returned, and not been deleted
          failed,       \* malloc has returned NULL
          faulted       \* a NULL pointer was dereferenced

vars == <<list, head, tail, next, name, live, held, failed, faulted>>

Init == /\ list \in Lists
        /\ head = NULL /\ tail = NULL
        /\ next = [k \in Nodes |-> NULL]
        /\ name = [k \in Nodes |-> CHOOSE n \in Names : TRUE]
        /\ live = {} /\ held = {}
        /\ failed = FALSE /\ faulted = FALSE

\* The chunk i hops behind the head.
At[i \in 0..Cardinality(Nodes)] ==
  IF i = 0 THEN head
  ELSE IF At[i - 1] = NULL THEN NULL ELSE next[At[i - 1]]
Hops == 0..(Cardinality(Nodes) - 1)
Linked == {At[i] : i \in Hops} \ {NULL}

\* The hop at which the search for a name stops; none if it reaches the end.
Matches(n) == {i \in Hops : At[i] # NULL /\ name[At[i]] = n}
Found(n) == Matches(n) # {}
First(n) == CHOOSE i \in Matches(n) : \A j \in Matches(n) : i <= j

-----------------------------------------------------------------------------
(* Add.  Neither createDevice nor socketOpen and socketAccept look at what *)
(* it returns.                                                             *)

AddFirst(n, k) == /\ head = NULL
                  /\ head' = k /\ tail' = k
                  /\ next' = [next EXCEPT ![k] = NULL]
AddLast(n, k) == /\ head # NULL /\ tail # NULL
                 /\ next' = [next EXCEPT ![tail] = k, ![k] = NULL]
                 /\ tail' = k
                 /\ UNCHANGED head
\* (mutant: the new chunk goes in front of the last one)
AddBoth_Before(n, k) == AddFirst(n, k) \/ ( /\ head # NULL /\ tail # NULL
                                            /\ head' = k
                                            /\ next' = [next EXCEPT ![k] = head]
                                            /\ UNCHANGED tail )
AddBoth(n, k) == AddFirst(n, k) \/ AddLast(n, k)

Add(n) == /\ ~faulted /\ n \notin held
          /\ \E k \in Nodes \ live :
               /\ AddBoth(n, k)
               /\ name' = [name EXCEPT ![k] = n]
               /\ live' = live \cup {k}
          /\ held' = held \cup {n}
          /\ UNCHANGED <<list, failed, faulted>>

\* malloc returns NULL: behind a head, it is stored all the same.
AddFails(n) == /\ ~faulted /\ n \notin held
               /\ head # NULL => tail # NULL
               /\ IF head = NULL THEN UNCHANGED <<tail, next>>
                                 ELSE tail' = NULL /\ next' = [next EXCEPT ![tail] = NULL]
               /\ held' = held \cup {n}
               /\ failed' = TRUE
               /\ UNCHANGED <<list, head, name, live, faulted>>

AddFaults(n) == /\ ~faulted /\ n \notin held
                /\ head # NULL /\ tail = NULL
                /\ faulted' = TRUE
                /\ UNCHANGED <<list, head, tail, next, name, live, held, failed>>

-----------------------------------------------------------------------------
(* Delete *)

DeleteHead(n) == /\ Found(n) /\ First(n) = 0
                 /\ head' = next[head]
                 /\ live' = live \ {head}
                 /\ UNCHANGED <<tail, next>>

\* (mutant: the tail stays on the chunk that is freed, as in deviceDelete)
DeleteInner_KeepsTail(n) ==
  /\ Found(n) /\ First(n) > 0
  /\ LET current == At[First(n) - 1]
         tmp == At[First(n)]
     IN /\ next' = [next EXCEPT ![current] = next[tmp]]
        /\ live' = live \ {tmp}
  /\ UNCHANGED <<head, tail>>
\* (mutant: the tail is moved behind the chunk that is freed)
DeleteInner_TailBehind(n) ==
  /\ Found(n) /\ First(n) > 0
  /\ LET current == At[First(n) - 1]
         tmp == At[First(n)]
     IN /\ tail' = IF tail = tmp THEN next[tmp] ELSE tail
        /\ next' = [next EXCEPT ![current] = next[tmp]]
        /\ live' = live \ {tmp}
  /\ UNCHANGED head
\* (mutant: the chunk is freed and not unlinked)
DeleteInner_KeepsLink(n) ==
  /\ Found(n) /\ First(n) > 0
  /\ live' = live \ {At[First(n)]}
  /\ UNCHANGED <<head, tail, next>>
DeleteInner(n) ==
  /\ Found(n) /\ First(n) > 0
  /\ LET current == At[First(n) - 1]
         tmp == At[First(n)]
     IN /\ tail' = IF list = "socket" /\ tail = tmp THEN current ELSE tail
        /\ next' = [next EXCEPT ![current] = next[tmp]]
        /\ live' = live \ {tmp}
  /\ UNCHANGED head

\* The name is not in the list: socketClose stops there; a device is looked
\* for from the head on, whether there is one or not.
DeleteMisses(n) == /\ ~Found(n)
                   /\ head = NULL => list = "socket"
                   /\ UNCHANGED <<head, tail, next, live>>

Delete(n) == /\ ~faulted /\ n \in held
             /\ DeleteHead(n) \/ DeleteInner(n) \/ DeleteMisses(n)
             /\ held' = held \ {n}
             /\ UNCHANGED <<list, name, failed, faulted>>

DeleteFaults(n) == /\ ~faulted /\ n \in held
                   /\ list = "device" /\ head = NULL
                   /\ faulted' = TRUE
                   /\ UNCHANGED <<list, head, tail, next, name, live, held, failed>>

Next == \E n \in Names : \/ Add(n) \/ AddFails(n) \/ AddFaults(n)
                         \/ Delete(n) \/ DeleteFaults(n)

Spec == Init /\ [][Next]_vars

-----------------------------------------------------------------------------
(* Properties *)

\* The pointers point at chunks or are NULL; as long as malloc does not fail,
\* the tail is NULL only while nothing has been allocated.
TypeOK == /\ head \in Nodes \cup {NULL} /\ tail \in Nodes \cup {NULL}
          /\ next \in [Nodes -> Nodes \cup {NULL}]
          /\ name \in [Nodes -> Names]
          /\ live \subseteq Nodes /\ held \subseteq Names
          /\ list \in Lists /\ failed \in BOOLEAN /\ faulted \in BOOLEAN
          /\ tail = NULL /\ ~failed => live = {}

\* No search from the head reads a freed chunk, and it ends: whatever was
\* deleted, whatever malloc has reused, even when it has failed.
SearchIsSafe == Linked \subseteq live /\ At[Cardinality(Nodes)] = NULL

\* What was added and not deleted is found: a socket that was opened can be
\* used, a device that create() made can be given an address.
AllFound == ~failed => \A n \in held : Found(n)
SocketsAreFound == list = "socket" => AllFound
DevicesAreFound == list = "device" => AllFound

\* In the list of sockets no chunk becomes unreachable, and no call
\* dereferences a NULL pointer, as long as malloc does not fail.
NothingLeaks == list = "socket" /\ ~failed => live = Linked /\ ~faulted

\* As long as malloc does not fail, every step of the list of sockets is a
\* step of the service: what is read from the head on are the names held, in
\* the order in which they were added.
Listed == [i \in 1..Cardinality(Linked) |-> name[At[i - 1]]]
Service == INSTANCE ListService WITH entries <- Listed
ImplementsList ==
  Service!Init /\ [][list = "socket" /\ ~failed' => Service!Next]_Listed
=============================================================================
