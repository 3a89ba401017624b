---------------------------- MODULE ListService ----------------------------
(***************************************************************************)
(* What pycoclib expects of the lists of pycoutils.c: a list of named      *)
(* entries, in the order they were added; what was added is in it until it *)
(* is deleted.  PycoList is the code.                                      *)
(***************************************************************************)
EXTENDS Sequences, SequencesExt

CONSTANTS Names
VARIABLES entries   \* the names in the list, oldest first

Init == entries = <<>>
Add(n) == n \notin Range(entries) /\ entries' = Append(entries, n)
Delete(n) == \E i \in DOMAIN entries : entries[i] = n /\ entries' = RemoveAt(entries, i)
Next == \E n \in Names : Add(n) \/ Delete(n)
Spec == Init /\ [][Next]_entries
=============================================================================
