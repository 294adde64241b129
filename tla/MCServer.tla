------------------------------ MODULE MCServer ------------------------------
(* Values for the constants of Server in TLC's runs. *)
EXTENDS Server

CONSTANTS d1, s1, s2

Plain == [dir |-> d1, link |-> "No", node |-> "File", size |-> 2, deny |-> FALSE,
          want |-> 0]
Index == [Plain EXCEPT !.size = 1, !.want = 1]
Directory == [Plain EXCEPT !.node = "Dir", !.size = 0]
Missing == [Plain EXCEPT !.node = "Missing", !.size = 0]

(* A file of two chunks; a directory, then its prefetched index file. *)
ServerRequests == {Plain, Index, Directory, Missing}
ServerCandidates == {<<Plain>>, <<Directory, Index>>}
ServerCanons == {[d \in Dirs |-> "In"]}
=============================================================================
