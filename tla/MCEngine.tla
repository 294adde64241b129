------------------------------ MODULE MCEngine ------------------------------
(* Values for the constants of Engine in TLC's runs. *)
EXTENDS Engine

CONSTANTS d1, d2

Plain == [dir |-> d1, link |-> "No", node |-> "File", size |-> 0, deny |-> FALSE,
          want |-> 0]

(* A file of two chunks with one prefetched, a fully prefetched one under the
   other parent, a directory behind a link, missing files, a link out of the
   root, a link where links are denied. *)
FileRequests ==
    {[Plain EXCEPT !.size = 3, !.want = 2],
     [Plain EXCEPT !.dir = d2, !.size = 2, !.want = 2],
     [Plain EXCEPT !.node = "Dir", !.link = "In"],
     [Plain EXCEPT !.node = "Missing"], [Plain EXCEPT !.node = "Missing", !.link = "In"],
     [Plain EXCEPT !.link = "Out"], [Plain EXCEPT !.link = "In", !.deny = TRUE]}

(* The second directory may lead out of the root from the start. *)
FileCanons == {[d \in Dirs |-> "In"], [d \in Dirs |-> IF d = d1 THEN "In" ELSE "Out"]}
=============================================================================
