--------------------------- MODULE MCConditional ----------------------------
(* Values for the constants of Conditional in TLC's runs: versions before the
   epoch, two of them of one size, within one second of another, in different
   seconds, and one that is too short for the range. *)
EXTENDS Conditional

SomeVersions ==
    [size : {3}, time : {0 - 3, 0, 1, 2, 5}]
    \cup {[size |-> 2, time |-> 1], [size |-> 4, time |-> 0 - 3]}

-----------------------------------------------------------------------------
(* Statements of the repository's documentation and comments. *)

\* make_etag: times before 1970 are taken as they are, and the tag, always a strong
\* validator, is a fingerprint of the version.
TagIsFingerprint ==
    (exchange.headers.if_none_match # Absent /\ exchange.status = 304) =>
        exchange.copy.first = exchange.version

\* evaluate_conditionals: a conditional header that cannot be parsed is ignored.
UnparseableIgnored == exchange.headers.if_match = Malformed => exchange.status # 412
=============================================================================
