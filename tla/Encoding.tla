------------------------------ MODULE Encoding ------------------------------
(***************************************************************************)
(* Negotiation of precompressed variants and content types:                *)
(* crates/envoy-files-core/src/encoding.rs and mime.rs.                    *)
(*                                                                         *)
(* An Accept-Encoding header is the sequence of its items, each a coding   *)
(* ("*" for any, "" for none) and a q value in tenths; <<>> is no header   *)
(* or an empty one.                                                        *)
(***************************************************************************)
EXTENDS Integers, Sequences, FiniteSets

Encodings == {"br", "gzip", "zstd"}

\* A q value that does not parse as a number.
NotANumber == -1

Items == [coding : Encodings \cup {"*", "", "other"}, q : -1 .. 10]

\* parse_accept_encoding: one malformed item makes the header malformed.
Malformed(header) ==
    \E i \in 1 .. Len(header) : header[i].coding = "" \/ header[i].q = NotANumber

\* Mutant: a wildcard wins over the coding's own item.
acceptance_for_wildcard(header, coding) ==
    LET matches == {i \in 1 .. Len(header) : header[i].coding \in {coding, "*"}}
    IN IF matches = {} THEN 0
       ELSE CHOOSE q \in 0 .. 10 : /\ \E i \in matches : header[i].q = q
                                   /\ \A i \in matches : header[i].q <= q

\* acceptance_for: the first item for the coding decides, else the first "*";
\* 0 also stands for a coding that nothing addresses.
acceptance_for(header, coding) ==
    LET exact == {i \in 1 .. Len(header) : header[i].coding = coding}
        any == {i \in 1 .. Len(header) : header[i].coding = "*"}
        items == IF exact # {} THEN exact ELSE any
    IN IF items = {} THEN 0
       ELSE header[CHOOSE i \in items : \A j \in items : i <= j].q

\* The encodings of `order` that the client accepts, as their ranks.
Accepted(header, order) ==
    IF Malformed(header) THEN {}
    ELSE {i \in 1 .. Len(order) : acceptance_for(header, order[i]) > 0}

\* By the client's q, then by the server's order.
Before(header, order, i, j) ==
    LET p == acceptance_for(header, order[i])
        q == acceptance_for(header, order[j])
    IN p > q \/ (p = q /\ i < j)

\* The place of an accepted encoding after sorting.
Place(header, order, i) ==
    1 + Cardinality({j \in Accepted(header, order) : Before(header, order, j, i)})

\* negotiate_precompressed: the accepted encodings, sorted.
negotiate_precompressed(header, order) ==
    [n \in 1 .. Cardinality(Accepted(header, order)) |->
        order[CHOOSE i \in Accepted(header, order) : Place(header, order, i) = n]]

-----------------------------------------------------------------------------
\* content_type_for: the first override for the extension, else the table of
\* known types (external), else the default.  An extension is a name without
\* its dot; "" is none.
content_type_for(extension, overrides, known, default) ==
    LET keys == {i \in 1 .. Len(overrides) : overrides[i].extension = extension}
    IN  IF extension = "" THEN default
        ELSE IF keys # {}
        THEN overrides[CHOOSE i \in keys : \A j \in keys : i <= j].type
        ELSE IF extension \in DOMAIN known THEN known[extension] ELSE default
=============================================================================
