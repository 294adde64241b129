------------------------------- MODULE MCBody -------------------------------
(* Values for the constants of Body in TLC's runs. *)
EXTENDS Body

CONSTANT Top   \* the largest number in a header

Blank == [kind |-> "Blank", first |-> 0, last |-> 0]
Bad == [kind |-> "Bad", first |-> 0, last |-> 0]

AllSpecs ==
    {Blank, Bad}
    \cup [kind : {"Suffix", "From"}, first : 0 .. Top, last : {0}]
    \cup [kind : {"FromTo"}, first : 0 .. Top, last : 0 .. Top]

AnyPolicy == [allow_multi : BOOLEAN, max_parts : {1, 2}]

-----------------------------------------------------------------------------
(* Statements of the repository's documentation and comments. *)

\* parse_one_spec: None for a spec that is syntactically invalid, Unsatisfiable for
\* one that is well-formed and names no available bytes, a range otherwise.
WellFormedSpecsCount == outcome # "None" => outcome = Expected
=============================================================================
