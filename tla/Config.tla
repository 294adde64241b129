------------------------------- MODULE Config -------------------------------
(***************************************************************************)
(* The filter's configuration: crates/envoy-files-filter/src/config.rs.    *)
(*                                                                         *)
(* A document maps keys to YAML values.  A value has a type and, for each  *)
(* type, what parse looks at: `flag` of a boolean, `n` of an integer,      *)
(* `text` of a string, `items` of a list or of a map from strings to       *)
(* strings, or the names of a path between its slashes, a leading one apart. *)
(***************************************************************************)
EXTENDS Integers, Sequences

KNOWN_KEYS ==
    {"root", "strip_prefix", "index_files", "directory", "redirect_trailing_slash",
     "follow_symlinks_within_root", "serve_dotfiles", "chunk_size", "max_inflight_reads",
     "blocking_threads", "force_blocking", "etag", "last_modified", "ranges",
     "precompressed", "mime_overrides", "default_content_type", "cache_control"}

BoolKeys ==
    {"redirect_trailing_slash", "follow_symlinks_within_root", "serve_dotfiles",
     "force_blocking", "etag", "last_modified"}

\* chunk_size: its range and default, in bytes.
MinChunk == 4096
MaxChunk == 4194304
DefaultChunk == 65536

\* Values; of type "Absent" where the document has none, "Null" for all others.
Absent == [type |-> "Absent", flag |-> FALSE, n |-> 0, text |-> "", items |-> <<>>]
YBool(b) == [Absent EXCEPT !.type = "Bool", !.flag = b]
YInt(n) == [Absent EXCEPT !.type = "Int", !.n = n]
YString(text) == [Absent EXCEPT !.type = "String", !.text = text]
YList(items) == [Absent EXCEPT !.type = "List", !.items = items]

\* A string that is a path, by its names.
YPath(names) == [Absent EXCEPT !.type = "String", !.items = names]

Value(doc, key) == IF key \in DOMAIN doc THEN doc[key] ELSE Absent

-----------------------------------------------------------------------------
\* bool_or.
bool_or(doc, key, default) ==
    IF Value(doc, key).type = "Bool" THEN Value(doc, key).flag ELSE default
BadBool(doc, key) == Value(doc, key).type \notin {"Absent", "Bool"}

\* Mutant: values below the range are let through.
BadIntBelow(doc, key, min, max) ==
    LET value == Value(doc, key)
    IN value.type # "Absent" /\ ~(value.type = "Int" /\ value.n <= max)

\* int_in_range; blocking_threads has the same rule and no default.
int_in_range(doc, key, default) ==
    IF Value(doc, key).type = "Int" THEN Value(doc, key).n ELSE default
BadInt(doc, key, min, max) ==
    LET value == Value(doc, key)
    IN value.type # "Absent" /\ ~(value.type = "Int" /\ min <= value.n /\ value.n <= max)

\* A mode is read with as_str: a value that is not a string is the default.
Mode(doc, key, default) ==
    IF Value(doc, key).type = "String" THEN Value(doc, key).text ELSE default
BadMode(doc, key, modes) ==
    Value(doc, key).type = "String" /\ Value(doc, key).text \notin modes

ListOf(doc, key, default) ==
    IF Value(doc, key).type = "List" THEN Value(doc, key).items ELSE default
BadList(doc, key, entries) ==
    LET value == Value(doc, key)
    IN value.type # "Absent"
       /\ ~(value.type = "List" /\ \A i \in 1 .. Len(value.items) : value.items[i] \in entries)

\* What is between two slashes that follow each other.
NoText == ""

\* trim_end_matches('/'): the names of a path without the empty ones at its end.
TrimEnd(names) ==
    SubSeq(names, 1, CHOOSE n \in 0 .. Len(names) :
                        /\ \A i \in n + 1 .. Len(names) : names[i] = NoText
                        /\ n > 0 => names[n] # NoText)

\* Mutant: the slashes at the end stay.
PrefixUntrimmed(doc) == Value(doc, "strip_prefix").items

\* The normalized prefix: a leading slash, no trailing one, and what is between.
Prefix(doc) == TrimEnd(Value(doc, "strip_prefix").items)
BadPrefix(doc) ==
    LET value == Value(doc, "strip_prefix")
    IN value.type # "Absent" /\ ~(value.type = "String" /\ Prefix(doc) # <<>>)

\* What parse refuses; `root` is external: the root canonicalizes to a directory.
\* Index names are strings, of which the model has the set Strings.
Refused(doc, root, strings) ==
    \/ ~(DOMAIN doc \subseteq KNOWN_KEYS)
    \/ Value(doc, "root").type # "String" \/ ~root
    \/ BadPrefix(doc)
    \/ BadList(doc, "index_files", strings)
    \/ BadMode(doc, "directory", {"index", "listing", "deny"})
    \/ BadMode(doc, "ranges", {"none", "single", "multi"})
    \/ BadList(doc, "precompressed", {"br", "gzip", "zstd"})
    \/ Value(doc, "mime_overrides").type \notin {"Absent", "Map"}
    \/ BadInt(doc, "chunk_size", MinChunk, MaxChunk)
    \/ BadInt(doc, "max_inflight_reads", 1, 8)
    \/ BadInt(doc, "blocking_threads", 1, 256)
    \/ \E key \in BoolKeys : BadBool(doc, key)

\* The Config of a document that is not refused, as far as requests see it.
parse(doc, indexDefault) ==
    [prefix |-> Prefix(doc),
     index_files |-> ListOf(doc, "index_files", indexDefault),
     directory |-> Mode(doc, "directory", "index"),
     redirect_trailing_slash |-> bool_or(doc, "redirect_trailing_slash", TRUE),
     serve_dotfiles |-> bool_or(doc, "serve_dotfiles", FALSE),
     chunk_size |-> int_in_range(doc, "chunk_size", DefaultChunk),
     max_inflight_reads |-> int_in_range(doc, "max_inflight_reads", 2),
     precompressed |-> ListOf(doc, "precompressed", <<"br", "gzip">>),
     mime_overrides |-> Value(doc, "mime_overrides").items]
=============================================================================
