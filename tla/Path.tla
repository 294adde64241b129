-------------------------------- MODULE Path --------------------------------
(***************************************************************************)
(* Request paths: crates/envoy-files-core/src/path.rs and the mount prefix *)
(* of crates/envoy-files-filter/src/filter.rs.                             *)
(*                                                                         *)
(* A URL path is the sequence of its segments, each a name and whether it  *)
(* is written percent-encoded.  What matters of a name is the rule that    *)
(* reject_reason_for_segment has for it, and what becomes of it when it is *)
(* written into a URL as it stands: `a?b` reads as `a` and cuts the path,  *)
(* `%41` reads as `A`.  A trailing slash is a last segment without a name. *)
(***************************************************************************)
EXTENDS Integers, Sequences, FiniteSets

CONSTANTS
    Names,      \* names of files and path segments; "" is the empty one
    Rule,       \* the rule that applies to each name
    ReadsAs,    \* what each name reads as when it is written as it stands
    Cuts,       \* names that contain `?` or `#`
    Escaped,    \* names with a character that percent_encode_path_segment escapes
    MaxPathLen  \* max_path_len, in segments

Rules == {"Plain", "Dot", "DotDot", "Slash", "BadUtf8", "BadCharacter", "Dotfile",
          "Reserved"}

\* The name of the segment behind a trailing slash.
NoName == ""

\* Nothing reads as nothing, and so does what stands before a leading `?`.  A name
\* without a special character reads as itself.
ASSUME PathAssumption ==
    /\ NoName \in Names
    /\ Rule \in [Names -> Rules] /\ Rule[NoName] = "Plain"
    /\ ReadsAs \in [Names -> Names]
    /\ ReadsAs[NoName] = NoName
    /\ \A name \in Names \ Cuts : ReadsAs[name] = NoName => name = NoName
    /\ Cuts \subseteq Escaped /\ Escaped \subseteq Names \ {NoName}
    /\ \A name \in Names \ Escaped : ReadsAs[name] = name
    /\ MaxPathLen \in Nat

Encoded(name) == [name |-> name, encoded |-> TRUE]
Raw(name) == [name |-> name, encoded |-> FALSE]
Empty == Raw(NoName)

Segments == [name : Names, encoded : BOOLEAN]

-----------------------------------------------------------------------------
\* percent_decode_segment of what is written before a `?` or `#`.
percent_decode_segment(segment) ==
    IF segment.encoded THEN segment.name ELSE ReadsAs[segment.name]

\* The first of the indices of a sequence that satisfy a condition, or 0.
First(indices) ==
    IF indices = {} THEN 0 ELSE CHOOSE i \in indices : \A j \in indices : i <= j

Cut(segment) == ~segment.encoded /\ segment.name \in Cuts

\* The path up to its first `?` or `#`, in the segment that has it.
strip_query_and_fragment(url) ==
    LET i == First({j \in 1 .. Len(url) : Cut(url[j])})
    IN IF i = 0 THEN url ELSE SubSeq(url, 1, i)

\* Mutant: the rules are applied to the segment as it is written.
RejectUndecoded(segment, dotfiles) ==
    LET rule == Rule[segment.name] IN
    IF segment.encoded THEN "None"
    ELSE CASE rule = "BadUtf8" -> "BadEncoding"
           [] rule \in {"Slash", "DotDot"} -> "Traversal"
           [] rule \in {"BadCharacter", "Reserved"} -> "BadCharacter"
           [] rule = "Dotfile" /\ ~dotfiles -> "Dotfile"
           [] OTHER -> "None"

\* percent_decode_segment's errors, the check for `..` and
\* reject_reason_for_segment; a `.` never gets that far.
Reject(segment, dotfiles) ==
    LET rule == Rule[percent_decode_segment(segment)] IN
    CASE rule = "BadUtf8" -> "BadEncoding"
      [] rule \in {"Slash", "DotDot"} -> "Traversal"
      [] rule \in {"BadCharacter", "Reserved"} -> "BadCharacter"
      [] rule = "Dotfile" /\ ~dotfiles -> "Dotfile"
      [] OTHER -> "None"

\* The place of an index among others.
Rank(i, indices) == Cardinality({j \in indices : j <= i})

\* The elements of a sequence at some of its indices, in order.
Keep(s, indices) ==
    [n \in 1 .. Cardinality(indices) |-> s[CHOOSE i \in indices : Rank(i, indices) = n]]

\* Empty segments and `.` are dropped; the first segment that is rejected
\* decides.
resolve_request_path(url, dotfiles) ==
    LET path == strip_query_and_fragment(url)
        bad == First({i \in 1 .. Len(path) : Reject(path[i], dotfiles) # "None"})
        names == [i \in 1 .. Len(path) |-> percent_decode_segment(path[i])]
        kept == {i \in 1 .. Len(path) : names[i] # NoName /\ Rule[names[i]] # "Dot"}
    IN  [verdict |-> IF Len(url) > MaxPathLen THEN "TooLong"
                     ELSE IF bad # 0 THEN Reject(path[bad], dotfiles) ELSE "Ok",
         relative |-> Keep(names, kept),
         trailing_slash |-> percent_decode_segment(path[Len(path)]) = NoName]

-----------------------------------------------------------------------------
\* The text of a segment is the name: it is written as it stands, or has nothing to
\* escape.
Spells(segment, name) ==
    segment.name = name /\ (segment.encoded => name \notin Escaped)

\* strip_mount_prefix: the rest of a URL under the prefix, a sequence of names
\* that are written as they stand; <<>> if the URL is not under it.  The bare
\* prefix, with or without a query, is the mount's root.
strip_mount_prefix(url, prefix) ==
    LET n == Len(prefix)
        under == /\ Len(url) >= n
                 /\ \A i \in 1 .. n :
                       \/ Spells(url[i], prefix[i])
                       \/ i = n /\ Cut(url[i]) /\ ReadsAs[url[i].name] = prefix[i]
    IN  IF ~under THEN <<>>
        ELSE IF n > 0 /\ (Len(url) = n \/ ~Spells(url[n], prefix[n])) THEN <<Empty>>
        ELSE SubSeq(url, n + 1, Len(url))

\* Mutant: the mount prefix is not restored.
url_for_unmounted(relative, prefix) ==
    IF relative = <<>> THEN <<Empty>>
    ELSE [i \in 1 .. Len(relative) |-> Raw(relative[i])]

\* url_for: the prefix and the resolved names, which are not encoded again.
url_for(relative, prefix) ==
    LET names == prefix \o (IF relative = <<>> THEN <<NoName>> ELSE relative)
    IN [i \in 1 .. Len(names) |-> Raw(names[i])]
=============================================================================
