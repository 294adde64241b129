------------------------------ MODULE MCFilter ------------------------------
(* Values for the constants of Filter in TLC's runs. *)
EXTENDS Filter

CONSTANTS Br, Gz, Rel, Idx1, Idx2

Get == [method |-> "GET", mounted |-> TRUE, verdict |-> "Ok",
        trailingSlash |-> FALSE, range |-> FALSE, accepted |-> <<>>]

Ranged == [Get EXCEPT !.range = TRUE]

IndexConfig == [indexFiles |-> <<Idx1>>, directory |-> "Index", redirect |-> TRUE]

AllMissing == [p \in Paths |-> "NotFound"]
OneFile == [AllMissing EXCEPT ![Rel] = "File"]

(* Streaming: whole files of up to three chunks, a range, a two-part multipart;
   files, variants, directories and index files that change under the stream. *)
StreamRequests ==
    {[Get EXCEPT !.accepted = <<Gz>>], [Ranged EXCEPT !.trailingSlash = TRUE]}
StreamConfigs == {[IndexConfig EXCEPT !.directory = "Listing"]}
StreamTrees ==
    {OneFile, [AllMissing EXCEPT ![Rel] = "Dir"],
     [AllMissing EXCEPT ![Rel] = "Dir", ![Idx1] = "File"]}
StreamWholePlans == {<<"File">>, <<"File", "File", "File">>}
StreamRangePlans == {<<"File", "File">>, <<"Inline", "File", "Inline", "File", "Inline">>}

(* Resolution: every kind of request, configuration and tree. *)
ResolveRequests ==
    [method : {"GET"}, mounted : {TRUE}, verdict : {"Ok"}, trailingSlash : BOOLEAN,
     range : {FALSE}, accepted : {<<>>, <<Br>>, <<Gz, Br>>}]
    \cup {[Get EXCEPT !.method = m] : m \in {"HEAD", "Other"}}
    \cup {[Get EXCEPT !.mounted = FALSE]}
    \cup {[Get EXCEPT !.verdict = r] : r \in RejectReasons}
ResolveConfigs ==
    [indexFiles : {<<>>, <<Idx1>>, <<Idx2, Idx1>>}, directory : DirectoryModes,
     redirect : BOOLEAN]
ResolveTrees ==
    {t \in [Paths -> {"File", "Dir", "NotFound", "PermissionDenied", "Other"}] :
        /\ \A p \in {Br, Gz} : t[p] \in {"File", "Dir", "NotFound"}
        /\ \A p \in {Idx1, Idx2} :
              t[p] \in IF t[Rel] = "Dir" THEN {"File", "NotFound"} ELSE {"NotFound"}}
ResolveWholePlans == {<<"File">>}

(* An index file that is a directory. *)
IndexDirRequests == {[Get EXCEPT !.trailingSlash = TRUE]}
IndexDirTrees == {[AllMissing EXCEPT ![Rel] = "Dir", ![Idx1] = "Dir"]}

(* A directory with an index file under `deny`. *)
DenyConfigs == {[IndexConfig EXCEPT !.directory = "Deny"]}
DenyTrees == {[AllMissing EXCEPT ![Rel] = "Dir", ![Idx1] = "File"]}

(* A single whole file of several chunks. *)
GetOnly == {Get}
OnlyFile == {OneFile}
FourChunks == {<<"File", "File", "File", "File">>}

-----------------------------------------------------------------------------
(* Statements of the repository's documentation and comments. *)

\* README.md, max_inflight_reads: the reads issued ahead of the send cursor
\* bound per-stream buffering to max_inflight_reads * chunk_size.
BufferingBounded ==
    Cardinality({i \in ready : i >= nextSend /\ chunks[i + 1] = "File"}) <= MaxInflight

\* README.md, directory: `deny` answers 403 on a directory with no matching index.
\* One that has an index file is served by it, as README.md says of index_files:
\* tried for a directory request.
DenyAfterIndex ==
    (reply # NoReply /\ reply.status = 403 /\ tree[Identity] = "Dir" /\ treeChanges = 0)
        => FirstFile(config.indexFiles) = {}
=============================================================================
