-------------------------------- MODULE Site --------------------------------
(***************************************************************************)
(* The document root as a browser sees it: a configured mount, the tree    *)
(* behind it, and a client that types URLs, follows redirects and walks    *)
(* directory listings, through a shared cache that honours Vary.           *)
(*                                                                         *)
(* How a request is turned into an answer is filter.rs with path.rs,       *)
(* encoding.rs, mime.rs, config.rs and listing.rs.  An answer is one step  *)
(* here, over a tree that stands still; module Filter has its steps.       *)
(***************************************************************************)
EXTENDS Path, Encoding, Config

CONSTANTS
    Documents,   \* the configuration documents
    Trees,       \* the document roots: directories and files
    Entries,     \* URLs that the client types
    Headers,     \* Accept-Encoding headers of the clients
    Index,       \* the name index.html
    Extension,   \* the extension of each name, "" for none
    Stem,        \* each name without the suffix of an encoding
    Suffix,      \* the encoding whose suffix each name has, or "none"
    Known,       \* content types of known extensions (external)
    MaxStored    \* bound: responses in the cache

\* Names that files and directories can have.
FileNames == Names \ {NoName}

\* A document root: what is a directory is not a file, what is in a directory has a
\* name of its own there (read_dir does not return `.`), and directories are below
\* the root.
IsTree(tree) ==
    /\ <<>> \in tree.dirs
    /\ tree.dirs \cap tree.files = {}
    /\ tree.dirs \cup tree.files \subseteq Seq({name \in FileNames : Rule[name] # "Dot"})
    /\ \A path \in tree.dirs \ {<<>>} : SubSeq(path, 1, Len(path) - 1) \in tree.dirs

\* A name with a suffix has the rule of the name without it, but the suffix alone
\* begins with a dot.
SuffixRule(name) ==
    IF Stem[name] = NoName THEN Rule[name] = "Dotfile"
    ELSE Rule[Stem[name]] \in {"Plain", "Dotfile"} => Rule[name] = Rule[Stem[name]]

\* Prefixes are any paths; index files are names in the directory itself.
ASSUME SiteAssumption ==
    /\ Index \in Names
    /\ Extension \in [Names -> STRING] /\ Extension[NoName] = NoName
    /\ Stem \in [Names -> Names] /\ Suffix \in [Names -> Encodings \cup {"none"}]
    /\ \A name \in Names : Suffix[name] # "none" => SuffixRule(name)
    /\ \A name, other \in Names :
          (Suffix[name] # "none" /\ Suffix[name] = Suffix[other] /\ Stem[name] = Stem[other])
             => name = other
    /\ \A url \in Entries : url \in Seq(Segments) /\ url # <<>>
    /\ \A header \in Headers : header \in Seq(Items)
    /\ \A tree \in Trees : IsTree(tree)
    /\ \A doc \in Documents :
          /\ Value(doc, "strip_prefix").items \in Seq(Names)
          /\ \A key \in {"index_files", "precompressed"} :
                Value(doc, key).items \in Seq(STRING)
          /\ LET names == Value(doc, "index_files").items
             IN \A i \in 1 .. Len(names) :
                   names[i] \in Names => Rule[names[i]] \notin {"DotDot", "Slash"}
          /\ \A key \in {"chunk_size", "max_inflight_reads"} : Value(doc, key).n \in Int
    /\ MaxStored \in Nat

VARIABLES
    config,  \* the Config, or Down when the document was refused
    tree,    \* the document root
    header,  \* Accept-Encoding of the client that browses
    at,      \* the URL of the page it is on
    page,    \* the page
    cache    \* responses that the shared cache stores

vars == <<config, tree, header, at, page, cache>>

Down == [prefix |-> <<>>, directory |-> "down"]

-----------------------------------------------------------------------------
(* Answers. *)

\* A response: the file or directory it shows, the file that was opened for it,
\* where it redirects to, and the headers that the encoding decides.
Page(kind, status, path) ==
    [kind |-> kind, status |-> status, path |-> path, file |-> path, location |-> <<>>,
     encoding |-> "identity", vary |-> FALSE, type |-> "none", up |-> FALSE]

Status(status) == Page("Status", status, <<>>)

reject_status(verdict) ==
    CASE verdict = "TooLong" -> 414
      [] verdict \in {"BadEncoding", "BadCharacter"} -> 400
      [] verdict \in {"Traversal", "Dotfile"} -> 404

Front(path) == SubSeq(path, 1, Len(path) - 1)
LastName(path) == IF path = <<>> THEN NoName ELSE path[Len(path)]

TypeOf(name) == content_type_for(Extension[name], config.mime_overrides, Known, "octets")

\* Mutant: the type of a variant is that of its own suffix.
VariantTypeOwn(path, encoding) == encoding

\* The type of a variant is that of the file it stands for.
VariantType(path, encoding) == TypeOf(LastName(path))

\* Mutant: Vary is not sent with a variant.
VaryNever(accepted) == FALSE

\* add_vary, the same for all candidates of a request.
Vary(accepted) == accepted # <<>>

\* The file whose path is the path with the suffix of the encoding, if there is one.
\* The path of the root is empty, so that a suffix alone is the name of its variant.
VariantsOf(path, encoding) ==
    {file \in tree.files :
        /\ file # <<>> /\ Front(file) = Front(path)
        /\ Stem[LastName(file)] = LastName(path) /\ Suffix[LastName(file)] = encoding}

\* build_file_candidates and the opens of them: the first variant that exists.
Variant(path, trailing_slash) ==
    LET accepted == IF trailing_slash THEN <<>>
                    ELSE negotiate_precompressed(header, config.precompressed)
        found == First({i \in 1 .. Len(accepted) : VariantsOf(path, accepted[i]) # {}})
    IN  [encoding |-> IF found = 0 THEN "identity" ELSE accepted[found],
         file |-> IF found = 0 THEN path
                  ELSE CHOOSE file \in VariantsOf(path, accepted[found]) : TRUE,
         vary |-> Vary(accepted)]

\* Mutant: the mount's root is taken for a directory below another.
AtRootOfHost(path) == path = <<>> /\ config.prefix = <<>>

\* at_root: the listing of the root has no link to its parent.
AtRoot(path) == path = <<>>

\* dir_fs.join: a name that is empty or a dot stands for the directory.
IndexPath(path, name) ==
    IF name = NoName \/ Rule[name] = "Dot" THEN path ELSE Append(path, name)

\* handle_directory and directory_fallback.  An index file that is a directory makes
\* handle_opened begin again, without end.
Directory(path, trailing_slash) ==
    LET found == First({i \in 1 .. Len(config.index_files) :
                          IndexPath(path, config.index_files[i])
                             \in tree.files \cup tree.dirs})
        index == IndexPath(path, config.index_files[found])
    IN  CASE ~trailing_slash /\ config.redirect_trailing_slash ->
               [Page("Redirect", 301, path) EXCEPT
                  !.location = Append(url_for(path, config.prefix), Empty)]
          [] (trailing_slash \/ ~config.redirect_trailing_slash)
                /\ config.directory = "deny" -> Status(403)
          [] (trailing_slash \/ ~config.redirect_trailing_slash)
                /\ config.directory # "deny" ->
               IF found # 0
               THEN IF index \in tree.dirs THEN Page("Endless", 0, path)
                    ELSE [Page("File", 200, index) EXCEPT !.type = TypeOf(LastName(index))]
               ELSE IF config.directory = "listing"
               THEN [Page("Listing", 200, path) EXCEPT !.up = ~AtRoot(path)]
               ELSE Status(404)

\* The server's answer to a request for a URL.
Answer(url) ==
    LET rest == strip_mount_prefix(url, config.prefix)
        resolved == resolve_request_path(rest, config.serve_dotfiles)
        path == resolved.relative
        variant == Variant(path, resolved.trailing_slash)
    IN  IF config = Down \/ rest = <<>> THEN Status(404)
        ELSE IF resolved.verdict # "Ok" THEN Status(reject_status(resolved.verdict))
        ELSE IF variant.encoding # "identity" \/ path \in tree.files
        THEN [Page("File", 200, path) EXCEPT
                !.file = variant.file,
                !.encoding = variant.encoding, !.vary = variant.vary,
                !.type = VariantType(path, variant.encoding)]
        ELSE IF path \in tree.dirs THEN Directory(path, resolved.trailing_slash)
        ELSE Status(404)

-----------------------------------------------------------------------------
(* The client and the cache. *)

Blank == Page("Blank", 0, <<>>)

Init ==
    /\ \E doc \in Documents, root \in BOOLEAN :
          config = IF Refused(doc, root, Names) THEN Down ELSE parse(doc, <<Index>>)
    /\ tree \in Trees
    /\ header \in Headers
    /\ at = <<Empty>>
    /\ page = Blank
    /\ cache = {}

\* A URL is fetched: from the cache, if it has a response for the URL that does
\* not vary or was selected by the same header, or from the server.
Show(url) ==
    /\ at' = url
    /\ \/ \E entry \in cache :
             /\ entry.url = url /\ (entry.page.vary => entry.header = header)
             /\ page' = entry.page
             /\ UNCHANGED cache
       \/ /\ page' = Answer(url)
          /\ \/ UNCHANGED cache
             \/ /\ page'.kind = "File" /\ Cardinality(cache) < MaxStored
                /\ cache' = cache \cup {[url |-> url, header |-> header, page |-> page']}
    /\ UNCHANGED <<config, tree, header>>

\* A URL is typed into an empty tab.
Enter ==
    /\ config # Down /\ page = Blank
    /\ \E url \in Entries : Show(url)

\* A Location that begins with two slashes names another host, not a path.
NetworkPath(location) == Len(location) > 1 /\ location[1] = Empty

Follow ==
    /\ page.kind = "Redirect" /\ ~NetworkPath(page.location)
    /\ Show(page.location)

\* The client follows such a redirect away from the server.
Leave ==
    /\ page.kind = "Redirect" /\ NetworkPath(page.location)
    /\ page' = Page("Elsewhere", 0, <<>>)
    /\ UNCHANGED <<config, tree, header, at, cache>>

\* The base of relative links: the page's URL up to its last slash.
Base == LET path == strip_query_and_fragment(at) IN SubSeq(path, 1, Len(path) - 1)

Children(path) ==
    {name \in FileNames : Append(path, name) \in tree.files \cup tree.dirs}

\* Mutant: the name goes into the link as it stands.
percent_encode_nothing(name) == Raw(name)

\* percent_encode_path_segment: the name, with all that is special escaped.
percent_encode_path_segment(name) == Encoded(name)

\* The link of an entry in render_listing, resolved against the page's URL.
Link(child) ==
    Base \o <<percent_encode_path_segment(child)>>
         \o (IF Append(page.path, child) \in tree.dirs THEN <<Empty>> ELSE <<>>)

\* The link to the parent, `../`.
Parent == Append(IF Base = <<>> THEN <<>> ELSE SubSeq(Base, 1, Len(Base) - 1), Empty)

Click ==
    /\ page.kind = "Listing"
    /\ \E child \in Children(page.path) : Show(Link(child))

Up == page.kind = "Listing" /\ page.up /\ Show(Parent)

\* Another client behind the same cache, or the same one in another tab.
NextClient ==
    /\ page # Blank
    /\ header' \in Headers
    /\ at' = <<Empty>>
    /\ page' = Blank
    /\ UNCHANGED <<config, tree, cache>>

Next == Enter \/ Follow \/ Leave \/ Click \/ Up \/ NextClient

Spec == Init /\ [][Next]_vars

-----------------------------------------------------------------------------
(* Properties. *)

\* An accepted configuration is one that the other modules' assumptions allow, and
\* its prefix does not end in a slash, whatever slashes it has before.
TypeOK ==
    /\ config # Down =>
          /\ config.prefix \in Seq(Names)
          /\ config.prefix # <<>> => LastName(config.prefix) # NoName
          /\ config.directory \in {"index", "listing", "deny"}
          /\ config.chunk_size \in MinChunk .. MaxChunk
          /\ config.max_inflight_reads \in 1 .. 8
    /\ header \in Headers
    /\ at \in Seq(Segments) /\ at # <<>>
    /\ page.path \in Seq(Names) /\ page.file \in Seq(Names)
    /\ Cardinality(cache) <= MaxStored

\* One of the index names is a directory: handle_directory may look for it for ever.
IndexIsDirectory(path) ==
    \E k \in 1 .. Len(config.index_files) :
        IndexPath(path, config.index_files[k]) \in tree.dirs

\* What a directory or file shows when it is asked for as it should be.
Shows(answer, path) ==
    IF path \in tree.dirs
    THEN /\ answer = Directory(path, TRUE)
         /\ answer.kind = "Endless" => IndexIsDirectory(path)
    ELSE answer.kind = "File" /\ answer.path = path

\* The names that the server refuses to serve, however they are written.
Forbidden(name) ==
    \/ Rule[name] \in {"DotDot", "Slash", "BadUtf8", "BadCharacter", "Reserved"}
    \/ Rule[name] = "Dotfile" /\ ~config.serve_dotfiles

\* Where a link or a redirect leads, unless it is too long for the server.
Leads(url, path) ==
    IF Len(strip_mount_prefix(url, config.prefix)) > MaxPathLen THEN Answer(url) = Status(414)
    ELSE Shows(Answer(url), path)

\* The path of a URL, without its query, ends in a slash.
EndsInSlash(url) ==
    LET path == strip_query_and_fragment(url)
    IN percent_decode_segment(path[Len(path)]) = NoName

\* The prefix reaches the server as it is: a client takes dot segments out of a URL,
\* does not send what is behind a `#`, and resolves links against what is before a `?`.
SentAsItIs(prefix) ==
    \A i \in 1 .. Len(prefix) :
        prefix[i] \notin Cuts /\ Rule[ReadsAs[prefix[i]]] \notin {"Dot", "DotDot"}

Tidy(url) ==
    LET path == strip_query_and_fragment(url)
    IN \A i \in 1 .. Len(path) - 1 :
          LET name == percent_decode_segment(path[i])
          IN name # NoName /\ Rule[name] # "Dot"

\* Listings can be walked.  Under a URL that ends in a slash, the link of each
\* entry, whatever characters its name has, leads to that entry and nothing else,
\* through prefix, escaping and decoding; the server refuses it only for a name
\* that it never serves, or for its length, and a directory stays without an answer
\* only if one of its index names is a directory.  The link to the parent leads to the
\* parent, unless the URL has empty or dot segments, and never out of the mount.
\* For a prefix that clients send as it is.
LinksLead ==
    (page.kind = "Listing" /\ EndsInSlash(at) /\ SentAsItIs(config.prefix)) =>
        /\ \A child \in Children(page.path) :
              IF Forbidden(child) THEN Answer(Link(child)).kind = "Status"
              ELSE Leads(Link(child), Append(page.path, child))
        /\ (page.up /\ Tidy(at)) =>
              Shows(Answer(Parent), SubSeq(page.path, 1, Len(page.path) - 1))

\* A redirect leads to what it was sent for, in one step: the directory, with
\* the mount prefix restored.  For names that can be written as they stand, a prefix
\* that clients send as it is, and a Location that is a path: the redirects of the
\* root without a prefix, and of all directories under one that begins with two
\* slashes, are not (see MCSite).
RedirectsLand ==
    (/\ page.kind = "Redirect"
     /\ \A i \in 1 .. Len(page.path) :
           ReadsAs[page.path[i]] = page.path[i] /\ page.path[i] \notin Cuts
     /\ SentAsItIs(config.prefix)
     /\ config.prefix = <<>> => page.path # <<>>
     /\ config.prefix # <<>> => config.prefix[1] # NoName)
        => ~NetworkPath(page.location) /\ Leads(page.location, page.path)

\* README.md and url_for: a redirect leads to the directory, whatever its name.
RedirectsAlwaysLand ==
    page.kind = "Redirect" => Leads(page.location, page.path)

\* No way of writing a path gets a file opened under a name that is never served,
\* with two exceptions: the configuration names it as an index file, which is opened
\* as it stands; or it is the suffix of an encoding, opened as the variant of the root
\* (see MCSite).
NothingForbidden ==
    page.kind \in {"Redirect", "Listing", "File"} =>
        \A i \in 1 .. Len(page.file) :
            Forbidden(page.file[i]) =>
                /\ page.kind = "File" /\ i = Len(page.file)
                /\ \/ \E k \in 1 .. Len(config.index_files) :
                         config.index_files[k] = page.file[i]
                   \/ page.path = <<>> /\ page.encoding # "identity"

\* An item for the encoding asks for it or, if there is none, a wildcard.
AcceptsEncoding(asked, encoding) ==
    LET own == {i \in 1 .. Len(asked) : asked[i].coding = encoding}
        any == {i \in 1 .. Len(asked) : asked[i].coding = "*"}
    IN  \E i \in IF own # {} THEN own ELSE any : asked[i].q > 0

\* A client never gets an encoding that it did not ask for, also when the cache
\* answers with what another client was sent; among the variants that exist it
\* gets one that it likes best; and the variant has the content type that other
\* clients see of the file.
NegotiatedWell ==
    (page.kind = "File" /\ page.encoding # "identity") =>
        /\ AcceptsEncoding(header, page.encoding)
        /\ \A i \in 1 .. Len(config.precompressed) :
              LET other == config.precompressed[i] IN
              VariantsOf(page.path, other) # {} =>
                  acceptance_for(header, other) <= acceptance_for(header, page.encoding)
        /\ \A entry \in cache : entry.page.path = page.path => entry.page.type = page.type
=============================================================================
