------------------------------- MODULE MCSite -------------------------------
(* Values for the constants of Site in TLC's runs. *)
EXTENDS Site, TLC

(* Names for every rule, and two whose raw form reads as another name. *)
SiteNames ==
    {"", "static", "dir", "sub", "x.js", "index.html", ".git", "con", "a:b", ".", "..",
     "a/b", "utf8", "dir?b", "%41", "A", "?", "x.js.br", "x.js.gz", "x.js.zst", ".gz"}
SiteRule ==
    [n \in SiteNames |->
        CASE n = "." -> "Dot" [] n = ".." -> "DotDot" [] n = "a/b" -> "Slash"
          [] n = "utf8" -> "BadUtf8" [] n = "a:b" -> "BadCharacter"
          [] n \in {".git", ".gz"} -> "Dotfile"
          [] n = "con" -> "Reserved" [] OTHER -> "Plain"]
SiteReadsAs ==
    [n \in SiteNames |->
        CASE n = "dir?b" -> "dir" [] n = "%41" -> "A" [] n = "?" -> "" [] OTHER -> n]
SiteCuts == {"dir?b", "?"}
SiteEscaped == SiteCuts \cup {"a/b", "utf8", "a:b", "%41"}
SiteExtension ==
    [n \in SiteNames |->
        CASE n = "x.js" -> "js" [] n = "index.html" -> "html" [] n = "x.js.gz" -> "gz"
          [] n = "x.js.br" -> "br" [] n = "x.js.zst" -> "zst" [] OTHER -> ""]
SiteSuffix ==
    [n \in SiteNames |->
        CASE n = "x.js.br" -> "br" [] n \in {"x.js.gz", ".gz"} -> "gzip"
          [] n = "x.js.zst" -> "zstd" [] OTHER -> "none"]
SiteStem ==
    [n \in SiteNames |->
        CASE n \in {"x.js.br", "x.js.gz", "x.js.zst"} -> "x.js" [] n = ".gz" -> ""
          [] OTHER -> n]
SiteKnown == [e \in {"js", "html"} |-> e]

(* Trees: a directory with files of all sorts of names below one without an
   index file, or with one, or with one that is a directory. *)
Dirs == {<<>>, <<"dir">>, <<"dir", "sub">>, <<"dir", "sub", "dir">>, <<"dir", "dir?b">>,
         <<"%41">>, <<".git">>}
Files == {<<"x.js">>, <<"dir", "x.js">>, <<"dir", "con">>, <<"dir", "a:b">>,
          <<"dir", "%41">>, <<"dir", "sub", "x.js">>, <<"dir", "x.js.br">>,
          <<"dir", "x.js.gz">>, <<"x.js.zst">>, <<".gz">>}
Bare == [dirs |-> Dirs, files |-> Files]
SiteTrees ==
    {Bare, [Bare EXCEPT !.files = Files \cup {<<"index.html">>, <<"dir", "index.html">>}],
     [Bare EXCEPT !.dirs = Dirs \cup {<<"dir", "index.html">>}]}

(* Documents: mounts and modes, and for each kind of value one that is refused
   or at its limit. *)
Doc(more) == ("root" :> YString("www")) @@ more
Mounted(mode) ==
    ("strip_prefix" :> YPath(<<"static">>)) @@ ("directory" :> YString(mode))
SiteDocuments ==
    {Doc(<<>>), Doc("directory" :> YString("listing")),
     Doc(Mounted("listing") @@ ("max_inflight_reads" :> YInt(8))),
     Doc(Mounted("listing") @@ ("redirect_trailing_slash" :> YBool(FALSE))
           @@ ("index_files" :> YList(<<>>)) @@ ("chunk_size" :> YInt(4096))),
     Doc(Mounted("deny") @@ ("serve_dotfiles" :> YBool(TRUE))
           @@ ("precompressed" :> YList(<<"zstd", "gzip">>))),
     Doc(("strip_prefix" :> YPath(<<"", "static", "", "dir", "", "">>))
           @@ ("directory" :> YString("listing"))),
     Doc(("strip_prefix" :> YPath(<<"dir?b">>)) @@ ("directory" :> YString("listing"))),
     Doc("mime_overrides" :> [Absent EXCEPT !.type = "Map",
                              !.items = <<[extension |-> "js", type |-> "script"]>>]
           @@ "index_files" :> YList(<<"con">>)),
     Doc("strip_prefix" :> YPath(<<"", "">>)), Doc("max_inflight_reads" :> YInt(0)),
     Doc("chunk_size" :> YInt(4194305)), Doc("directory" :> YString("tree")),
     Doc("precompressed" :> YList(<<"deflate">>)), Doc("etag" :> YString("yes")),
     Doc("rooot" :> YString("www"))}

(* URLs: each file and directory with and without a slash, at the root and under
   the mount; and ways of writing a path that the rules are there for. *)
Written(path) == [i \in DOMAIN path |-> Encoded(path[i])]
Plain == {Written(p) : p \in (Dirs \ {<<>>}) \cup Files} \cup {<<>>}
Odd == {<<Empty, Raw("dir"), Empty>>, <<Raw("dir"), Empty, Empty>>,
        <<Raw("."), Raw("dir"), Raw("?")>>, <<Raw(".")>>, <<Encoded("..")>>, <<Raw("dir"), Encoded("a/b")>>,
        <<Encoded("utf8")>>, <<Raw("dir"), Raw("dir?b"), Raw("x.js")>>,
        <<Raw("x.js"), Raw("x.js"), Raw("x.js"), Raw("x.js")>>}
Urls == {p \o <<Empty>> : p \in Plain} \cup (Plain \ {<<>>}) \cup Odd
SiteEntries ==
    Urls \cup {<<Raw("static")>> \o u : u \in Urls}
         \cup {<<Empty, Raw("static"), Empty, Raw("dir")>> \o u :
                  u \in {<<>>, <<Empty>>, <<Raw("dir")>>, <<Raw("dir"), Empty>>}}
         \cup {<<Raw("static")>>, <<Raw("dir?b"), Raw("dir")>>}

Item(coding, q) == [coding |-> coding, q |-> q]
SiteHeaders ==
    {<<>>, <<Item("gzip", 5), Item("br", 10)>>,
     <<Item("gzip", 10), Item("br", 5), Item("gzip", 0)>>,
     <<Item("*", 10), Item("br", 0)>>, <<Item("zstd", 10), Item("gzip", NotANumber)>>}

-----------------------------------------------------------------------------
(* What the documentation says. *)

\* README.md, "serve_dotfiles", which is false by default: path segments beginning
\* with a dot are not served, but for an index file that the configuration names.
DotfilesNotServed ==
    (page.kind = "File" /\ ~config.serve_dotfiles) =>
        \A i \in 1 .. Len(page.file) :
            Rule[page.file[i]] = "Dotfile" =>
                \E k \in 1 .. Len(config.index_files) :
                    config.index_files[k] = page.file[i]

\* url_for: redirects point back through the mount, and not to another host.
RedirectsStay == page.kind = "Redirect" => ~NetworkPath(page.location)
=============================================================================
