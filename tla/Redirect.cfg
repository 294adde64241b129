CONSTANTS
    Names <- SiteNames
    Rule <- SiteRule
    ReadsAs <- SiteReadsAs
    Cuts <- SiteCuts
    Escaped <- SiteEscaped
    MaxPathLen = 3
    Documents <- SiteDocuments
    Trees <- SiteTrees
    Entries <- SiteEntries
    Headers <- SiteHeaders
    Index = "index.html"
    Extension <- SiteExtension
    Stem <- SiteStem
    Suffix <- SiteSuffix
    Known <- SiteKnown
    MaxStored = 1
SPECIFICATION Spec
CHECK_DEADLOCK FALSE
INVARIANT
    RedirectsAlwaysLand
