---------------------------- MODULE Conditional -----------------------------
(***************************************************************************)
(* Validators and preconditions: plan_response of                          *)
(* crates/envoy-files-core/src/response_plan.rs with validators.rs, as one *)
(* client sees them that caches a file, revalidates it and resumes broken  *)
(* downloads while the file is replaced on the server.                     *)
(*                                                                         *)
(* A version of the file is its size and modification time; its bytes are  *)
(* two halves, of which a broken download got the first.  An entity tag is *)
(* the numbers it is made of, a date its seconds.                          *)
(***************************************************************************)
EXTENDS Integers, FiniteSets

CONSTANTS
    Versions,      \* the versions of the file, [size, time]
    TicksPerSec,   \* the ticks of `time` that a date does not tell apart
    Half,          \* the length of the first half
    MaxReplaces    \* bound: times the file is replaced

\* mtime_parts: a time before the epoch becomes the epoch.
mtime_parts(time) ==
    IF time < 0 THEN [secs |-> 0, nanos |-> 0]
    ELSE [secs |-> time \div TicksPerSec, nanos |-> time % TicksPerSec]

make_etag(version) ==
    LET mtime == mtime_parts(version.time)
    IN <<version.size, mtime.secs, mtime.nanos>>

last_modified(version) == <<0, mtime_parts(version.time).secs, 0>>

\* In place of a half that the client does not have.
NoVersion == [size |-> 0 - 1, time |-> 0]

ASSUME ConditionalAssumption ==
    /\ Versions \subseteq [size : Nat, time : Int]
    /\ TicksPerSec \in Nat \ {0} /\ Half \in Nat \ {0} /\ MaxReplaces \in Nat

\* The value of a conditional header.
Header(kind, value) == [kind |-> kind, value |-> value]
Absent == Header("Absent", <<0, 0, 0>>)
Malformed == Header("Malformed", <<0, 0, 0>>)
AnyTag == Header("Any", <<0, 0, 0>>)

VARIABLES
    config,    \* the etag and last_modified options
    file,      \* the version that an open finds
    replaces,  \* times the file was replaced
    copy,      \* the client's halves and the validators it was given
    exchange   \* history: the last request and its answer

vars == <<config, file, replaces, copy, exchange>>

-----------------------------------------------------------------------------
(* The headers crate. *)

strong_eq(header, etag) == header.kind = "Strong" /\ header.value = etag
weak_eq(header, etag) == header.kind \in {"Strong", "Weak"} /\ header.value = etag

IsTag(header) == header.kind \in {"Strong", "Weak", "Any"}

NotAfter(version, header) == mtime_parts(version.time).secs <= header.value[2]

-----------------------------------------------------------------------------
(* validators.rs. *)

\* A tag list decodes whatever it holds: one that is malformed has no tag that
\* matches.  A date that does not decode is ignored.
IfMatchFails(h, version) ==
    \/ /\ h.if_match \notin {Absent, AnyTag}
       /\ ~strong_eq(h.if_match, make_etag(version))
    \/ /\ h.if_match = Absent
       /\ h.if_unmodified_since.kind = "Date"
       /\ ~NotAfter(version, h.if_unmodified_since)

\* Mutant: the date is looked at whatever If-None-Match says.
IfNoneMatchFailsByDate(h, version) ==
    \/ /\ IsTag(h.if_none_match)
       /\ h.if_none_match = AnyTag \/ weak_eq(h.if_none_match, make_etag(version))
    \/ /\ h.if_modified_since.kind = "Date"
       /\ NotAfter(version, h.if_modified_since)

IfNoneMatchFails(h, version) ==
    \/ /\ IsTag(h.if_none_match)
       /\ h.if_none_match = AnyTag \/ weak_eq(h.if_none_match, make_etag(version))
    \/ /\ h.if_none_match = Absent
       /\ h.if_modified_since.kind = "Date"
       /\ NotAfter(version, h.if_modified_since)

evaluate_conditionals(h, version) ==
    IF IfMatchFails(h, version) THEN "PreconditionFailed"
    ELSE IF IfNoneMatchFails(h, version) THEN "NotModified"
    ELSE "Proceed"

\* Mutant: If-Range is not looked at.
if_range_always(header, version) == header = header

if_range_matches(header, version) ==
    IF header.kind = "Date" THEN NotAfter(version, header)
    ELSE strong_eq(header, make_etag(version))

-----------------------------------------------------------------------------
(* response_plan.rs. *)

\* Headers of a validator that is not enabled are dropped, except If-Range.
Effective(h) ==
    [h EXCEPT !.if_none_match = IF config.etag THEN h.if_none_match ELSE Absent,
              !.if_match = IF config.etag THEN h.if_match ELSE Absent,
              !.if_modified_since =
                  IF config.last_modified THEN h.if_modified_since ELSE Absent,
              !.if_unmodified_since =
                  IF config.last_modified THEN h.if_unmodified_since ELSE Absent]

\* The status of the plan; the range asks for the second half.
plan_response(h, version) ==
    LET condition == evaluate_conditionals(Effective(h), version) IN
    IF condition = "PreconditionFailed" THEN 412
    ELSE IF condition = "NotModified" THEN 304
    ELSE IF h.range /\ (h.if_range = Absent \/ if_range_matches(h.if_range, version))
    THEN IF Half >= version.size THEN 416 ELSE 206
    ELSE 200

\* push_validator_headers: what the client learns from a 200, 206 or 304.
TagSent(version) ==
    IF config.etag THEN Header("Strong", make_etag(version)) ELSE Absent
DateSent(version) ==
    IF config.last_modified THEN Header("Date", last_modified(version)) ELSE Absent

-----------------------------------------------------------------------------
(* The client and the server's disk. *)

NoCopy == [first |-> NoVersion, second |-> NoVersion, tag |-> Absent, date |-> Absent]

Unconditional ==
    [if_none_match |-> Absent, if_modified_since |-> Absent, if_match |-> Absent,
     if_unmodified_since |-> Absent, if_range |-> Absent, range |-> FALSE]

NoExchange ==
    [headers |-> Unconditional, status |-> 0, copy |-> NoCopy, version |-> NoVersion]

Init ==
    /\ config \in [etag : BOOLEAN, last_modified : BOOLEAN]
    /\ file \in Versions
    /\ replaces = 0
    /\ copy = NoCopy
    /\ exchange = NoExchange

\* Requests with headers h; a 200 may break off after the first half.
Ask(h) ==
    LET status == plan_response(h, file)
        given == [copy EXCEPT !.tag = TagSent(file), !.date = DateSent(file)]
    IN  /\ exchange' = [headers |-> h, status |-> status, copy |-> copy, version |-> file]
        /\ \/ status = 200 /\ copy' = [given EXCEPT !.first = file, !.second = file]
           \/ status = 200 /\ copy' = [given EXCEPT !.first = file, !.second = NoVersion]
           \/ status = 206 /\ copy' = [given EXCEPT !.second = file]
           \/ status = 304 /\ copy' = given
           \/ status \in {412, 416} /\ UNCHANGED copy
        /\ UNCHANGED <<config, file, replaces>>

\* A conforming client sends what it was given, and a range only with the
\* validator that guards it: the tag when it has one, else the date.
Fetch == Ask(Unconditional)

Revalidate ==
    /\ copy.second # NoVersion
    /\ \E match \in {Absent, AnyTag, Malformed} :
          Ask([Unconditional EXCEPT !.if_none_match = copy.tag, !.if_match = match,
                                    !.if_modified_since = copy.date])

Broken == copy.first # NoVersion /\ copy.second = NoVersion

ResumeIfRange ==
    /\ Broken
    /\ copy.tag # Absent \/ copy.date # Absent
    /\ Ask([Unconditional EXCEPT !.range = TRUE,
               !.if_range = IF copy.tag # Absent THEN copy.tag ELSE copy.date])

ResumeIfMatch ==
    /\ Broken
    /\ copy.tag # Absent \/ copy.date # Absent
    /\ Ask([Unconditional EXCEPT !.range = TRUE, !.if_match = copy.tag,
                                 !.if_unmodified_since = copy.date])

\* An intermediary weakens the tag that the client was given.
Weaken ==
    /\ copy.tag.kind = "Strong"
    /\ copy' = [copy EXCEPT !.tag = Header("Weak", copy.tag.value)]
    /\ UNCHANGED <<config, file, replaces, exchange>>

\* The file is replaced, possibly by an older version.
Replace ==
    /\ replaces < MaxReplaces
    /\ replaces' = replaces + 1
    /\ file' \in Versions \ {file}
    /\ UNCHANGED <<config, copy, exchange>>

Next ==
    Fetch \/ Revalidate \/ ResumeIfRange \/ ResumeIfMatch \/ Weaken \/ Replace

Spec == Init /\ [][Next]_vars

-----------------------------------------------------------------------------
(* Properties. *)

\* Versions that the validators do not tell apart: the same one or, because
\* mtime_parts makes one time of all that are not after the epoch, two of one size
\* from before it.
Alike(v, w) == v = w \/ (v.size = w.size /\ v.time <= 0 /\ w.time <= 0)

\* A client that revalidates with the tag it was given is told 304 exactly when
\* its copy is the current version: not for a version of the same second, whose
\* date is the same, and not after a rollback.  The exception is a version from
\* before the epoch that was replaced by another of its size: see MCConditional.
RevalidationExact ==
    (exchange.headers.if_none_match # Absent /\ exchange.status # 412) =>
        (exchange.status = 304 <=> Alike(exchange.copy.first, exchange.version))

\* A resumed download is never put together from two versions, whether the
\* client guards it with If-Range or If-Match, with a strong tag or a weakened
\* one, unless they are from before the epoch and of one size.  A client that has
\* only a date may mix versions which that date does not tell from the one it began
\* with: those of the same second and older ones.
ResumedFromOneVersion ==
    copy.second # NoVersion =>
        \/ Alike(copy.first, copy.second)
        \/ /\ ~config.etag
           /\ last_modified(copy.second)[2] <= last_modified(copy.first)[2]
=============================================================================
