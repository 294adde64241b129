------------------------- MODULE ConditionalProofs --------------------------
(* Proofs about Conditional, for any set of versions, before the epoch and after *)
(* it, any number of replacements and any length of the two halves.              *)
EXTENDS Conditional, TLAPS

Secs(version) == mtime_parts(version.time).secs

\* Seconds are integers, so that dates can be compared.
LEMMA SecsType == ASSUME NEW version \in Versions PROVE Secs(version) \in Int
  BY ConditionalAssumption DEF Secs, mtime_parts

\* No version has the size of NoVersion.
LEMMA NoVersionApart == NoVersion \notin Versions
<1>1. NoVersion.size \notin Nat
  BY DEF NoVersion
<1> QED
  BY <1>1, ConditionalAssumption

\* A time is its seconds and the ticks that are left of it.
LEMMA TimeParts ==
    ASSUME NEW s \in Int, s >= 0
    PROVE  /\ mtime_parts(s).secs \in Int /\ mtime_parts(s).nanos \in Int
           /\ s = TicksPerSec * mtime_parts(s).secs + mtime_parts(s).nanos
  BY ConditionalAssumption DEF mtime_parts

\* The times of one pair of parts are one time, or none is after the epoch.
LEMMA PartsApart ==
    ASSUME NEW s \in Int, NEW t \in Int
    PROVE  mtime_parts(s) = mtime_parts(t) <=> (s = t \/ (s <= 0 /\ t <= 0))
<1>1. mtime_parts(0) = [secs |-> 0, nanos |-> 0]
  BY ConditionalAssumption DEF mtime_parts
<1>2. \A u \in Int : u <= 0 => mtime_parts(u) = [secs |-> 0, nanos |-> 0]
  BY <1>1 DEF mtime_parts
<1>3. \A u \in Int : u > 0 => mtime_parts(u) # [secs |-> 0, nanos |-> 0]
  <2> SUFFICES ASSUME NEW u \in Int, u > 0, mtime_parts(u) = [secs |-> 0, nanos |-> 0]
               PROVE  FALSE
    OBVIOUS
  <2>1. u = TicksPerSec * mtime_parts(u).secs + mtime_parts(u).nanos
    BY TimeParts
  <2>2. mtime_parts(u).secs = 0 /\ mtime_parts(u).nanos = 0
    OBVIOUS
  <2> QED
    BY <2>1, <2>2, ConditionalAssumption
<1>4. s > 0 /\ t > 0 /\ mtime_parts(s) = mtime_parts(t) => s = t
  BY TimeParts
<1> QED
  BY <1>2, <1>3, <1>4

\* The tags of two versions agree exactly when the versions are alike.
LEMMA TagsApart ==
    ASSUME NEW v \in Versions, NEW w \in Versions
    PROVE  make_etag(v) = make_etag(w) <=> Alike(v, w)
<1>1. v \in [size : Nat, time : Int] /\ w \in [size : Nat, time : Int]
  BY ConditionalAssumption
<1>2. \A t \in Int : mtime_parts(t) = [secs |-> mtime_parts(t).secs, nanos |-> mtime_parts(t).nanos]
  BY DEF mtime_parts
<1>3. make_etag(v) = make_etag(w) <=> v.size = w.size /\ mtime_parts(v.time) = mtime_parts(w.time)
  BY <1>1, <1>2 DEF make_etag
<1>4. v = w <=> v.size = w.size /\ v.time = w.time
  BY <1>1
<1>5. mtime_parts(v.time) = mtime_parts(w.time)
        <=> (v.time = w.time \/ (v.time <= 0 /\ w.time <= 0))
  BY <1>1, PartsApart
<1> QED
  BY <1>3, <1>4, <1>5 DEF Alike

\* Versions that are alike have one tag, and so one date.
LEMMA AlikeValidators ==
    ASSUME NEW v \in Versions, NEW w \in Versions, Alike(v, w)
    PROVE  make_etag(v) = make_etag(w) /\ Secs(v) = Secs(w)
<1>1. make_etag(v) = make_etag(w)
  BY TagsApart
<1> QED
  BY <1>1 DEF make_etag, Secs

\* Headers that are told apart by their kind.
LEMMA Kinds ==
    /\ Absent.kind = "Absent" /\ Malformed.kind = "Malformed" /\ AnyTag.kind = "Any"
    /\ \A kind, value : Header(kind, value).kind = kind /\ Header(kind, value).value = value
  BY DEF Absent, Malformed, AnyTag, Header

-----------------------------------------------------------------------------
(* The inductive invariant: what the client's copy has to do with its validators. *)

HeaderType ==
    [kind : {"Absent", "Malformed", "Any", "Strong", "Weak", "Date"}, value : Int \X Int \X Int]

CopyType ==
    [first : Versions \cup {NoVersion}, second : Versions \cup {NoVersion},
     tag : HeaderType, date : HeaderType]

\* A second half has a first one.
Halves == copy.second # NoVersion => copy.first # NoVersion

\* The tag is the one of the first half, perhaps weakened, when there is one at all.
Tagged ==
    /\ (config.etag /\ copy.first # NoVersion) =>
          copy.tag.kind \in {"Strong", "Weak"} /\ copy.tag.value = make_etag(copy.first)
    /\ ~config.etag => copy.tag = Absent
    /\ copy.first = NoVersion => copy.tag = Absent

\* The date may come from a later answer, but never from a younger version.
Dated ==
    /\ (config.last_modified /\ copy.first # NoVersion) =>
          copy.date.kind = "Date" /\ copy.date.value[2] <= Secs(copy.first)
    /\ ~config.last_modified => copy.date = Absent

Inv ==
    /\ config \in [etag : BOOLEAN, last_modified : BOOLEAN]
    /\ file \in Versions
    /\ copy \in CopyType
    /\ Halves /\ Tagged /\ Dated
    /\ ResumedFromOneVersion
    /\ RevalidationExact

\* The validators of an answer are headers.
LEMMA SentType ==
    ASSUME NEW version \in Versions
    PROVE  TagSent(version) \in HeaderType /\ DateSent(version) \in HeaderType
<1>1. /\ make_etag(version) \in Int \X Int \X Int
      /\ last_modified(version) \in Int \X Int \X Int
  BY ConditionalAssumption DEF make_etag, last_modified, mtime_parts
<1> QED
  BY <1>1 DEF TagSent, DateSent, HeaderType, Header, Absent

\* A whole download puts the copy and its validators on one version.
LEMMA Downloaded ==
    ASSUME Inv, UNCHANGED <<config, file>>, RevalidationExact',
           \/ copy' = [copy EXCEPT !.tag = TagSent(file), !.date = DateSent(file),
                                   !.first = file, !.second = file]
           \/ copy' = [copy EXCEPT !.tag = TagSent(file), !.date = DateSent(file),
                                   !.first = file, !.second = NoVersion]
    PROVE  Inv'
<1>1. copy \in CopyType /\ file \in Versions
  BY DEF Inv
<1>2. /\ copy'.first = file /\ copy'.second \in {file, NoVersion}
      /\ copy'.tag = TagSent(file) /\ copy'.date = DateSent(file)
  BY <1>1 DEF CopyType
<1>5. copy' \in CopyType
  BY <1>1, SentType DEF CopyType
<1>6. file # NoVersion
  BY <1>1, NoVersionApart
<1>7. Halves' /\ Tagged'
  BY <1>2, <1>6 DEF Halves, Tagged, TagSent, Header, Inv
<1>8. Dated'
  <2>1. last_modified(file)[2] = Secs(file) /\ Secs(file) \in Int
    BY <1>1, SecsType DEF last_modified, Secs
  <2> QED
    BY <1>2, <2>1 DEF Dated, DateSent, Header, Inv
<1>9. ResumedFromOneVersion'
  BY <1>2 DEF ResumedFromOneVersion, Alike
<1> QED
  BY <1>5, <1>7, <1>8, <1>9 DEF Inv

\* An answer without a body leaves the copy what it was.
LEMMA Kept ==
    ASSUME Inv, file' \in Versions, UNCHANGED <<config, copy>>, RevalidationExact'
    PROVE  Inv'
  BY DEF Inv, Halves, Tagged, Dated, ResumedFromOneVersion

\* The headers of Revalidate.
Revalidation(match) ==
    [Unconditional EXCEPT !.if_none_match = copy.tag, !.if_match = match,
                          !.if_modified_since = copy.date]

\* Unless a malformed If-Match fails it, the validators alone decide whether a
\* revalidation is answered 304: the tag exactly, the date only where no tag is sent.
LEMMA RevalidatePlan ==
    ASSUME Inv, copy.second # NoVersion, NEW match \in {Absent, AnyTag, Malformed},
           NEW status, status = plan_response(Revalidation(match), file)
    PROVE  /\ status \in {200, 304, 412}
           /\ (config.etag /\ status # 412) => (status = 304 <=> Alike(copy.first, file))
           /\ (status = 304 /\ config.last_modified)
                 => Secs(file) <= copy.date.value[2] \/ Alike(copy.first, file)
<1> DEFINE h == Revalidation(match)
           e == Effective(h)
<1>1. /\ h.if_match = match /\ h.if_none_match = copy.tag
      /\ h.if_modified_since = copy.date /\ h.if_unmodified_since = Absent
      /\ h.range = FALSE
      /\ e.if_none_match = (IF config.etag THEN copy.tag ELSE Absent)
      /\ e.if_match = (IF config.etag THEN match ELSE Absent)
      /\ e.if_modified_since = (IF config.last_modified THEN copy.date ELSE Absent)
      /\ e.if_unmodified_since = Absent
  BY DEF Revalidation, Unconditional, Effective
<1>2. copy.first \in Versions /\ file \in Versions
  BY DEF Inv, Halves, CopyType
<1>4. status = (IF IfMatchFails(e, file) THEN 412
                ELSE IF IfNoneMatchFails(e, file) THEN 304 ELSE 200)
  BY <1>1 DEF plan_response, evaluate_conditionals
<1>5. CASE config.etag
  <2>1. /\ e.if_none_match.kind \in {"Strong", "Weak"}
        /\ e.if_none_match.value = make_etag(copy.first)
    BY <1>1, <1>2, <1>5, NoVersionApart DEF Inv, Tagged
  <2>2. IfNoneMatchFails(e, file) <=> make_etag(copy.first) = make_etag(file)
    <3> HIDE DEF e
    <3> QED
      BY <2>1, Kinds DEF IfNoneMatchFails, IsTag, weak_eq
  <2>3. IfNoneMatchFails(e, file) <=> Alike(copy.first, file)
    BY <1>2, <2>2, TagsApart
  <2> QED
    BY <1>4, <1>5, <2>3
<1>6. CASE ~config.etag
  <2>1. e.if_none_match = Absent
    BY <1>1, <1>6
  <2>2. config.last_modified /\ IfNoneMatchFails(e, file) => NotAfter(file, copy.date)
    <3>1. config.last_modified => e.if_modified_since = copy.date
      BY <1>1
    <3> HIDE DEF e
    <3> QED
      BY <2>1, <3>1, Kinds DEF IfNoneMatchFails, IsTag
  <2> QED
    BY <1>4, <1>6, <2>2 DEF NotAfter, Secs
<1> QED
  BY <1>5, <1>6

\* A 304 confirms the version that the client has or, where only dates are sent,
\* one that is not younger: the validators it brings keep the invariant.
LEMMA Confirmed ==
    ASSUME Inv, UNCHANGED <<config, file>>, RevalidationExact',
           copy.first # NoVersion,
           copy' = [copy EXCEPT !.tag = TagSent(file), !.date = DateSent(file)],
           config.etag => Alike(copy.first, file),
           config.last_modified => Secs(file) <= copy.date.value[2] \/ Alike(copy.first, file)
    PROVE  Inv'
<1>1. copy \in CopyType /\ file \in Versions /\ copy.first \in Versions
  BY DEF Inv, CopyType
<1>2. /\ copy'.first = copy.first /\ copy'.second = copy.second
      /\ copy'.tag = TagSent(file) /\ copy'.date = DateSent(file)
  BY <1>1 DEF CopyType
<1>5. copy' \in CopyType
  BY <1>1, SentType DEF CopyType
<1>6. Halves' /\ Tagged'
  <2>1. config.etag => make_etag(file) = make_etag(copy.first)
    BY <1>1, AlikeValidators
  <2> QED
    BY <1>2, <2>1 DEF Halves, Tagged, TagSent, Header, Inv
<1>7. Dated'
  <2>1. last_modified(file)[2] = Secs(file) /\ Secs(file) \in Int /\ Secs(copy.first) \in Int
    BY <1>1, SecsType DEF last_modified, Secs
  <2>2. copy.date.value[2] \in Int
    BY <1>1 DEF CopyType, HeaderType
  <2>3. config.last_modified => copy.date.value[2] <= Secs(copy.first)
    BY DEF Inv, Dated
  <2>4. Alike(copy.first, file) => Secs(file) = Secs(copy.first)
    BY <1>1, AlikeValidators
  <2> QED
    BY <1>2, <2>1, <2>2, <2>3, <2>4 DEF Dated, DateSent, Header, Inv
<1>8. ResumedFromOneVersion'
  BY <1>2 DEF ResumedFromOneVersion, Inv
<1> QED
  BY <1>5, <1>6, <1>7, <1>8 DEF Inv

\* The second half of a resumed download is of the version of the first one, or,
\* where only dates are sent, of one that is not younger.
LEMMA Resumed ==
    ASSUME Inv, UNCHANGED <<config, file>>, RevalidationExact',
           copy.first # NoVersion,
           copy' = [copy EXCEPT !.tag = TagSent(file), !.date = DateSent(file),
                                !.second = file],
           config.etag => Alike(copy.first, file),
           ~config.etag => config.last_modified /\ Secs(file) <= copy.date.value[2]
    PROVE  Inv'
<1>1. copy \in CopyType /\ file \in Versions /\ copy.first \in Versions
  BY DEF Inv, CopyType
<1>2. /\ copy'.first = copy.first /\ copy'.second = file
      /\ copy'.tag = TagSent(file) /\ copy'.date = DateSent(file)
  BY <1>1 DEF CopyType
<1>5. copy' \in CopyType
  BY <1>1, SentType DEF CopyType
<1>6. Halves' /\ Tagged'
  <2>1. config.etag => make_etag(file) = make_etag(copy.first)
    BY <1>1, AlikeValidators
  <2> QED
    BY <1>2, <2>1 DEF Halves, Tagged, TagSent, Header, Inv
<1>7. /\ last_modified(file)[2] = Secs(file)
      /\ last_modified(copy.first)[2] = Secs(copy.first)
      /\ Secs(file) \in Int /\ Secs(copy.first) \in Int
      /\ copy.date.value[2] \in Int
      /\ config.last_modified => copy.date.value[2] <= Secs(copy.first)
      /\ Alike(copy.first, file) => Secs(file) = Secs(copy.first)
  BY <1>1, SecsType, AlikeValidators DEF last_modified, Secs, CopyType, HeaderType, Inv, Dated
<1>8. Dated'
  BY <1>2, <1>7 DEF Dated, DateSent, Header, Inv
<1>9. ResumedFromOneVersion'
  BY <1>2, <1>7 DEF ResumedFromOneVersion, Inv
<1> QED
  BY <1>5, <1>6, <1>8, <1>9 DEF Inv

\* If-Range lets the range through for the tagged version only, or for one that
\* the date allows.
LEMMA IfRangePlan ==
    ASSUME Inv, Broken, copy.tag # Absent \/ copy.date # Absent,
           NEW h, h = [Unconditional EXCEPT !.range = TRUE,
                          !.if_range = IF copy.tag # Absent THEN copy.tag ELSE copy.date]
    PROVE  /\ plan_response(h, file) \in {200, 206, 416}
           /\ plan_response(h, file) = 206 =>
                 /\ config.etag => Alike(copy.first, file)
                 /\ ~config.etag => config.last_modified /\ Secs(file) <= copy.date.value[2]
<1> DEFINE e == Effective(h)
<1>1. /\ h.if_range = (IF copy.tag # Absent THEN copy.tag ELSE copy.date)
      /\ e.if_none_match = Absent /\ e.if_match = Absent
      /\ e.if_modified_since = Absent /\ e.if_unmodified_since = Absent
  BY DEF Unconditional, Effective
<1>2. copy.first \in Versions /\ file \in Versions
  BY DEF Inv, Broken, CopyType
<1>3. evaluate_conditionals(e, file) = "Proceed"
  <2> HIDE DEF e
  <2> QED
    BY <1>1, Kinds DEF evaluate_conditionals, IfMatchFails, IfNoneMatchFails, IsTag
<1>4. /\ plan_response(h, file) \in {200, 206, 416}
      /\ plan_response(h, file) = 206 =>
            h.if_range = Absent \/ if_range_matches(h.if_range, file)
  BY <1>3 DEF plan_response
<1>5. CASE config.etag
  <2>1. /\ copy.tag.kind \in {"Strong", "Weak"} /\ copy.tag.value = make_etag(copy.first)
    BY <1>2, <1>5, NoVersionApart DEF Inv, Tagged
  <2>2. h.if_range = copy.tag /\ copy.tag # Absent
    BY <1>1, <2>1, Kinds
  <2>3. if_range_matches(h.if_range, file) => make_etag(copy.first) = make_etag(file)
    BY <2>1, <2>2 DEF if_range_matches, strong_eq
  <2> QED
    BY <1>2, <1>4, <1>5, <2>2, <2>3, TagsApart
<1>6. CASE ~config.etag
  <2>1. copy.tag = Absent /\ copy.date # Absent
    BY <1>6 DEF Inv, Tagged
  <2>2. config.last_modified /\ copy.date.kind = "Date"
    BY <2>1 DEF Inv, Dated, Broken
  <2>3. h.if_range = copy.date
    BY <1>1, <2>1
  <2> QED
    BY <1>4, <1>6, <2>1, <2>2, <2>3 DEF if_range_matches, NotAfter, Secs
<1> QED
  BY <1>5, <1>6

\* If-Match, or If-Unmodified-Since where no tag is sent, fails for every version
\* that the second half may not come from.
LEMMA IfMatchPlan ==
    ASSUME Inv, Broken, copy.tag # Absent \/ copy.date # Absent,
           NEW h, h = [Unconditional EXCEPT !.range = TRUE, !.if_match = copy.tag,
                                            !.if_unmodified_since = copy.date]
    PROVE  /\ plan_response(h, file) \in {206, 412, 416}
           /\ plan_response(h, file) = 206 =>
                 /\ config.etag => Alike(copy.first, file)
                 /\ ~config.etag => config.last_modified /\ Secs(file) <= copy.date.value[2]
<1> DEFINE e == Effective(h)
<1>1. /\ h.if_range = Absent /\ h.range = TRUE
      /\ e.if_none_match = Absent /\ e.if_modified_since = Absent
      /\ e.if_match = (IF config.etag THEN copy.tag ELSE Absent)
      /\ e.if_unmodified_since = (IF config.last_modified THEN copy.date ELSE Absent)
  BY DEF Unconditional, Effective
<1>2. copy.first \in Versions /\ file \in Versions
  BY DEF Inv, Broken, CopyType
<1>3. ~IfNoneMatchFails(e, file)
  <2> HIDE DEF e
  <2> QED
    BY <1>1, Kinds DEF IfNoneMatchFails, IsTag
<1>4. /\ plan_response(h, file) \in {206, 412, 416}
      /\ plan_response(h, file) = 206 => ~IfMatchFails(e, file)
  BY <1>1, <1>3 DEF plan_response, evaluate_conditionals
<1>5. CASE config.etag
  <2>1. /\ e.if_match.kind \in {"Strong", "Weak"}
        /\ e.if_match.value = make_etag(copy.first)
    BY <1>1, <1>2, <1>5, NoVersionApart DEF Inv, Tagged
  <2>2. ~IfMatchFails(e, file) => make_etag(copy.first) = make_etag(file)
    <3> HIDE DEF e
    <3> QED
      BY <2>1, Kinds DEF IfMatchFails, strong_eq
  <2> QED
    BY <1>2, <1>4, <1>5, <2>2, TagsApart
<1>6. CASE ~config.etag
  <2>1. copy.tag = Absent /\ copy.date # Absent
    BY <1>6 DEF Inv, Tagged
  <2>2. config.last_modified /\ copy.date.kind = "Date"
    BY <2>1 DEF Inv, Dated, Broken
  <2>3. e.if_match = Absent /\ e.if_unmodified_since = copy.date
    BY <1>1, <1>6, <2>2
  <2>4. ~IfMatchFails(e, file) => NotAfter(file, copy.date)
    <3> HIDE DEF e
    <3> QED
      BY <2>2, <2>3 DEF IfMatchFails
  <2> QED
    BY <1>4, <1>6, <2>2, <2>4 DEF NotAfter, Secs
<1> QED
  BY <1>5, <1>6

\* A request without conditional headers gets the file.
LEMMA UnconditionalPlan == plan_response(Unconditional, file) = 200
<1> DEFINE e == Effective(Unconditional)
<1>1. /\ e.if_none_match = Absent /\ e.if_match = Absent
      /\ e.if_modified_since = Absent /\ e.if_unmodified_since = Absent
  BY DEF Unconditional, Effective
<1>2. evaluate_conditionals(e, file) = "Proceed"
  <2> HIDE DEF e
  <2> QED
    BY <1>1, Kinds DEF evaluate_conditionals, IfMatchFails, IfNoneMatchFails, IsTag
<1> QED
  BY <1>2 DEF plan_response, Unconditional

\* A request without If-None-Match says nothing of revalidation.
LEMMA NotRevalidation ==
    ASSUME NEW h, h.if_none_match = Absent, Ask(h)
    PROVE  RevalidationExact'
  BY DEF Ask, RevalidationExact

\* Every step keeps the invariant.
LEMMA InvStep == ASSUME Inv, [Next]_vars PROVE Inv'
<1>1. CASE Fetch
  <2>1. Ask(Unconditional) /\ plan_response(Unconditional, file) = 200
    BY <1>1, UnconditionalPlan DEF Fetch
  <2>2. Unconditional.if_none_match = Absent
    BY DEF Unconditional
  <2>3. RevalidationExact'
    BY <2>1, <2>2, NotRevalidation
  <2> QED
    BY <2>1, <2>3, Downloaded DEF Ask, Inv, CopyType
<1>2. CASE Revalidate
  <2>1. PICK match \in {Absent, AnyTag, Malformed} : Ask(Revalidation(match))
    BY <1>2 DEF Revalidate, Revalidation
  <2> DEFINE h == Revalidation(match)
             status == plan_response(h, file)
  <2>2. copy.second # NoVersion /\ copy.first # NoVersion
    BY <1>2 DEF Revalidate, Inv, Halves
  <2>3. /\ status \in {200, 304, 412}
        /\ (config.etag /\ status # 412) => (status = 304 <=> Alike(copy.first, file))
        /\ (status = 304 /\ config.last_modified)
              => Secs(file) <= copy.date.value[2] \/ Alike(copy.first, file)
    BY <2>2, RevalidatePlan
  <2>4. h.if_none_match = copy.tag
    BY DEF Revalidation, Unconditional
  <2>5. Ask(h)
    BY <2>1
  <2> HIDE DEF h
  <2>6. /\ exchange' = [headers |-> h, status |-> status, copy |-> copy, version |-> file]
        /\ UNCHANGED <<config, file>>
    BY <2>5 DEF Ask
  <2>7. RevalidationExact'
    BY <2>3, <2>4, <2>6 DEF RevalidationExact, Inv, Tagged
  <2>8. CASE status = 200
    BY <2>5, <2>6, <2>7, <2>8, Downloaded DEF Ask, Inv, CopyType
  <2>9. CASE status = 304
    BY <2>2, <2>3, <2>5, <2>6, <2>7, <2>9, Confirmed DEF Ask
  <2>10. CASE status = 412
    BY <2>5, <2>6, <2>7, <2>10, Kept DEF Ask, Inv
  <2> QED
    BY <2>3, <2>8, <2>9, <2>10
<1>3. CASE ResumeIfRange
  <2> DEFINE h == [Unconditional EXCEPT !.range = TRUE,
                      !.if_range = IF copy.tag # Absent THEN copy.tag ELSE copy.date]
             status == plan_response(h, file)
  <2>1. Ask(h) /\ Broken
    BY <1>3 DEF ResumeIfRange
  <2>2. /\ status \in {200, 206, 416}
        /\ status = 206 =>
              /\ config.etag => Alike(copy.first, file)
              /\ ~config.etag => config.last_modified /\ Secs(file) <= copy.date.value[2]
    BY <1>3, IfRangePlan DEF ResumeIfRange
  <2>3. h.if_none_match = Absent
    BY DEF Unconditional
  <2> HIDE DEF h
  <2>4. RevalidationExact' /\ UNCHANGED <<config, file>>
    BY <2>1, <2>3, NotRevalidation DEF Ask
  <2>5. CASE status = 200
    BY <2>1, <2>4, <2>5, Downloaded DEF Ask, Inv, CopyType
  <2>6. CASE status = 206
    BY <2>1, <2>2, <2>4, <2>6, Resumed DEF Ask, Broken, Inv, CopyType
  <2>7. CASE status = 416
    BY <2>1, <2>4, <2>7, Kept DEF Ask, Inv
  <2> QED
    BY <2>2, <2>5, <2>6, <2>7
<1>4. CASE ResumeIfMatch
  <2> DEFINE h == [Unconditional EXCEPT !.range = TRUE, !.if_match = copy.tag,
                                        !.if_unmodified_since = copy.date]
             status == plan_response(h, file)
  <2>1. Ask(h) /\ Broken
    BY <1>4 DEF ResumeIfMatch
  <2>2. /\ status \in {206, 412, 416}
        /\ status = 206 =>
              /\ config.etag => Alike(copy.first, file)
              /\ ~config.etag => config.last_modified /\ Secs(file) <= copy.date.value[2]
    BY <1>4, IfMatchPlan DEF ResumeIfMatch
  <2>3. h.if_none_match = Absent
    BY DEF Unconditional
  <2> HIDE DEF h
  <2>4. RevalidationExact' /\ UNCHANGED <<config, file>>
    BY <2>1, <2>3, NotRevalidation DEF Ask
  <2>5. CASE status = 206
    BY <2>1, <2>2, <2>4, <2>5, Resumed DEF Ask, Broken, Inv, CopyType
  <2>6. CASE status \in {412, 416}
    BY <2>1, <2>4, <2>6, Kept DEF Ask, Inv
  <2> QED
    BY <2>2, <2>5, <2>6
<1>5. CASE Weaken
  <2>1. copy' = [copy EXCEPT !.tag = Header("Weak", copy.tag.value)]
        /\ copy.tag.kind = "Strong" /\ copy \in CopyType /\ UNCHANGED <<config, file, exchange>>
    BY <1>5 DEF Weaken, Inv
  <2>2. /\ copy'.tag = Header("Weak", copy.tag.value) /\ copy'.date = copy.date
        /\ copy'.first = copy.first /\ copy'.second = copy.second
    BY <2>1 DEF CopyType
  <2>3. Header("Weak", copy.tag.value) \in HeaderType
    BY <2>1 DEF CopyType, HeaderType, Header
  <2>4. copy' \in CopyType
    BY <2>1, <2>3 DEF CopyType
  <2>5. Tagged'
    BY <2>1, <2>2, Kinds DEF Tagged, Inv
  <2> QED
    BY <2>1, <2>2, <2>4, <2>5 DEF Inv, Halves, Dated, ResumedFromOneVersion, RevalidationExact
<1>6. CASE Replace
  BY <1>6, Kept DEF Replace, Inv, RevalidationExact
<1>7. CASE UNCHANGED vars
  BY <1>7, Kept DEF vars, Inv, RevalidationExact
<1> QED
  BY <1>1, <1>2, <1>3, <1>4, <1>5, <1>6, <1>7 DEF Next

\* The invariant holds in every state of every client and file.
LEMMA InvCorrect == Spec => []Inv
<1>1. Init => Inv
  <2> SUFFICES ASSUME Init PROVE Inv
    OBVIOUS
  <2>1. Absent \in HeaderType
    BY DEF Absent, Header, HeaderType
  <2>2. copy \in CopyType
    BY <2>1 DEF Init, NoCopy, CopyType
  <2>3. /\ copy.first = NoVersion /\ copy.second = NoVersion
        /\ copy.tag = Absent /\ copy.date = Absent
    BY DEF Init, NoCopy
  <2>4. RevalidationExact
    BY DEF Init, NoExchange, Unconditional, RevalidationExact
  <2> QED
    BY <2>2, <2>3, <2>4 DEF Init, Inv, Halves, Tagged, Dated, ResumedFromOneVersion
<1>2. Inv /\ [Next]_vars => Inv'
  BY InvStep
<1> QED
  BY <1>1, <1>2, PTL DEF Spec

-----------------------------------------------------------------------------
\* Whatever versions follow each other, in whatever order and however close in
\* time, evaluate_conditionals answers a revalidation by tag with 304 exactly
\* when the client has the current version, or one that mtime_parts does not tell
\* from it: of the same size, and neither from after the epoch.
THEOREM RevalidationCorrect == Spec => []RevalidationExact
<1>1. Inv => RevalidationExact
  BY DEF Inv
<1> QED
  BY <1>1, InvCorrect, PTL

\* No download that is resumed with If-Range or If-Match is put together from two
\* versions, except from ones that a date alone does not tell apart and from two of
\* one size neither of which is from after the epoch.
THEOREM ResumeCorrect == Spec => []ResumedFromOneVersion
<1>1. Inv => ResumedFromOneVersion
  BY DEF Inv
<1> QED
  BY <1>1, InvCorrect, PTL

=============================================================================
