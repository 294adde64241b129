----------------------------- MODULE BodyProofs ------------------------------
(* Proofs about Body, for any header, any file size, policy and chunk size, and *)
(* any length of the multipart framing.                                         *)
EXTENDS Body, FiniteSetTheorems, SequenceTheorems, TLAPS

-----------------------------------------------------------------------------
(* The inductive invariant. *)

RangeType == [start : Nat, last : Nat]
PartType == [range : RangeType, header : Nat]
ChunkType == [kind : {"Inline", "File"}, offset : Nat, len : Nat]

\* The types of the variables.
Basics ==
    /\ size \in Nat /\ policy \in [allow_multi : BOOLEAN, max_parts : Nat]
    /\ specs \in Seq(SpecType) /\ rest \in Seq(SpecType) /\ saw \in BOOLEAN
    /\ valid \in Seq(RangeType)
    /\ outcome \in {"None", "Full", "Unsatisfiable", "Single", "Multi"}
    /\ announced \in Nat /\ laid \in Nat /\ framing \in BOOLEAN
    /\ todo \in Seq(PartType) /\ offset \in Nat /\ end \in Nat
    /\ chunks \in Seq(ChunkType)

Ranges == 1 .. Len(valid)

\* A spec that parse_one_spec takes for valid.
Parses(spec) ==
    /\ spec.kind # "Bad"
    /\ spec.kind \in {"Suffix", "From", "FromTo"} => spec.first <= U64Max
    /\ spec.kind = "FromTo" => spec.last <= U64Max

\* What plan_ranges decides, a number that does not fit u64 included.
Decided ==
    IF (\E i \in 1 .. Len(specs) : ~Parses(specs[i]))
         \/ \A i \in 1 .. Len(specs) : specs[i].kind = "Blank"
    THEN "Full"
    ELSE IF Cardinality(Selecting) = 0 THEN "Unsatisfiable"
    ELSE IF Cardinality(Selecting) = 1 THEN "Single"
    ELSE IF /\ policy.allow_multi /\ Cardinality(Selecting) <= policy.max_parts
            /\ \A i, j \in Selecting :
                  i < j => \A b \in Named(specs[i]), c \in Named(specs[j]) : b < c
    THEN "Multi" ELSE "Full"

OutcomeDecided == outcome # "None" => outcome = Decided

\* The specs that have been parsed, and those of them that select something.
Parsed == 1 .. Len(specs) - Len(rest)
Chosen == {i \in Parsed : Named(specs[i]) # {}}

\* A range is not empty and lies within the file.
Within(range) == range.start <= range.last /\ range.last < size

\* The ranges ascend, not only from one to the next.
Ordered == \A k, l \in Ranges : k < l => valid[k].last < valid[l].start

\* The range at f's argument was made from the spec at f's value.
MadeFrom(f) ==
    /\ \A k, l \in Ranges : k < l => f[k] < f[l]
    /\ \A k \in Ranges : Named(specs[f[k]]) = valid[k].start .. valid[k].last
    /\ \A i \in Chosen : \E k \in Ranges : f[k] = i

\* Nothing is laid out yet.
Untouched ==
    /\ announced = 0 /\ laid = 0 /\ ~framing /\ todo = <<>>
    /\ offset = 0 /\ end = 0 /\ chunks = <<>>

\* plan_ranges has made one range of each spec that selects something, in order.
Parsing ==
    /\ Len(rest) <= Len(specs)
    /\ \A k \in 1 .. Len(rest) : rest[k] = specs[Len(specs) - Len(rest) + k]
    /\ \A i \in Parsed : Parses(specs[i])
    /\ saw <=> \E i \in Parsed : specs[i].kind # "Blank"
    /\ \A k \in Ranges : Within(valid[k])
    /\ \E f \in [Ranges -> Parsed] : MadeFrom(f)
    /\ IsFiniteSet(Chosen) /\ Cardinality(Chosen) = Len(valid)
    /\ is_ascending_non_overlapping(valid) => Ordered
    /\ Untouched

\* How many parts were begun.
Begun == IF framing THEN 0 ELSE Len(valid) - Len(todo)

\* The ranges that are served, and where in them the layout is: the parts to come
\* are those of the ranges to come, with their headers.
Course ==
    /\ \A k \in Ranges : Within(valid[k])
    /\ Ordered
    /\ Wanted = UNION {valid[k].start .. valid[k].last : k \in Ranges}
    /\ Len(todo) <= Len(valid)
    /\ \A k \in 1 .. Len(todo) : /\ todo[k].range = valid[Begun + k]
                                /\ todo[k].header = PartHeader(Begun + k)
    /\ Begun = 0 => offset = 0 /\ end = 0
    /\ Begun # 0 => end = valid[Begun].last + 1 /\ offset \in valid[Begun].start .. end
    /\ IF outcome = "Multi" THEN Len(valid) > 1
       ELSE Len(valid) = 1 /\ todo = <<>> /\ ~framing

\* The file chunks carry what is wanted up to the offset, in order.
Carried ==
    /\ UNION {Of(i) : i \in FileChunks} = {b \in Wanted : b < offset}
    /\ \A i \in FileChunks : /\ chunks[i].len \in 1 .. ChunkSize
                             /\ chunks[i].offset + chunks[i].len <= offset
    /\ \A i, j \in FileChunks : i < j =>
          chunks[i].offset + chunks[i].len <= chunks[j].offset

\* g is the length of the first parts, as far as multipart_parts has made them.
Sums(g) ==
    /\ g[0] = 0
    /\ \A k \in Ranges : (framing => k <= Len(todo)) =>
          g[k] = g[k - 1] + PartHeader(k) + RangeLen(valid[k])

\* What is announced, and how much of it is laid out.
Summed ==
    \E g \in [0 .. Len(valid) -> 0 .. announced] :
        /\ Sums(g)
        /\ framing => announced = g[Len(todo)] /\ laid = 0 /\ chunks = <<>>
        /\ ~framing =>
              /\ announced = g[Len(valid)] + CloseLen
              /\ IF Terminated THEN laid = announced ELSE laid + (end - offset) = g[Begun]

Inv ==
    /\ Basics
    /\ outcome = "None" => Parsing
    /\ outcome = "Unsatisfiable" => Untouched
    /\ outcome = "Full" => end = size /\ offset <= end /\ todo = <<>> /\ ~framing
    /\ outcome \in {"Single", "Multi"} => Course
    /\ outcome \in {"Full", "Single", "Multi"} => Carried
    /\ outcome \in {"Full", "Single"} => laid + (end - offset) = announced
    /\ outcome = "Multi" => Summed
    /\ OutcomeDecided

-----------------------------------------------------------------------------
(* Parsing. *)

\* What a spec is parsed to names the same bytes as RFC 9110.
LEMMA ParseOne ==
    ASSUME size \in Nat, NEW spec \in SpecType, NEW result, result = parse_one_spec(spec)
    PROVE  \/ result = None /\ (spec.kind = "Blank" \/ ~Parses(spec))
           \/ result = Unsatisfiable /\ Parses(spec) /\ Named(spec) = {}
           \/ /\ Parses(spec)
              /\ \E range \in RangeType :
                    /\ result = Satisfiable(range) /\ Within(range)
                    /\ Named(spec) = range.start .. range.last
<1>1. U64Max \in Nat /\ spec.first \in Nat /\ spec.last \in Nat
  BY BodyAssumption DEF SpecType
<1>2. ASSUME NEW m \in Nat, NEW n \in Nat, m <= n, n < size
      PROVE  /\ ByteRange(m, n) \in RangeType /\ Within(ByteRange(m, n))
             /\ ByteRange(m, n).start = m /\ ByteRange(m, n).last = n
  BY <1>2 DEF ByteRange, RangeType, Within
<1>3. CASE spec.kind = "Suffix"
  <2>1. result = parse_suffix_spec(spec.first)
    BY <1>3 DEF parse_one_spec
  <2>2. CASE spec.first > U64Max
    BY <1>1, <1>3, <2>1, <2>2 DEF parse_suffix_spec, Parses
  <2>3. CASE spec.first <= U64Max /\ (spec.first = 0 \/ size = 0)
    <3>1. Named(spec) = {}
      BY <1>1, <1>3, <2>3 DEF Named
    <3> QED
      BY <1>1, <1>3, <2>1, <2>3, <3>1 DEF parse_suffix_spec, Parses
  <2>4. CASE spec.first <= U64Max /\ spec.first # 0 /\ size # 0 /\ spec.first >= size
    <3>1. Named(spec) = 0 .. size - 1
      BY <1>1, <1>3, <2>4 DEF Named
    <3>2. result = Satisfiable(ByteRange(0, size - 1)) /\ Parses(spec)
      BY <1>1, <1>3, <2>1, <2>4 DEF parse_suffix_spec, Parses
    <3> QED
      BY <1>2, <2>4, <3>1, <3>2
  <2>5. CASE spec.first <= U64Max /\ spec.first # 0 /\ size # 0 /\ spec.first < size
    <3>1. Named(spec) = size - spec.first .. size - 1
      BY <1>1, <1>3, <2>5 DEF Named
    <3>2. result = Satisfiable(ByteRange(size - spec.first, size - 1)) /\ Parses(spec)
      BY <1>1, <1>3, <2>1, <2>5 DEF parse_suffix_spec, Parses
    <3> QED
      BY <1>1, <1>2, <2>5, <3>1, <3>2
  <2> QED
    BY <1>1, <2>2, <2>3, <2>4, <2>5
<1>4. CASE spec.kind = "From"
  <2>1. result = IF spec.first > U64Max THEN None ELSE open_ended_spec(spec.first)
    BY <1>4 DEF parse_one_spec
  <2>2. CASE spec.first > U64Max
    BY <1>1, <1>4, <2>1, <2>2 DEF Parses
  <2>3. CASE spec.first <= U64Max /\ (size = 0 \/ spec.first >= size)
    <3>1. Named(spec) = {}
      BY <1>1, <1>4, <2>3 DEF Named
    <3> QED
      BY <1>1, <1>4, <2>1, <2>3, <3>1 DEF open_ended_spec, Parses
  <2>4. CASE spec.first <= U64Max /\ size # 0 /\ spec.first < size
    <3>1. Named(spec) = spec.first .. size - 1
      BY <1>1, <1>4, <2>4 DEF Named
    <3>2. result = Satisfiable(ByteRange(spec.first, size - 1)) /\ Parses(spec)
      BY <1>1, <1>4, <2>1, <2>4 DEF open_ended_spec, Parses
    <3> QED
      BY <1>1, <1>2, <2>4, <3>1, <3>2
  <2> QED
    BY <1>1, <2>2, <2>3, <2>4
<1>5. CASE spec.kind = "FromTo"
  <2> DEFINE last == Least(spec.last, size - 1)
  <2>1. result = IF spec.first > U64Max \/ spec.last > U64Max THEN None
                 ELSE IF spec.last < spec.first \/ size = 0 \/ spec.first >= size
                 THEN Unsatisfiable ELSE Satisfiable(ByteRange(spec.first, last))
    BY <1>5 DEF parse_one_spec
  <2>2. CASE spec.first > U64Max \/ spec.last > U64Max
    BY <1>1, <1>5, <2>1, <2>2 DEF Parses
  <2>3. CASE /\ spec.first <= U64Max /\ spec.last <= U64Max
             /\ spec.last < spec.first \/ size = 0 \/ spec.first >= size
    <3>1. Named(spec) = {}
      BY <1>1, <1>5, <2>3 DEF Named
    <3> QED
      BY <1>1, <1>5, <2>1, <2>3, <3>1 DEF Parses
  <2>4. CASE /\ spec.first <= U64Max /\ spec.last <= U64Max
             /\ spec.first <= spec.last /\ size # 0 /\ spec.first < size
    <3>1. last \in Nat /\ spec.first <= last /\ last < size
      BY <1>1, <2>4 DEF Least
    <3>2. Named(spec) = spec.first .. last
      BY <1>1, <1>5, <2>4 DEF Named, Least
    <3>3. result = Satisfiable(ByteRange(spec.first, last)) /\ Parses(spec)
      BY <1>1, <1>5, <2>1, <2>4 DEF Parses
    <3> QED
      BY <1>1, <1>2, <3>1, <3>2, <3>3
  <2> QED
    BY <1>1, <2>2, <2>3, <2>4
<1>6. CASE spec.kind \in {"Blank", "Bad"}
  BY <1>6 DEF parse_one_spec, Parses
<1> QED
  BY <1>3, <1>4, <1>5, <1>6 DEF SpecType

\* What the specs name, and what is expected of them, does not change.
LEMMA Fixed ==
    ASSUME UNCHANGED plan
    PROVE  /\ UNCHANGED <<size, policy, specs>>
           /\ \A i : Named(specs[i])' = Named(specs[i])
           /\ \A range : Within(range)' <=> Within(range)
           /\ Decided' = Decided
<1>1. UNCHANGED <<size, policy, specs>>
  BY DEF plan
<1>2. \A i : Named(specs[i])' = Named(specs[i])
  BY <1>1 DEF Named
<1>3. Selecting' = Selecting
  BY <1>1, <1>2 DEF Selecting
<1>4. \A range : Within(range)' <=> Within(range)
  BY <1>1 DEF Within
<1> QED
  BY <1>1, <1>2, <1>3, <1>4 DEF Decided

\* The spec that is parsed next.
LEMMA NextSpec ==
    ASSUME Basics, Parsing, rest # <<>>, rest' = Tail(rest), UNCHANGED plan
    PROVE  \E p \in Nat :
              /\ p = Len(specs) - Len(rest) /\ p + 1 \in 1 .. Len(specs)
              /\ Head(rest) = specs[p + 1] /\ Head(rest) \in SpecType
              /\ Parsed = 1 .. p /\ Parsed' = 1 .. p + 1
              /\ rest' \in Seq(SpecType) /\ Len(rest') <= Len(specs')
              /\ \A k \in 1 .. Len(rest') : rest'[k] = specs'[Len(specs') - Len(rest') + k]
<1> DEFINE p == Len(specs) - Len(rest)
<1>0. p = Len(specs) - Len(rest)
  OBVIOUS
<1>1. /\ specs \in Seq(SpecType) /\ rest \in Seq(SpecType) /\ Len(rest) <= Len(specs)
      /\ \A k \in 1 .. Len(rest) : rest[k] = specs[p + k]
      /\ specs' = specs
  BY DEF Basics, Parsing, plan
<1>2. /\ Len(rest) \in Nat /\ Len(rest) > 0 /\ Len(specs) \in Nat
      /\ Head(rest) = rest[1] /\ Head(rest) \in SpecType
      /\ rest' \in Seq(SpecType) /\ Len(rest') = Len(rest) - 1
      /\ \A k \in 1 .. Len(rest') : rest'[k] = rest[k + 1]
  BY <1>1
<1>3. p \in Nat /\ p + 1 \in 1 .. Len(specs) /\ Head(rest) = specs[p + 1]
  BY <1>1, <1>2
<1>4. Parsed = 1 .. p /\ Parsed' = 1 .. p + 1
  BY <1>1, <1>2 DEF Parsed
<1>5. \A k \in 1 .. Len(rest') : rest'[k] = specs'[Len(specs') - Len(rest') + k]
  <2> SUFFICES ASSUME NEW k \in 1 .. Len(rest')
               PROVE  rest'[k] = specs[Len(specs) - Len(rest') + k]
    BY <1>1
  <2>1. k + 1 \in 1 .. Len(rest) /\ p + (k + 1) = Len(specs) - Len(rest') + k
    BY <1>2
  <2> QED
    BY <1>1, <1>2, <2>1
<1> HIDE DEF p
<1>6. Len(rest') <= Len(specs')
  BY <1>1, <1>2
<1> QED
  BY <1>0, <1>2, <1>3, <1>4, <1>5, <1>6

\* A spec that selects nothing is passed over.
LEMMA Skips ==
    ASSUME Basics, Parsing, rest # <<>>, rest' = Tail(rest), UNCHANGED plan,
           Parses(Head(rest)), Named(Head(rest)) = {},
           saw' <=> saw \/ Head(rest).kind # "Blank",
           UNCHANGED <<valid, announced, layout>>
    PROVE  Parsing'
<1>1. PICK p \in Nat :
         /\ p + 1 \in 1 .. Len(specs) /\ Head(rest) = specs[p + 1]
         /\ Parsed = 1 .. p /\ Parsed' = 1 .. p + 1
         /\ Len(rest') <= Len(specs')
         /\ \A k \in 1 .. Len(rest') : rest'[k] = specs'[Len(specs') - Len(rest') + k]
  BY NextSpec
<1>2. /\ specs' = specs /\ \A i : Named(specs[i])' = Named(specs[i])
      /\ \A range : Within(range)' <=> Within(range)
  BY Fixed
<1>3. Chosen' = Chosen /\ Ranges' = Ranges /\ valid' = valid
  <2>1. \A i : i \in Parsed' <=> i \in Parsed \/ i = p + 1
    BY <1>1
  <2> QED
    BY <1>1, <1>2, <2>1 DEF Chosen, Ranges
<1>4. (\A i \in Parsed : Parses(specs[i]))'
  BY <1>1, <1>2 DEF Parsing
<1>5. (saw <=> \E i \in Parsed : specs[i].kind # "Blank")'
  BY <1>1, <1>2 DEF Parsing
<1>6. (\E f \in [Ranges -> Parsed] : MadeFrom(f))'
  <2>1. PICK f \in [Ranges -> Parsed] : MadeFrom(f)
    BY DEF Parsing
  <2>2. f \in [Ranges' -> Parsed'] /\ \A k \in Ranges : f[k] \in Parsed
    BY <1>1, <1>3, <2>1
  <2>3. MadeFrom(f)'
    BY <1>2, <1>3, <2>1 DEF MadeFrom
  <2> QED
    BY <2>2, <2>3
<1>7. (is_ascending_non_overlapping(valid) => Ordered)'
  BY <1>3 DEF Parsing, is_ascending_non_overlapping, Ordered
<1>8. Untouched'
  BY DEF Parsing, Untouched, layout
<1>9. (\A k \in Ranges : Within(valid[k]))'
  BY <1>2, <1>3 DEF Parsing
<1>10. (IsFiniteSet(Chosen) /\ Cardinality(Chosen) = Len(valid))'
  BY <1>3 DEF Parsing
<1> QED
  BY <1>1, <1>4, <1>5, <1>6, <1>7, <1>8, <1>9, <1>10 DEF Parsing

\* A spec that selects something gives a range.
LEMMA Takes ==
    ASSUME Basics, Parsing, rest # <<>>, rest' = Tail(rest), UNCHANGED plan,
           Parses(Head(rest)), Head(rest).kind # "Blank", saw' = TRUE,
           NEW range \in RangeType, Within(range), Named(Head(rest)) = range.start .. range.last,
           valid' = Append(valid, range), UNCHANGED <<announced, layout>>
    PROVE  Parsing'
<1>1. PICK p \in Nat :
         /\ p + 1 \in 1 .. Len(specs) /\ Head(rest) = specs[p + 1]
         /\ Parsed = 1 .. p /\ Parsed' = 1 .. p + 1
         /\ Len(rest') <= Len(specs')
         /\ \A k \in 1 .. Len(rest') : rest'[k] = specs'[Len(specs') - Len(rest') + k]
  BY NextSpec
<1>2. /\ specs' = specs /\ \A i : Named(specs[i])' = Named(specs[i])
      /\ \A r : Within(r)' <=> Within(r)
  BY Fixed
<1>3. PICK n \in Nat :
         /\ n = Len(valid) /\ Ranges = 1 .. n /\ Ranges' = 1 .. n + 1 /\ Len(valid') = n + 1
         /\ \A k \in 1 .. n : valid'[k] = valid[k] /\ valid[k] \in RangeType
         /\ valid'[n + 1] = range
  <2>1. PICK n \in Nat : n = Len(valid)
    BY DEF Basics
  <2>2. /\ Len(valid') = n + 1 /\ valid'[n + 1] = range
        /\ \A k \in 1 .. n : valid'[k] = valid[k] /\ valid[k] \in RangeType
    BY <2>1 DEF Basics
  <2>3. Ranges = 1 .. n /\ Ranges' = 1 .. n + 1
    BY <2>1, <2>2 DEF Ranges
  <2> QED
    BY <2>1, <2>2, <2>3
<1>4. range.start \in Nat /\ range.last \in Nat /\ range.start <= range.last
  BY DEF RangeType, Within
<1>5. Named(specs[p + 1]) # {}
  <2>1. range.start \in range.start .. range.last
    BY <1>4
  <2> QED
    BY <1>1, <2>1
<1>6. /\ p + 1 \notin Chosen /\ Chosen' = Chosen \cup {p + 1}
  <2>1. \A i : i \in Parsed' <=> i \in Parsed \/ i = p + 1
    BY <1>1
  <2>2. p + 1 \notin Parsed
    BY <1>1
  <2> QED
    BY <1>2, <1>5, <2>1, <2>2 DEF Chosen
<1>7. (IsFiniteSet(Chosen) /\ Cardinality(Chosen) = Len(valid))'
  <2>1. PICK old : old = Chosen /\ IsFiniteSet(old) /\ Cardinality(old) = n
    BY <1>3 DEF Parsing
  <2>2. PICK new : new = old \cup {p + 1}
    OBVIOUS
  <2>3. IsFiniteSet(new) /\ Cardinality(new) = n + 1
    BY <1>6, <2>1, <2>2, FS_AddElement
  <2>4. Chosen' = new
    BY <1>6, <2>1, <2>2
  <2> QED
    BY <1>3, <2>3, <2>4
<1>8. (\A i \in Parsed : Parses(specs[i]))'
  BY <1>1, <1>2 DEF Parsing
<1>9. (saw <=> \E i \in Parsed : specs[i].kind # "Blank")'
  BY <1>1, <1>2
<1>10. (\E f \in [Ranges -> Parsed] : MadeFrom(f))'
  <2>1. PICK f \in [Ranges -> Parsed] : MadeFrom(f)
    BY DEF Parsing
  <2>2. PICK g \in [1 .. n + 1 -> 1 .. p + 1] :
           g[n + 1] = p + 1 /\ \A k \in 1 .. n : g[k] = f[k] /\ g[k] \in 1 .. p
    <3> DEFINE h == [k \in 1 .. n + 1 |-> IF k = n + 1 THEN p + 1 ELSE f[k]]
    <3>0. f \in [1 .. n -> 1 .. p]
      BY <1>1, <1>3, <2>1
    <3>1. \A k \in 1 .. n : f[k] \in 1 .. p /\ k # n + 1 /\ k \in 1 .. n + 1
      BY <3>0
    <3>2. \A k \in 1 .. n + 1 : k = n + 1 \/ k \in 1 .. n
      OBVIOUS
    <3>3. h \in [1 .. n + 1 -> 1 .. p + 1]
      BY <3>1, <3>2
    <3>4. h[n + 1] = p + 1 /\ \A k \in 1 .. n : h[k] = f[k] /\ h[k] \in 1 .. p
      BY <3>1
    <3> HIDE DEF h
    <3> QED
      BY <3>3, <3>4
  <2>3. \A k, l \in 1 .. n + 1 : k < l => g[k] < g[l]
    <3> SUFFICES ASSUME NEW k \in 1 .. n + 1, NEW l \in 1 .. n + 1, k < l
                 PROVE  g[k] < g[l]
      OBVIOUS
    <3>1. k \in 1 .. n
      OBVIOUS
    <3>2. CASE l = n + 1
      BY <2>2, <3>1, <3>2
    <3>3. CASE l \in 1 .. n
      BY <1>3, <2>1, <2>2, <3>1, <3>3 DEF MadeFrom
    <3> QED
      BY <3>2, <3>3
  <2>4. \A k \in 1 .. n + 1 : Named(specs[g[k]]) = valid'[k].start .. valid'[k].last
    <3> SUFFICES ASSUME NEW k \in 1 .. n + 1
                 PROVE  Named(specs[g[k]]) = valid'[k].start .. valid'[k].last
      OBVIOUS
    <3>1. CASE k = n + 1
      BY <1>1, <1>3, <2>2, <3>1
    <3>2. CASE k \in 1 .. n
      BY <1>3, <2>1, <2>2, <3>2 DEF MadeFrom
    <3>3. k = n + 1 \/ k \in 1 .. n
      OBVIOUS
    <3> QED
      BY <3>1, <3>2, <3>3
  <2>5. \A i \in Chosen' : \E k \in 1 .. n + 1 : g[k] = i
    <3> SUFFICES ASSUME NEW i \in Chosen'
                 PROVE  \E k \in 1 .. n + 1 : g[k] = i
      OBVIOUS
    <3>1. CASE i = p + 1
      BY <2>2, <3>1
    <3>2. CASE i \in Chosen
      <4>1. PICK k \in 1 .. n : f[k] = i
        BY <1>3, <2>1, <3>2 DEF MadeFrom
      <4> QED
        BY <2>2, <4>1
    <3> QED
      BY <1>6, <3>1, <3>2
  <2>6. MadeFrom(g)'
    BY <1>2, <1>3, <2>3, <2>4, <2>5 DEF MadeFrom
  <2> QED
    BY <1>1, <1>3, <2>2, <2>6
<1>11. (is_ascending_non_overlapping(valid) => Ordered)'
  <2> SUFFICES ASSUME \A i \in 1 .. n : valid'[i + 1].start > valid'[i].last,
                      NEW k \in 1 .. n + 1, NEW l \in 1 .. n + 1, k < l
               PROVE  valid'[k].last < valid'[l].start
    BY <1>3 DEF is_ascending_non_overlapping, Ordered
  <2>1. \A i \in 1 .. n : valid[i].start \in Nat /\ valid[i].last \in Nat
                          /\ valid[i].start <= valid[i].last
    BY <1>3 DEF Parsing, Within, RangeType
  <2>2. Ordered
    <3>1. ASSUME NEW i \in 1 .. n - 1 PROVE valid[i + 1].start > valid[i].last
      <4>1. i \in 1 .. n /\ i + 1 \in 1 .. n
        OBVIOUS
      <4> QED
        BY <1>3, <4>1
    <3> QED
      BY <1>3, <3>1 DEF Parsing, is_ascending_non_overlapping
  <2>3. k \in 1 .. n /\ n \in 1 .. n
    OBVIOUS
  <2>4. CASE l \in 1 .. n
    BY <1>3, <2>2, <2>3, <2>4 DEF Ordered
  <2>5. CASE l = n + 1
    <3>1. valid[n].last < range.start
      BY <1>3, <2>3
    <3>2. valid[k].last <= valid[n].last
      BY <1>3, <2>1, <2>2, <2>3 DEF Ordered
    <3> QED
      BY <1>3, <1>4, <2>1, <2>3, <2>5, <3>1, <3>2
  <2>6. l = n + 1 \/ l \in 1 .. n
    OBVIOUS
  <2> QED
    BY <2>4, <2>5, <2>6
<1>12. Untouched'
  BY DEF Parsing, Untouched, layout
<1>13. (\A k \in Ranges : Within(valid[k]))'
  <2>1. ASSUME NEW k \in 1 .. n + 1 PROVE Within(valid'[k])
    BY <1>3 DEF Parsing
  <2> QED
    BY <1>2, <1>3, <2>1
<1> QED
  BY <1>1, <1>7, <1>8, <1>9, <1>10, <1>11, <1>12, <1>13 DEF Parsing

-----------------------------------------------------------------------------
(* The end of plan_ranges. *)

\* Ranges that ascend from one to the next are those of specs that name ascending
\* bytes.
LEMMA AscendingBytes ==
    ASSUME Basics, Parsing
    PROVE  is_ascending_non_overlapping(valid) <=>
              \A i, j \in Chosen : i < j => \A b \in Named(specs[i]), c \in Named(specs[j]) : b < c
<1>1. PICK f \in [Ranges -> Parsed] : MadeFrom(f)
  BY DEF Parsing
<1>2. PICK n \in Nat : n = Len(valid) /\ Ranges = 1 .. n
  BY DEF Basics, Ranges
<1>3. \A k \in 1 .. n : /\ valid[k].start \in Nat /\ valid[k].last \in Nat
                        /\ valid[k].start <= valid[k].last
                        /\ Named(specs[f[k]]) = valid[k].start .. valid[k].last
                        /\ f[k] \in Int
  <2> SUFFICES ASSUME NEW k \in 1 .. n
               PROVE  /\ valid[k].start \in Nat /\ valid[k].last \in Nat
                      /\ valid[k].start <= valid[k].last
                      /\ Named(specs[f[k]]) = valid[k].start .. valid[k].last
                      /\ f[k] \in Int
    OBVIOUS
  <2>1. valid[k] \in RangeType
    BY <1>2 DEF Basics
  <2>2. valid[k].start <= valid[k].last
    BY <1>2 DEF Parsing, Within
  <2>3. f[k] \in Parsed /\ Named(specs[f[k]]) = valid[k].start .. valid[k].last
    BY <1>1, <1>2 DEF MadeFrom
  <2> QED
    BY <2>1, <2>2, <2>3 DEF RangeType, Parsed
<1>4. \A k, l \in 1 .. n : k < l => f[k] < f[l]
  BY <1>1, <1>2 DEF MadeFrom
<1>5. ASSUME is_ascending_non_overlapping(valid),
             NEW i \in Chosen, NEW j \in Chosen, i < j,
             NEW b \in Named(specs[i]), NEW c \in Named(specs[j])
      PROVE  b < c
  <2>1. PICK k \in 1 .. n, l \in 1 .. n : f[k] = i /\ f[l] = j
    BY <1>1, <1>2 DEF MadeFrom
  <2>2. k < l
    <3>1. CASE k = l
      BY <1>3, <1>5, <2>1, <3>1
    <3>2. CASE l < k
      BY <1>3, <1>4, <1>5, <2>1, <3>2
    <3> QED
      BY <3>1, <3>2
  <2>3. valid[k].last < valid[l].start
    BY <1>2, <1>5, <2>2 DEF Parsing, Ordered
  <2>4. b \in valid[k].start .. valid[k].last /\ c \in valid[l].start .. valid[l].last
    BY <1>3, <1>5, <2>1
  <2> QED
    BY <1>3, <2>3, <2>4
<1>6. ASSUME \A i, j \in Chosen :
                i < j => \A b \in Named(specs[i]), c \in Named(specs[j]) : b < c,
             NEW k \in 1 .. n - 1
      PROVE  valid[k + 1].start > valid[k].last
  <2>1. k \in 1 .. n /\ k + 1 \in 1 .. n /\ k < k + 1
    OBVIOUS
  <2>2. /\ valid[k].last \in Named(specs[f[k]]) /\ valid[k + 1].start \in Named(specs[f[k + 1]])
        /\ f[k] \in Parsed /\ f[k + 1] \in Parsed /\ f[k] < f[k + 1]
    <3>1. \A j \in 1 .. n : /\ valid[j].last \in Named(specs[f[j]])
                            /\ valid[j].start \in Named(specs[f[j]])
      BY <1>3
    <3>2. f[k] \in Parsed /\ f[k + 1] \in Parsed
      BY <1>1, <1>2, <2>1
    <3>3. f[k] < f[k + 1]
      BY <1>4, <2>1
    <3> QED
      BY <2>1, <3>1, <3>2, <3>3
  <2>3. f[k] \in Chosen /\ f[k + 1] \in Chosen
    BY <2>2 DEF Chosen
  <2>4. valid[k].last < valid[k + 1].start
    BY <1>6, <2>2, <2>3
  <2> QED
    BY <1>3, <2>1, <2>4
<1> QED
  BY <1>2, <1>5, <1>6 DEF is_ascending_non_overlapping

\* What is expected, once all specs are parsed.
LEMMA ParsedAll ==
    ASSUME Basics, Parsing, rest = <<>>
    PROVE  /\ ~saw => Decided = "Full"
           /\ saw /\ Len(valid) = 0 => Decided = "Unsatisfiable"
           /\ saw /\ Len(valid) = 1 => Decided = "Single"
           /\ Len(valid) > 1 => Decided = IF ServesMulti THEN "Multi" ELSE "Full"
           /\ Len(valid) > 0 => saw
           /\ UNION {Named(specs[i]) : i \in 1 .. Len(specs)}
                = UNION {valid[k].start .. valid[k].last : k \in Ranges}
<1>1. Parsed = 1 .. Len(specs) /\ Chosen = Selecting
  BY DEF Basics, Parsed, Chosen, Selecting
<1>2. Cardinality(Selecting) = Len(valid) /\ Len(valid) \in Nat
  BY <1>1 DEF Parsing, Basics
<1>3. \A i \in 1 .. Len(specs) : Parses(specs[i])
  BY <1>1 DEF Parsing
<1>4. saw <=> \E i \in 1 .. Len(specs) : specs[i].kind # "Blank"
  BY <1>1 DEF Parsing
<1>5. PICK f \in [Ranges -> Parsed] : MadeFrom(f)
  BY DEF Parsing
<1>6. Len(valid) > 0 => saw
  <2> SUFFICES ASSUME Len(valid) > 0 PROVE saw
    OBVIOUS
  <2>1. 1 \in Ranges
    BY <1>2 DEF Ranges
  <2>2. valid[1].start \in Named(specs[f[1]]) /\ f[1] \in 1 .. Len(specs)
    <3>1. valid[1] \in RangeType /\ valid[1].start <= valid[1].last
      BY <2>1 DEF Parsing, Within, Basics, Ranges
    <3>2. f[1] \in Parsed /\ Named(specs[f[1]]) = valid[1].start .. valid[1].last
      BY <1>5, <2>1 DEF MadeFrom
    <3> QED
      BY <1>1, <3>1, <3>2 DEF RangeType
  <2>3. specs[f[1]].kind # "Blank"
    BY <2>2 DEF Named
  <2> QED
    BY <1>4, <2>2, <2>3
<1>7. ServesMulti <=>
        /\ policy.allow_multi /\ Cardinality(Selecting) <= policy.max_parts
        /\ \A i, j \in Selecting :
              i < j => \A b \in Named(specs[i]), c \in Named(specs[j]) : b < c
  BY <1>1, <1>2, AscendingBytes DEF ServesMulti
<1>8. ~saw => Decided = "Full"
  BY <1>4 DEF Decided
<1>9. saw => Decided = IF Cardinality(Selecting) = 0 THEN "Unsatisfiable"
                        ELSE IF Cardinality(Selecting) = 1 THEN "Single"
                        ELSE IF ServesMulti THEN "Multi" ELSE "Full"
  BY <1>3, <1>4, <1>7 DEF Decided
<1>10. UNION {Named(specs[i]) : i \in 1 .. Len(specs)}
         = UNION {valid[k].start .. valid[k].last : k \in Ranges}
  <2>1. ASSUME NEW i \in 1 .. Len(specs), NEW b \in Named(specs[i])
        PROVE  \E k \in Ranges : b \in valid[k].start .. valid[k].last
    <3>1. i \in Chosen
      BY <1>1, <2>1 DEF Chosen
    <3> QED
      BY <1>5, <2>1, <3>1 DEF MadeFrom
  <2>2. ASSUME NEW k \in Ranges, NEW b \in valid[k].start .. valid[k].last
        PROVE  \E i \in 1 .. Len(specs) : b \in Named(specs[i])
    BY <1>1, <1>5, <2>2 DEF MadeFrom
  <2> QED
    BY <2>1, <2>2
<1> QED
  BY <1>2, <1>6, <1>8, <1>9, <1>10

\* Nothing is carried before the first chunk.
LEMMA CarriedNone ==
    ASSUME size' \in Nat, offset' = 0, chunks' = <<>>
    PROVE  Carried'
<1>1. FileChunks' = {}
  BY DEF FileChunks
<1>2. Wanted' \subseteq Nat
  BY DEF Wanted, Named
<1>3. {b \in Wanted' : b < 0} = {}
  <2>1. ASSUME NEW b \in Wanted' PROVE ~(b < 0)
    <3>1. b \in Nat
      BY <1>2
    <3> QED
      BY <3>1
  <2> QED
    BY <2>1
<1> QED
  BY <1>1, <1>3 DEF Carried

\* The whole file is served.
LEMMA FullInv ==
    ASSUME Basics, Parsing, UNCHANGED plan, Full, Decided = "Full",
           rest' \in Seq(SpecType), saw' \in BOOLEAN, UNCHANGED valid
    PROVE  Inv'
<1>1. /\ outcome' = "Full" /\ announced' = size /\ offset' = 0 /\ end' = size
      /\ UNCHANGED <<framing, todo, chunks, laid, size, policy, specs>>
      /\ Decided' = "Full"
  BY Fixed DEF Full
<1>2. announced = 0 /\ laid = 0 /\ ~framing /\ todo = <<>> /\ chunks = <<>>
  BY DEF Parsing, Untouched
<1>3. Basics'
  BY <1>1 DEF Basics
<1>4. Carried'
  BY <1>1, <1>2, CarriedNone DEF Basics
<1> QED
  BY <1>1, <1>2, <1>3, <1>4 DEF Inv, OutcomeDecided, Basics

\* A spec is parsed.
LEMMA ParseInv ==
    ASSUME Inv, ParseSpec
    PROVE  Inv'
<1> DEFINE spec == Head(rest)
<1>1. outcome = "None" /\ rest # <<>> /\ UNCHANGED plan /\ Basics /\ Parsing
  BY DEF ParseSpec, Inv
<1>2. rest \in Seq(SpecType) /\ Tail(rest) \in Seq(SpecType) /\ spec \in SpecType
      /\ <<>> \in Seq(SpecType)
  BY <1>1 DEF Basics
<1>3. size \in Nat /\ valid \in Seq(RangeType) /\ saw \in BOOLEAN
  BY <1>1 DEF Basics
<1>4. PICK result : result = parse_one_spec(spec)
  OBVIOUS
<1>5. ASSUME Parsing', outcome' = "None", Basics' PROVE Inv'
  BY <1>5 DEF Inv, OutcomeDecided
<1>6. CASE spec.kind = "Blank"
  <2>1. rest' = Tail(rest) /\ UNCHANGED <<saw, valid, outcome, announced, layout>>
    BY <1>6 DEF ParseSpec
  <2>2. Parses(spec) /\ Named(spec) = {}
    BY <1>6 DEF Parses, Named
  <2>3. Parsing'
    BY <1>1, <1>6, <2>1, <2>2, Skips
  <2>4. Basics'
    BY <1>1, <1>2, <2>1 DEF Basics, plan, layout
  <2> QED
    BY <1>1, <1>5, <2>1, <2>3, <2>4
<1>7. CASE spec.kind # "Blank" /\ result = None
  <2>1. Full /\ rest' = <<>> /\ saw' = TRUE /\ UNCHANGED valid
    BY <1>4, <1>7 DEF ParseSpec
  <2>2. ~Parses(spec)
    BY <1>2, <1>3, <1>4, <1>7, ParseOne DEF None, Unsatisfiable, Satisfiable
  <2>3. Decided = "Full"
    <3>1. \E i \in 1 .. Len(specs) : spec = specs[i]
      <4>1. Len(rest) \in Nat /\ Len(rest) > 0 /\ spec = rest[1] /\ Len(specs) \in Nat
        BY <1>1, <1>2 DEF Basics
      <4>2. Len(rest) <= Len(specs) /\ rest[1] = specs[Len(specs) - Len(rest) + 1]
        BY <1>1, <4>1 DEF Parsing
      <4> QED
        BY <4>1, <4>2
    <3> QED
      BY <2>2, <3>1 DEF Decided
  <2> QED
    BY <1>1, <1>2, <2>1, <2>3, FullInv
<1>8. CASE spec.kind # "Blank" /\ result = Unsatisfiable
  <2>0. Unsatisfiable # None
    BY DEF Unsatisfiable, None
  <2>1. rest' = Tail(rest) /\ saw' = TRUE /\ UNCHANGED <<valid, outcome, announced, layout>>
    BY <1>4, <1>8, <2>0 DEF ParseSpec
  <2>2. Parses(spec) /\ Named(spec) = {}
    BY <1>2, <1>3, <1>4, <1>8, ParseOne DEF None, Unsatisfiable, Satisfiable
  <2>3. Parsing'
    BY <1>1, <1>8, <2>1, <2>2, Skips
  <2>4. Basics'
    BY <1>1, <1>2, <2>1 DEF Basics, plan, layout
  <2> QED
    BY <1>1, <1>5, <2>1, <2>3, <2>4
<1>9. CASE spec.kind # "Blank" /\ result # None /\ result # Unsatisfiable
  <2>1. /\ rest' = Tail(rest) /\ saw' = TRUE /\ UNCHANGED <<outcome, announced, layout>>
        /\ valid' = Append(valid, result[2])
    BY <1>4, <1>9 DEF ParseSpec
  <2>2. Parses(spec)
    BY <1>2, <1>3, <1>4, <1>9, ParseOne
  <2>3. PICK range \in RangeType : /\ result = Satisfiable(range) /\ Within(range)
                                    /\ Named(spec) = range.start .. range.last
    BY <1>2, <1>3, <1>4, <1>9, ParseOne
  <2>4. result[2] = range
    BY <2>3 DEF Satisfiable
  <2>5. valid' = Append(valid, range) /\ valid' \in Seq(RangeType)
    BY <1>3, <2>1, <2>3, <2>4
  <2>6. Parsing'
    BY <1>1, <1>9, <2>1, <2>2, <2>3, <2>5, Takes
  <2>7. Basics'
    BY <1>1, <1>2, <2>1, <2>5 DEF Basics, plan, layout
  <2> QED
    BY <1>1, <1>5, <2>1, <2>6, <2>7
<1> QED
  BY <1>6, <1>7, <1>8, <1>9

\* plan_ranges ends with the whole file, with one range or with none.
LEMMA PlanSimpleInv ==
    ASSUME Inv, PlanSimple
    PROVE  Inv'
<1>1. /\ outcome = "None" /\ rest = <<>> /\ UNCHANGED <<plan, parsing>> /\ Basics /\ Parsing
      /\ Len(valid) > 1 => ~ServesMulti
  BY DEF PlanSimple, Inv
<1>2. UNCHANGED <<rest, saw, valid, size, policy, specs>> /\ Decided' = Decided
  BY <1>1, Fixed DEF parsing
<1>3. Len(valid) \in Nat
  BY <1>1 DEF Basics
<1>4. CASE ~saw \/ Len(valid) > 1
  <2>1. Full
    BY <1>4 DEF PlanSimple
  <2>2. Decided = "Full"
    BY <1>1, <1>4, ParsedAll
  <2> QED
    BY <1>1, <1>2, <2>1, <2>2, FullInv DEF Basics
<1>5. CASE saw /\ ~(Len(valid) > 1) /\ valid = <<>>
  <2>1. outcome' = "Unsatisfiable" /\ UNCHANGED <<announced, layout>>
    BY <1>5 DEF PlanSimple
  <2>2. Decided = "Unsatisfiable"
    <3>1. Len(valid) = 0
      BY <1>5
    <3> QED
      BY <1>1, <1>5, <3>1, ParsedAll
  <2>3. Untouched'
    BY <1>1, <2>1 DEF Parsing, Untouched, layout
  <2>4. Basics'
    BY <1>1, <1>2, <2>1 DEF Basics, layout
  <2> QED
    BY <1>2, <2>1, <2>2, <2>3, <2>4 DEF Inv, OutcomeDecided
<1>6. CASE saw /\ ~(Len(valid) > 1) /\ valid # <<>>
  <2>1. /\ outcome' = "Single" /\ announced' = RangeLen(valid[1])
        /\ offset' = valid[1].start /\ end' = valid[1].start + RangeLen(valid[1])
        /\ UNCHANGED <<framing, todo, chunks, laid>>
    BY <1>6 DEF PlanSimple
  <2>2. Len(valid) = 1
    <3>1. valid \in Seq(RangeType)
      BY <1>1 DEF Basics
    <3>2. Len(valid) # 0
      BY <1>6, <3>1
    <3>3. ~(Len(valid) > 1)
      BY <1>6
    <3> QED
      BY <1>3, <3>2, <3>3
  <2>3. Decided = "Single"
    BY <1>1, <1>6, <2>2, ParsedAll
  <2>4. announced = 0 /\ laid = 0 /\ ~framing /\ todo = <<>> /\ chunks = <<>>
    BY <1>1 DEF Parsing, Untouched
  <2>5. /\ valid[1].start \in Nat /\ valid[1].last \in Nat
        /\ valid[1].start <= valid[1].last /\ valid[1].last < size
    <3>0. valid \in Seq(RangeType)
      BY <1>1 DEF Basics
    <3>1. 1 \in Ranges /\ valid[1] \in RangeType
      BY <2>2, <3>0 DEF Ranges
    <3>2. Within(valid[1])
      BY <1>1, <3>1 DEF Parsing
    <3> QED
      BY <3>1, <3>2 DEF RangeType, Within
  <2>6. /\ announced' = valid[1].last - valid[1].start + 1 /\ announced' \in Nat
        /\ offset' = valid[1].start /\ end' = valid[1].last + 1
        /\ end' - offset' = announced' /\ offset' <= end'
    BY <2>1, <2>5 DEF RangeLen
  <2>7. Basics'
    BY <1>1, <1>2, <2>1, <2>5, <2>6 DEF Basics
  <2>8. Ranges' = {1} /\ Ranges = {1}
    BY <1>2, <2>2 DEF Ranges
  <2>9. Wanted' = valid[1].start .. valid[1].last
    <3>1. UNION {Named(specs[i]) : i \in 1 .. Len(specs)} = valid[1].start .. valid[1].last
      BY <1>1, <2>8, ParsedAll
    <3>2. \A i : Named(specs[i])' = Named(specs[i])
      BY <1>1, Fixed
    <3> QED
      BY <1>2, <2>1, <3>1, <3>2 DEF Wanted
  <2>10. Begun' = 1
    BY <1>2, <2>1, <2>2, <2>4 DEF Begun
  <2>11. Course'
    <3>1. (\A k \in Ranges : Within(valid[k]))'
      BY <1>2, <2>5, <2>8 DEF Within
    <3>2. Ordered'
      BY <2>8 DEF Ordered
    <3>3. Wanted' = UNION {valid'[k].start .. valid'[k].last : k \in Ranges'}
      BY <1>2, <2>8, <2>9
    <3>4. todo' = <<>> /\ Len(todo') = 0 /\ Len(valid') = 1 /\ ~framing' /\ outcome' # "Multi"
      BY <1>2, <2>1, <2>2, <2>4
    <3>5. end' = valid'[1].last + 1 /\ offset' \in valid'[1].start .. end'
      BY <1>2, <2>5, <2>6
    <3> QED
      BY <2>10, <3>1, <3>2, <3>3, <3>4, <3>5 DEF Course
  <2>12. Carried'
    <3>1. FileChunks' = {}
      BY <2>1, <2>4 DEF FileChunks
    <3>2. {b \in Wanted' : b < offset'} = {}
      BY <2>5, <2>6, <2>9
    <3> QED
      BY <3>1, <3>2 DEF Carried
  <2> QED
    BY <1>2, <2>1, <2>3, <2>4, <2>6, <2>7, <2>11, <2>12 DEF Inv, OutcomeDecided
<1> QED
  BY <1>4, <1>5, <1>6 DEF Basics

-----------------------------------------------------------------------------
(* multipart_parts. *)

\* What the layout does not touch.
LEMMA Stays ==
    ASSUME Inv, UNCHANGED <<plan, parsing, outcome>>
    PROVE  /\ UNCHANGED <<size, policy, specs, rest, saw, valid, Ranges, Wanted>>
           /\ Ordered' = Ordered /\ \A range : Within(range)' <=> Within(range)
           /\ OutcomeDecided'
<1>1. /\ UNCHANGED <<size, policy, specs, rest, saw, valid>> /\ Decided' = Decided
      /\ \A i : Named(specs[i])' = Named(specs[i])
      /\ \A range : Within(range)' <=> Within(range)
  BY Fixed DEF parsing
<1>2. Ranges' = Ranges
  BY <1>1 DEF Ranges
<1>3. Wanted' = Wanted
  BY <1>1 DEF Wanted
<1>4. Ordered' = Ordered
  BY <1>1, <1>2 DEF Ordered
<1> QED
  BY <1>1, <1>2, <1>3, <1>4 DEF Inv, OutcomeDecided

\* The lengths of headers.
LEMMA Headers == ASSUME NEW k \in Nat PROVE PartHeader(k) \in Nat
  BY BodyAssumption DEF PartHeader

\* plan_ranges ends with several ranges.
LEMMA PlanMultiInv ==
    ASSUME Inv, PlanMulti
    PROVE  Inv'
<1>1. /\ outcome = "None" /\ rest = <<>> /\ Len(valid) > 1 /\ ServesMulti /\ outcome' = "Multi"
      /\ framing' = TRUE /\ Basics /\ Parsing /\ UNCHANGED <<plan, parsing>>
      /\ UNCHANGED <<announced, todo, offset, end, chunks, laid>>
  BY DEF PlanMulti, Inv
<1>2. /\ UNCHANGED <<rest, saw, valid, size, policy, specs>> /\ Decided' = Decided
      /\ \A i : Named(specs[i])' = Named(specs[i])
      /\ \A range : Within(range)' <=> Within(range)
  BY <1>1, Fixed DEF parsing
<1>3. Decided = "Multi"
  BY <1>1, ParsedAll
<1>4. announced = 0 /\ laid = 0 /\ todo = <<>> /\ chunks = <<>> /\ offset = 0 /\ end = 0
  BY <1>1 DEF Parsing, Untouched
<1>5. Basics'
  BY <1>1, <1>2 DEF Basics
<1>6. Carried'
  BY <1>1, <1>4, <1>5, CarriedNone DEF Basics
<1>7. PICK n \in Nat : n = Len(valid) /\ n > 1
  BY <1>1 DEF Basics
<1>8. Course'
  <2>1. Ranges' = Ranges /\ Begun' = 0
    BY <1>1, <1>2 DEF Ranges, Begun
  <2>2. Ordered'
    BY <1>1, <1>2, <2>1 DEF Parsing, ServesMulti, Ordered
  <2>3. (\A k \in Ranges : Within(valid[k]))'
    BY <1>1, <1>2, <2>1 DEF Parsing
  <2>4. Wanted' = UNION {valid'[k].start .. valid'[k].last : k \in Ranges'}
    <3>1. UNION {Named(specs[i]) : i \in 1 .. Len(specs)}
            = UNION {valid[k].start .. valid[k].last : k \in Ranges}
      BY <1>1, ParsedAll
    <3>2. Wanted' = UNION {Named(specs[i]) : i \in 1 .. Len(specs)}
      BY <1>1, <1>2 DEF Wanted
    <3> QED
      BY <1>2, <2>1, <3>1, <3>2
  <2>5. Len(todo') = 0 /\ Len(valid') = n
    BY <1>1, <1>2, <1>4, <1>7
  <2> QED
    BY <1>1, <1>4, <1>7, <2>1, <2>2, <2>3, <2>4, <2>5 DEF Course
<1>9. Summed'
  <2> DEFINE g == [k \in 0 .. n |-> 0]
  <2>1. g \in [0 .. n -> 0 .. 0] /\ g[0] = 0
    OBVIOUS
  <2> HIDE DEF g
  <2>2. Len(todo') = 0 /\ Len(valid') = n /\ announced' = 0 /\ laid' = 0 /\ chunks' = <<>>
    BY <1>1, <1>2, <1>4, <1>7
  <2>3. Sums(g)'
    BY <1>1, <2>1, <2>2 DEF Sums, Ranges
  <2> QED
    BY <1>1, <2>1, <2>2, <2>3 DEF Summed
<1> QED
  BY <1>1, <1>2, <1>3, <1>5, <1>6, <1>8, <1>9 DEF Inv, OutcomeDecided

\* A part is made.
LEMMA MakePartInv ==
    ASSUME Inv, MakePart
    PROVE  Inv'
<1> DEFINE index == Len(todo) + 1
           part == [range |-> valid[index], header |-> PartHeader(index)]
           more == PartHeader(index) + RangeLen(valid[index])
<1>1. /\ framing /\ Len(todo) < Len(valid) /\ todo' = Append(todo, part)
      /\ announced' = announced + PartHeader(index) + RangeLen(valid[index])
      /\ UNCHANGED <<plan, parsing, outcome, framing, offset, end, chunks, laid>>
  BY DEF MakePart
<1>2. Basics /\ outcome = "Multi" /\ Course /\ Carried /\ Summed
  BY <1>1 DEF Inv, Parsing, Untouched, Course, Basics
<1>3. /\ UNCHANGED <<size, policy, specs, rest, saw, valid, Ranges, Wanted>>
      /\ Ordered' = Ordered /\ \A range : Within(range)' <=> Within(range)
      /\ OutcomeDecided'
  BY <1>1, Stays
<1>4. PICK m \in Nat, n \in Nat :
        m = Len(todo) /\ n = Len(valid) /\ m < n /\ index = m + 1 /\ index \in 1 .. n
  BY <1>1, <1>2 DEF Basics
<1>5. /\ valid[index] \in RangeType /\ part \in PartType
      /\ part.range = valid[index] /\ part.header = PartHeader(index)
      /\ valid[index].start <= valid[index].last
  <2>1. index \in Ranges /\ valid[index] \in RangeType
    BY <1>2, <1>4 DEF Ranges, Basics
  <2>2. PartHeader(index) \in Nat
    BY <1>4, Headers
  <2>3. Within(valid[index])
    BY <1>2, <2>1 DEF Course
  <2> QED
    BY <2>1, <2>2, <2>3 DEF PartType, Within
<1>6. more \in Nat /\ announced' = announced + more /\ announced \in Nat
  <2>1. PartHeader(index) \in Nat
    BY <1>4, Headers
  <2>2. RangeLen(valid[index]) \in Nat
    BY <1>5 DEF RangeLen, RangeType
  <2> QED
    BY <1>1, <1>2, <2>1, <2>2 DEF Basics
<1> HIDE DEF index, part, more
<1>7. /\ todo' \in Seq(PartType) /\ Len(todo') = m + 1 /\ todo'[m + 1] = part
      /\ \A k \in 1 .. m : todo'[k] = todo[k]
  BY <1>1, <1>2, <1>4, <1>5 DEF Basics
<1>8. Basics'
  <2>1. announced' \in Nat
    BY <1>6
  <2> QED
    BY <1>1, <1>2, <1>3, <1>7, <2>1 DEF Basics
<1>9. Begun' = 0 /\ Begun = 0
  BY <1>1 DEF Begun
<1>10. Course'
  <2>1. ASSUME NEW k \in 1 .. m + 1
        PROVE  todo'[k].range = valid[k] /\ todo'[k].header = PartHeader(k)
    <3>1. CASE k = m + 1
      BY <1>4, <1>5, <1>7, <3>1
    <3>2. CASE k \in 1 .. m
      BY <1>2, <1>4, <1>7, <1>9, <3>2 DEF Course
    <3>3. k = m + 1 \/ k \in 1 .. m
      OBVIOUS
    <3> QED
      BY <3>1, <3>2, <3>3
  <2>2. \A k \in 1 .. Len(todo') : /\ todo'[k].range = valid'[Begun' + k]
                                   /\ todo'[k].header = PartHeader(Begun' + k)
    BY <1>3, <1>7, <1>9, <2>1
  <2>3. Len(todo') <= Len(valid')
    BY <1>3, <1>4, <1>7
  <2> QED
    BY <1>1, <1>2, <1>3, <1>9, <2>2, <2>3 DEF Course
<1>11. Carried'
  BY <1>1, <1>2, <1>3 DEF Carried, FileChunks, Of
<1>12. Summed'
  <2>1. PICK g \in [0 .. n -> 0 .. announced] :
           Sums(g) /\ announced = g[m] /\ laid = 0 /\ chunks = <<>>
    BY <1>1, <1>2, <1>4 DEF Summed
  <2>2. PICK h \in [0 .. n -> 0 .. announced'] :
           h[m + 1] = announced' /\ \A k \in 0 .. m : h[k] = g[k]
    <3> DEFINE f == [k \in 0 .. n |-> IF k = m + 1 THEN announced' ELSE g[k]]
    <3>1. f \in [0 .. n -> 0 .. announced']
      BY <1>6, <2>1
    <3>2. f[m + 1] = announced' /\ \A k \in 0 .. m : f[k] = g[k]
      BY <1>4
    <3> HIDE DEF f
    <3> QED
      BY <3>1, <3>2
  <2>3. Sums(h)'
    <3>1. h[0] = 0
      BY <2>1, <2>2 DEF Sums
    <3>2. ASSUME NEW k \in 1 .. n, k <= m + 1
          PROVE  h[k] = h[k - 1] + PartHeader(k) + RangeLen(valid[k])
      <4>1. CASE k = m + 1
        BY <1>1, <1>4, <2>1, <2>2, <4>1
      <4>2. CASE k <= m
        <5>1. k \in 0 .. m /\ k - 1 \in 0 .. m
          BY <4>2
        <5>2. g[k] = g[k - 1] + PartHeader(k) + RangeLen(valid[k])
          BY <1>1, <1>4, <2>1, <4>2 DEF Sums, Ranges
        <5> QED
          BY <2>2, <5>1, <5>2
      <4> QED
        BY <3>2, <4>1, <4>2
    <3>3. Ranges' = 1 .. n
      BY <1>3, <1>4 DEF Ranges
    <3> QED
      BY <1>1, <1>3, <1>7, <3>1, <3>2, <3>3 DEF Sums
  <2> QED
    BY <1>1, <1>3, <1>4, <1>7, <2>1, <2>2, <2>3 DEF Summed
<1> QED
  BY <1>1, <1>2, <1>3, <1>8, <1>10, <1>11, <1>12 DEF Inv

\* All parts are made, and the terminator is counted.
LEMMA EndPartsInv ==
    ASSUME Inv, EndParts
    PROVE  Inv'
<1>1. /\ framing /\ Len(todo) = Len(valid) /\ framing' = FALSE
      /\ announced' = announced + CloseLen
      /\ UNCHANGED <<plan, parsing, outcome, todo, offset, end, chunks, laid>>
  BY DEF EndParts, FramedLength
<1>2. Basics /\ outcome = "Multi" /\ Course /\ Carried /\ Summed
  BY <1>1 DEF Inv, Parsing, Untouched, Course, Basics
<1>3. /\ UNCHANGED <<size, policy, specs, rest, saw, valid, Ranges, Wanted>>
      /\ Ordered' = Ordered /\ \A range : Within(range)' <=> Within(range)
      /\ OutcomeDecided'
  BY <1>1, Stays
<1>4. announced \in Nat /\ CloseLen \in Nat /\ announced' \in Nat
  BY <1>1, <1>2, BodyAssumption DEF Basics
<1>5. Basics'
  BY <1>1, <1>2, <1>3, <1>4 DEF Basics
<1>6. PICK n \in Nat : n = Len(valid) /\ n = Len(todo) /\ n > 1
  BY <1>1, <1>2 DEF Basics, Course
<1>7. Begun = 0 /\ Begun' = 0
  BY <1>1, <1>3, <1>6 DEF Begun
<1>8. Course'
  BY <1>1, <1>2, <1>3, <1>7 DEF Course
<1>9. Carried'
  BY <1>1, <1>2, <1>3 DEF Carried, FileChunks, Of
<1>10. Summed'
  <2>1. PICK g \in [0 .. n -> 0 .. announced] :
           Sums(g) /\ announced = g[n] /\ laid = 0 /\ chunks = <<>>
    BY <1>1, <1>2, <1>6 DEF Summed
  <2>2. g \in [0 .. n -> 0 .. announced'] /\ announced' = g[n] + CloseLen
    BY <1>1, <1>4, <2>1
  <2>3. Sums(g)'
    <3>1. Ranges = 1 .. n
      BY <1>6 DEF Ranges
    <3> QED
      BY <1>1, <1>3, <1>6, <2>1, <3>1 DEF Sums
  <2>4. ~Terminated'
    BY <1>1, <1>6 DEF Terminated
  <2>5. laid' + (end' - offset') = g[Begun']
    BY <1>1, <1>2, <1>7, <2>1 DEF Course, Sums
  <2> QED
    BY <1>1, <1>3, <1>6, <2>2, <2>3, <2>4, <2>5 DEF Summed
<1> QED
  BY <1>1, <1>2, <1>3, <1>5, <1>8, <1>9, <1>10 DEF Inv

-----------------------------------------------------------------------------
(* The layout. *)

\* An inline chunk carries no byte of the file.
LEMMA PushesInline ==
    ASSUME Basics, Carried, NEW len \in Nat, chunks' = Append(chunks, Inline(len)),
           UNCHANGED Wanted, offset' \in Nat, offset <= offset',
           \A b \in Wanted : b < offset' => b < offset, Wanted \subseteq Nat
    PROVE  Carried' /\ chunks' \in Seq(ChunkType) /\ chunks'[Len(chunks')].kind = "Inline"
<1> DEFINE chunk == Inline(len)
<1>1. chunk \in ChunkType /\ chunk.kind = "Inline"
  BY DEF Inline, ChunkType
<1>2. chunks' = Append(chunks, chunk)
  OBVIOUS
<1> HIDE DEF chunk
<1>3. PICK n \in Nat :
        /\ n = Len(chunks) /\ Len(chunks') = n + 1 /\ chunks' \in Seq(ChunkType)
        /\ chunks'[n + 1] = chunk /\ \A i \in 1 .. n : chunks'[i] = chunks[i]
  BY <1>1, <1>2 DEF Basics
<1>4. FileChunks' = FileChunks /\ FileChunks \subseteq 1 .. n
  <2>1. ASSUME NEW i PROVE i \in FileChunks' <=> i \in FileChunks
    <3>1. i \in 1 .. n + 1 <=> i \in 1 .. n \/ i = n + 1
      BY <1>3
    <3> QED
      BY <1>1, <1>3, <3>1 DEF FileChunks
  <2> QED
    BY <1>3, <2>1 DEF FileChunks
<1>5. \A i \in FileChunks : Of(i)' = Of(i) /\ chunks'[i] = chunks[i] /\ chunks[i] \in ChunkType
  BY <1>3, <1>4 DEF Of, Basics
<1>6. UNION {Of(i)' : i \in FileChunks'} = UNION {Of(i) : i \in FileChunks}
  BY <1>4, <1>5
<1>7. {b \in Wanted : b < offset'} = {b \in Wanted : b < offset}
  <2>1. ASSUME NEW b \in Wanted PROVE b < offset' <=> b < offset
    BY DEF Basics
  <2> QED
    BY <2>1
<1>8. \A i \in FileChunks' : /\ chunks'[i].len \in 1 .. ChunkSize
                             /\ chunks'[i].offset + chunks'[i].len <= offset'
  <2> SUFFICES ASSUME NEW i \in FileChunks
               PROVE  /\ chunks[i].len \in 1 .. ChunkSize
                      /\ chunks[i].offset + chunks[i].len <= offset'
    BY <1>4, <1>5
  <2>1. /\ chunks[i].len \in 1 .. ChunkSize /\ chunks[i].offset + chunks[i].len <= offset
        /\ chunks[i].offset \in Nat /\ offset \in Nat
    BY <1>5 DEF Carried, ChunkType, Basics
  <2> QED
    BY <2>1
<1>9. \A i, j \in FileChunks' : i < j =>
        chunks'[i].offset + chunks'[i].len <= chunks'[j].offset
  BY <1>4, <1>5 DEF Carried
<1>10. Carried'
  BY <1>6, <1>7, <1>8, <1>9 DEF Carried
<1> QED
  BY <1>1, <1>3, <1>10

\* A chunk of the file carries the bytes that follow.
LEMMA PushesFile ==
    ASSUME Basics, Carried, NEW len \in 1 .. ChunkSize, chunks' = Append(chunks, File(offset, len)),
           UNCHANGED Wanted, offset' = offset + len,
           \A b \in offset .. offset + len - 1 : b \in Wanted, Wanted \subseteq Nat
    PROVE  Carried' /\ chunks' \in Seq(ChunkType) /\ chunks'[Len(chunks')].kind = "File"
<1> DEFINE chunk == File(offset, len)
<1>0. len \in Nat /\ len >= 1 /\ offset \in Nat /\ ChunkSize \in Nat
  BY BodyAssumption DEF Basics
<1>1. chunk \in ChunkType /\ chunk.kind = "File" /\ chunk.offset = offset /\ chunk.len = len
  BY <1>0 DEF File, ChunkType
<1>2. chunks' = Append(chunks, chunk)
  OBVIOUS
<1> HIDE DEF chunk
<1>3. PICK n \in Nat :
        /\ n = Len(chunks) /\ Len(chunks') = n + 1 /\ chunks' \in Seq(ChunkType)
        /\ chunks'[n + 1] = chunk /\ \A i \in 1 .. n : chunks'[i] = chunks[i]
  BY <1>1, <1>2 DEF Basics
<1>4. /\ FileChunks' = FileChunks \cup {n + 1} /\ FileChunks \subseteq 1 .. n
      /\ n + 1 \notin FileChunks
  <2>1. ASSUME NEW i PROVE i \in FileChunks' <=> i \in FileChunks \/ i = n + 1
    <3>1. i \in 1 .. n + 1 <=> i \in 1 .. n \/ i = n + 1
      BY <1>3
    <3> QED
      BY <1>1, <1>3, <3>1 DEF FileChunks
  <2> QED
    BY <1>3, <2>1 DEF FileChunks
<1>5. \A i \in FileChunks : Of(i)' = Of(i) /\ chunks'[i] = chunks[i] /\ chunks[i] \in ChunkType
  BY <1>3, <1>4 DEF Of, Basics
<1>6. Of(n + 1)' = offset .. offset + len - 1
  BY <1>1, <1>3 DEF Of
<1>7. UNION {Of(i)' : i \in FileChunks'}
        = (UNION {Of(i) : i \in FileChunks}) \cup (offset .. offset + len - 1)
  <2> DEFINE new == offset .. offset + len - 1
  <2> HIDE DEF new
  <2>1. Of(n + 1)' = new
    BY <1>6 DEF new
  <2>2. UNION {Of(i)' : i \in FileChunks'} = (UNION {Of(i) : i \in FileChunks}) \cup new
    <3>1. ASSUME NEW b
          PROVE  (\E i \in FileChunks' : b \in Of(i)')
                   <=> (\E i \in FileChunks : b \in Of(i)) \/ b \in new
      <4>1. (\E i \in FileChunks' : b \in Of(i)')
              <=> (\E i \in FileChunks : b \in Of(i)') \/ b \in Of(n + 1)'
        BY <1>4
      <4>2. (\E i \in FileChunks : b \in Of(i)') <=> \E i \in FileChunks : b \in Of(i)
        BY <1>5
      <4> QED
        BY <2>1, <4>1, <4>2
    <3> QED
      BY <3>1
  <2> QED
    BY <2>2 DEF new
<1>8. {b \in Wanted : b < offset'} =
        {b \in Wanted : b < offset} \cup (offset .. offset + len - 1)
  <2>1. ASSUME NEW b \in Nat
        PROVE  b < offset' <=> b < offset \/ b \in offset .. offset + len - 1
    BY <1>0
  <2>2. \A b \in offset .. offset + len - 1 : b \in Wanted /\ b \in Nat
    BY <1>0
  <2> QED
    BY <2>1, <2>2
<1>9. \A i \in FileChunks : /\ chunks[i].len \in 1 .. ChunkSize /\ chunks[i].offset \in Nat
                            /\ chunks[i].offset + chunks[i].len <= offset
  BY <1>5 DEF Carried, ChunkType
<1>10. \A i \in FileChunks' : /\ chunks'[i].len \in 1 .. ChunkSize
                              /\ chunks'[i].offset + chunks'[i].len <= offset'
  <2> SUFFICES ASSUME NEW i \in FileChunks'
               PROVE  /\ chunks'[i].len \in 1 .. ChunkSize
                      /\ chunks'[i].offset + chunks'[i].len <= offset'
    OBVIOUS
  <2>1. CASE i = n + 1
    BY <1>0, <1>1, <1>3, <2>1
  <2>2. CASE i \in FileChunks
    <3>1. chunks'[i] = chunks[i]
      BY <1>5, <2>2
    <3>2. /\ chunks[i].len \in 1 .. ChunkSize /\ chunks[i].offset \in Nat
          /\ chunks[i].offset + chunks[i].len <= offset
      BY <1>9, <2>2
    <3>3. PICK m \in Nat, l \in Nat : m = chunks[i].offset /\ l = chunks[i].len
      BY <1>0, <3>2
    <3>4. m + l <= offset'
      BY <1>0, <3>2, <3>3
    <3> QED
      BY <3>1, <3>2, <3>3, <3>4
  <2> QED
    BY <1>4, <2>1, <2>2
<1>11. \A i, j \in FileChunks' : i < j =>
         chunks'[i].offset + chunks'[i].len <= chunks'[j].offset
  <2> SUFFICES ASSUME NEW i \in FileChunks', NEW j \in FileChunks', i < j
               PROVE  chunks'[i].offset + chunks'[i].len <= chunks'[j].offset
    OBVIOUS
  <2>1. i \in FileChunks
    <3>1. i \in 1 .. n + 1 /\ j \in 1 .. n + 1
      BY <1>3 DEF FileChunks
    <3>2. i # n + 1
      BY <3>1
    <3> QED
      BY <1>4, <3>2
  <2>2. CASE j = n + 1
    BY <1>1, <1>3, <1>5, <1>9, <2>1, <2>2
  <2>3. CASE j \in FileChunks
    BY <1>5, <2>1, <2>3 DEF Carried
  <2> QED
    BY <1>4, <2>2, <2>3
<1>12. Carried'
  <2>1. UNION {Of(i) : i \in FileChunks} = {b \in Wanted : b < offset}
    BY DEF Carried
  <2>2. UNION {Of(i)' : i \in FileChunks'} = {b \in Wanted : b < offset'}
    BY <1>7, <1>8, <2>1
  <2> QED
    BY <1>10, <1>11, <2>2 DEF Carried
<1> QED
  BY <1>1, <1>3, <1>12

\* The bytes of the range that is being laid out are wanted.
LEMMA CurrentWanted ==
    ASSUME Inv, outcome \in {"Full", "Single", "Multi"}
    PROVE  /\ Wanted \subseteq Nat
           /\ \A b \in offset .. end - 1 : b \in Wanted
<1>1. Basics /\ size \in Nat
  BY DEF Inv, Basics
<1>2. Wanted \subseteq Nat
  BY <1>1 DEF Wanted, Named
<1>3. CASE outcome = "Full"
  BY <1>1, <1>3 DEF Inv, Basics, Wanted
<1>4. CASE outcome # "Full" /\ Begun = 0
  <2>1. Course
    BY <1>4 DEF Inv
  <2>2. offset = 0 /\ end = 0
    BY <1>4, <2>1 DEF Course
  <2> QED
    BY <1>2, <2>2
<1>5. CASE outcome # "Full" /\ Begun # 0
  <2>1. Course
    BY <1>5 DEF Inv
  <2>2. Begun \in Ranges
    BY <1>1, <1>5, <2>1 DEF Begun, Ranges, Course, Basics
  <2>3. valid[Begun] \in RangeType
    BY <1>1, <2>2 DEF Basics, Ranges
  <2>4. end = valid[Begun].last + 1 /\ offset \in valid[Begun].start .. end
    BY <1>5, <2>1 DEF Course
  <2>5. \A b \in offset .. end - 1 : b \in valid[Begun].start .. valid[Begun].last
    <3>1. PICK s \in Nat, l \in Nat : s = valid[Begun].start /\ l = valid[Begun].last
      BY <2>3 DEF RangeType
    <3>2. offset \in Nat /\ end \in Nat
      BY <1>1 DEF Basics
    <3> QED
      BY <2>4, <3>1, <3>2
  <2> QED
    BY <1>2, <2>1, <2>2, <2>5 DEF Course
<1> QED
  BY <1>2, <1>3, <1>4, <1>5

\* file_chunks pushes a chunk.
LEMMA PushFileChunkInv ==
    ASSUME Inv, PushFileChunk
    PROVE  Inv'
<1>1. PICK len : /\ len = ChunkLen /\ offset < end /\ chunks' = Append(chunks, File(offset, len))
                 /\ laid' = laid + len /\ offset' = offset + len
                 /\ UNCHANGED <<plan, parsing, outcome, announced, framing, todo, end>>
  <2>1. File(offset, ChunkLen).len = ChunkLen
    BY DEF File
  <2> QED
    BY <2>1 DEF PushFileChunk, Push
<1>2. Basics /\ offset \in Nat /\ end \in Nat /\ laid \in Nat
  BY DEF Inv, Basics
<1>3. outcome \in {"Full", "Single", "Multi"} /\ Carried
  <2>1. outcome # "None" /\ outcome # "Unsatisfiable"
    <3>1. ~Untouched
      BY <1>1 DEF Untouched
    <3> QED
      BY <3>1 DEF Inv, Parsing
  <2> QED
    BY <1>2, <2>1 DEF Inv, Basics
<1>4. len \in 1 .. ChunkSize /\ len \in Nat /\ len <= end - offset
  BY <1>1, <1>2, BodyAssumption DEF ChunkLen, Least
<1>5. /\ UNCHANGED <<size, policy, specs, rest, saw, valid, Ranges, Wanted>>
      /\ Ordered' = Ordered /\ \A range : Within(range)' <=> Within(range)
      /\ OutcomeDecided'
  BY <1>1, Stays
<1>6. Carried' /\ chunks' \in Seq(ChunkType) /\ chunks'[Len(chunks')].kind = "File"
  <2>1. Wanted \subseteq Nat /\ \A b \in offset .. end - 1 : b \in Wanted
    BY <1>3, CurrentWanted
  <2>2. \A b \in offset .. offset + len - 1 : b \in offset .. end - 1
    BY <1>2, <1>4
  <2> QED
    BY <1>1, <1>2, <1>3, <1>4, <1>5, <2>1, <2>2, PushesFile
<1>7. /\ offset' \in Nat /\ laid' \in Nat /\ offset <= offset' /\ offset' <= end'
      /\ laid' + (end' - offset') = laid + (end - offset)
  BY <1>1, <1>2, <1>4
<1>8. Basics'
  BY <1>1, <1>2, <1>5, <1>6, <1>7 DEF Basics
<1>9. ~Terminated /\ ~Terminated'
  BY <1>1, <1>2, <1>6 DEF Terminated
<1>10. ASSUME outcome \in {"Single", "Multi"} PROVE Course' /\ Begun # 0
  <2>1. Course
    BY <1>10 DEF Inv
  <2>2. Begun' = Begun
    BY <1>1, <1>5 DEF Begun
  <2>3. Begun # 0
    BY <1>1, <2>1 DEF Course
  <2>4. end = valid[Begun].last + 1 /\ offset \in valid[Begun].start .. end
    BY <2>1, <2>3 DEF Course
  <2>5. Begun \in Ranges /\ valid[Begun] \in RangeType
    <3>1. Begun \in Ranges
      BY <1>2, <2>1, <2>3 DEF Begun, Ranges, Course, Basics
    <3> QED
      BY <1>2, <3>1 DEF Basics, Ranges
  <2>6. offset' \in valid[Begun].start .. end'
    <3>1. PICK s \in Nat : s = valid[Begun].start
      BY <2>5 DEF RangeType
    <3>2. s <= offset
      BY <1>2, <2>4, <3>1
    <3> QED
      BY <1>2, <1>7, <3>1, <3>2
  <2> QED
    BY <1>1, <1>5, <2>1, <2>2, <2>3, <2>4, <2>6 DEF Course
<1>11. ASSUME outcome = "Multi" PROVE Summed'
  <2>1. ~framing /\ Begun' = Begun
    BY <1>1, <1>5, <1>10, <1>11 DEF Begun
  <2>2. PICK g \in [0 .. Len(valid) -> 0 .. announced] :
           /\ Sums(g) /\ announced = g[Len(valid)] + CloseLen
           /\ laid + (end - offset) = g[Begun]
    BY <1>9, <1>11, <2>1 DEF Inv, Summed
  <2>3. Sums(g)'
    BY <1>1, <1>5, <2>2 DEF Sums
  <2>4. laid' + (end' - offset') = g[Begun']
    BY <1>7, <2>1, <2>2
  <2> QED
    BY <1>1, <1>5, <1>9, <2>1, <2>2, <2>3, <2>4 DEF Summed
<1>12. outcome = "Full" => end' = size' /\ offset' <= end' /\ todo' = <<>> /\ ~framing'
  BY <1>1, <1>5, <1>7 DEF Inv
<1>13. outcome \in {"Full", "Single"} => laid' + (end' - offset') = announced'
  BY <1>1, <1>7 DEF Inv
<1> QED
  BY <1>1, <1>3, <1>5, <1>6, <1>8, <1>10, <1>11, <1>12, <1>13 DEF Inv

\* The header of a part is pushed, and its range comes next.
LEMMA PushPartInv ==
    ASSUME Inv, PushPart
    PROVE  Inv'
<1> DEFINE part == Head(todo)
<1>1. /\ ~framing /\ offset = end /\ todo # <<>> /\ todo' = Tail(todo)
      /\ chunks' = Append(chunks, Inline(part.header)) /\ laid' = laid + part.header
      /\ offset' = part.range.start /\ end' = part.range.start + RangeLen(part.range)
      /\ UNCHANGED <<plan, parsing, outcome, announced, framing>>
  BY DEF PushPart, Push, Inline
<1> HIDE DEF part
<1>2. Basics /\ outcome = "Multi" /\ Course /\ Carried /\ Summed
  <2>1. ~Untouched
    BY <1>1 DEF Untouched
  <2>2. outcome # "None" /\ outcome # "Unsatisfiable" /\ outcome # "Full"
    BY <1>1, <2>1 DEF Inv, Parsing
  <2>3. outcome # "Single"
    BY <1>1 DEF Inv, Course
  <2> QED
    BY <2>2, <2>3 DEF Inv, Basics
<1>3. /\ UNCHANGED <<size, policy, specs, rest, saw, valid, Ranges, Wanted>>
      /\ Ordered' = Ordered /\ \A range : Within(range)' <=> Within(range)
      /\ OutcomeDecided'
  BY <1>1, Stays
<1>4. PICK m \in Nat, n \in Nat :
        /\ m = Len(todo) /\ n = Len(valid) /\ m <= n /\ m >= 1 /\ part = todo[1]
        /\ todo' \in Seq(PartType) /\ Len(todo') = m - 1
        /\ \A j \in 1 .. m - 1 : todo'[j] = todo[j + 1]
  BY <1>1, <1>2 DEF Basics, Course, part
<1>5. PICK k \in 1 .. n : k = n - m + 1 /\ Begun = k - 1 /\ Begun' = k
  <2>1. Begun = n - m
    BY <1>1, <1>4 DEF Begun
  <2>2. Begun' = n - (m - 1)
    BY <1>1, <1>3, <1>4 DEF Begun
  <2> QED
    BY <1>4, <2>1, <2>2
<1> DEFINE Bounds(j) == /\ valid[j].start \in Nat /\ valid[j].last \in Nat
                       /\ valid[j].start <= valid[j].last
<1>bounds. \A j \in Ranges : Bounds(j)
  <2> SUFFICES ASSUME NEW j \in Ranges PROVE Bounds(j)
    OBVIOUS
  <2>1. valid[j] \in RangeType
    BY <1>2 DEF Basics, Ranges
  <2>2. Within(valid[j])
    BY <1>2 DEF Course
  <2> QED
    BY <2>1, <2>2 DEF RangeType, Within
<1>6. part.range = valid[k] /\ part.header = PartHeader(k) /\ k \in Ranges
  <2>1. /\ todo[1].range = valid[Begun + 1] /\ todo[1].header = PartHeader(Begun + 1)
    BY <1>2, <1>4 DEF Course
  <2> QED
    BY <1>4, <1>5, <2>1 DEF Ranges
<1>7. PICK s \in Nat, l \in Nat, h \in Nat :
        /\ s = valid[k].start /\ l = valid[k].last /\ s <= l /\ h = PartHeader(k)
        /\ RangeLen(valid[k]) = l - s + 1
  BY <1>6, <1>bounds, Headers DEF RangeLen
<1>8. offset' = s /\ end' = l + 1 /\ offset \in Nat /\ end \in Nat /\ laid \in Nat
  <2>1. offset' = s /\ end' = s + (l - s + 1)
    BY <1>1, <1>6, <1>7
  <2>2. end' = l + 1
    BY <1>7, <2>1
  <2> QED
    BY <1>2, <2>1, <2>2 DEF Basics
<1>9. offset <= s
  <2>1. CASE k = 1
    <3>1. offset = 0
      BY <1>2, <1>5, <2>1 DEF Course
    <3> QED
      BY <3>1
  <2>2. CASE k # 1
    <3>1. k - 1 \in Ranges /\ k - 1 < k
      BY <1>4, <1>5, <2>2 DEF Ranges
    <3>2. valid[k - 1].last < s
      BY <1>2, <1>6, <1>7, <3>1 DEF Course, Ordered
    <3>3. end = valid[k - 1].last + 1 /\ valid[k - 1] \in RangeType
      BY <1>2, <1>5, <2>2, <3>1 DEF Course, Basics, Ranges
    <3> QED
      BY <1>1, <1>7, <3>2, <3>3 DEF RangeType
  <2> QED
    BY <2>1, <2>2
<1>10. ASSUME NEW b \in Wanted, b < s PROVE b < offset
  <2>1. PICK j \in Ranges : b \in valid[j].start .. valid[j].last
    BY <1>2 DEF Course
  <2>2. PICK s2 \in Nat, l2 \in Nat : s2 = valid[j].start /\ l2 = valid[j].last
    BY <1>bounds, <2>1
  <2>3. b \in Nat /\ s2 <= b /\ b <= l2 /\ j \in Nat
    BY <1>4, <2>1, <2>2 DEF Ranges
  <2>4. j < k
    <3>1. j # k
      BY <1>7, <1>10, <2>2, <2>3
    <3>2. ~(k < j)
      <4>1. SUFFICES ASSUME k < j PROVE FALSE
        OBVIOUS
      <4>2. l < s2
        BY <1>2, <1>6, <1>7, <2>1, <2>2, <4>1 DEF Course, Ordered
      <4> QED
        BY <1>7, <1>10, <2>3, <4>2
    <3> QED
      BY <2>3, <3>1, <3>2
  <2>5. k - 1 \in Ranges /\ Begun # 0 /\ j <= k - 1
    BY <1>4, <1>5, <2>1, <2>3, <2>4 DEF Ranges
  <2>6. PICK e \in Nat : e = valid[k - 1].last /\ end = e + 1
    <3>1. end = valid[Begun].last + 1
      BY <1>2, <2>5 DEF Course
    <3> QED
      BY <1>5, <1>bounds, <2>5, <3>1
  <2>7. l2 <= e
    <3>1. CASE j = k - 1
      BY <2>2, <2>6, <3>1
    <3>2. CASE j < k - 1
      <4>1. l2 < valid[k - 1].start
        BY <1>2, <2>1, <2>2, <2>5, <3>2 DEF Course, Ordered
      <4>2. valid[k - 1].start <= e /\ valid[k - 1].start \in Nat
        BY <1>bounds, <2>5, <2>6
      <4> QED
        BY <2>2, <2>6, <4>1, <4>2
    <3> QED
      BY <2>3, <2>5, <3>1, <3>2
  <2> QED
    BY <1>1, <2>3, <2>6, <2>7
<1>11. Carried' /\ chunks' \in Seq(ChunkType) /\ chunks'[Len(chunks')].kind = "Inline"
  <2>1. Wanted \subseteq Nat
    BY <1>2, CurrentWanted
  <2>2. chunks' = Append(chunks, Inline(h))
    BY <1>1, <1>6, <1>7
  <2> QED
    BY <1>2, <1>3, <1>8, <1>9, <1>10, <2>1, <2>2, PushesInline
<1>12. Basics'
  <2>1. offset' \in Nat /\ end' \in Nat /\ laid' \in Nat
    <3>1. laid' = laid + h
      BY <1>1, <1>6, <1>7
    <3> QED
      BY <1>8, <3>1
  <2> QED
    BY <1>1, <1>2, <1>3, <1>4, <1>11, <2>1 DEF Basics
<1>13. Course'
  <2>1. ASSUME NEW j \in 1 .. m - 1
        PROVE  todo'[j].range = valid[k + j] /\ todo'[j].header = PartHeader(k + j)
    <3>1. j + 1 \in 1 .. m /\ Begun + (j + 1) = k + j
      BY <1>4, <1>5
    <3>2. /\ todo[j + 1].range = valid[Begun + (j + 1)]
          /\ todo[j + 1].header = PartHeader(Begun + (j + 1))
      BY <1>2, <1>4, <3>1 DEF Course
    <3> QED
      BY <1>4, <3>1, <3>2
  <2>2. \A j \in 1 .. Len(todo') : /\ todo'[j].range = valid'[Begun' + j]
                                   /\ todo'[j].header = PartHeader(Begun' + j)
    BY <1>3, <1>4, <1>5, <2>1
  <2>3. Len(todo') <= Len(valid') /\ Len(valid') > 1
    BY <1>2, <1>3, <1>4 DEF Course
  <2>4. Begun' # 0 /\ end' = valid'[Begun'].last + 1 /\ offset' \in valid'[Begun'].start .. end'
    BY <1>3, <1>5, <1>7, <1>8
  <2> QED
    BY <1>1, <1>2, <1>3, <2>2, <2>3, <2>4 DEF Course
<1>14. Summed'
  <2>1. ~Terminated /\ ~Terminated'
    BY <1>1, <1>7, <1>8 DEF Terminated
  <2>2. PICK g \in [0 .. n -> 0 .. announced] :
           /\ Sums(g) /\ announced = g[n] + CloseLen /\ laid + (end - offset) = g[Begun]
    BY <1>1, <1>2, <1>4, <2>1 DEF Summed
  <2>3. Sums(g)'
    BY <1>1, <1>3, <2>2 DEF Sums
  <2>4. laid' + (end' - offset') = g[k]
    <3>1. g[k] = g[k - 1] + h + (l - s + 1)
      BY <1>1, <1>6, <1>7, <2>2 DEF Sums
    <3>2. laid + (end - offset) = g[k - 1] /\ offset = end /\ laid' = laid + h
      BY <1>1, <1>5, <1>6, <1>7, <2>2
    <3>3. PICK p \in Nat : p = g[k - 1]
      BY <1>8, <3>2
    <3>4. p = laid
      BY <1>8, <3>2, <3>3
    <3>5. laid' = p + h /\ end' = l + 1 /\ offset' = s
      BY <1>8, <3>2, <3>4
    <3>6. laid' + (end' - offset') = (p + h) + ((l + 1) - s)
      BY <3>5
    <3>7. (p + h) + ((l + 1) - s) = p + h + (l - s + 1)
      OBVIOUS
    <3> QED
      BY <3>1, <3>3, <3>6, <3>7
  <2> QED
    BY <1>1, <1>3, <1>4, <1>5, <2>1, <2>2, <2>3, <2>4 DEF Summed
<1> QED
  BY <1>1, <1>2, <1>3, <1>11, <1>12, <1>13, <1>14 DEF Inv

\* The terminator is pushed.
LEMMA PushTerminatorInv ==
    ASSUME Inv, PushTerminator
    PROVE  Inv'
<1>1. /\ outcome = "Multi" /\ ~framing /\ offset = end /\ todo = <<>> /\ ~Terminated
      /\ chunks' = Append(chunks, Inline(CloseLen)) /\ laid' = laid + CloseLen
      /\ UNCHANGED <<plan, parsing, outcome, announced, framing, todo, offset, end>>
  BY DEF PushTerminator, Push, Inline
<1>2. Basics /\ Course /\ Carried /\ Summed
  BY <1>1 DEF Inv
<1>3. /\ UNCHANGED <<size, policy, specs, rest, saw, valid, Ranges, Wanted>>
      /\ Ordered' = Ordered /\ \A range : Within(range)' <=> Within(range)
      /\ OutcomeDecided'
  BY <1>1, Stays
<1>4. CloseLen \in Nat /\ laid \in Nat /\ offset \in Nat /\ end \in Nat /\ announced \in Nat
  BY <1>2, BodyAssumption DEF Basics
<1>5. Carried' /\ chunks' \in Seq(ChunkType) /\ chunks'[Len(chunks')].kind = "Inline"
  <2>1. Wanted \subseteq Nat
    BY <1>1, CurrentWanted
  <2>2. offset' \in Nat /\ offset <= offset' /\ \A b \in Wanted : b < offset' => b < offset
    BY <1>1, <1>4
  <2> QED
    BY <1>1, <1>2, <1>3, <1>4, <2>1, <2>2, PushesInline
<1>6. Basics'
  <2>1. laid' \in Nat
    BY <1>1, <1>4
  <2> QED
    BY <1>1, <1>2, <1>3, <1>5, <2>1 DEF Basics
<1>7. Begun' = Begun /\ Begun = Len(valid)
  <2>1. Len(valid) \in Nat /\ Len(todo) = 0
    BY <1>1, <1>2 DEF Basics
  <2> QED
    BY <1>1, <1>3, <2>1 DEF Begun
<1>8. Course'
  BY <1>1, <1>2, <1>3, <1>7 DEF Course
<1>9. Terminated'
  <2>1. chunks' # <<>>
    BY <1>1, <1>2 DEF Basics
  <2> QED
    BY <1>1, <1>5, <2>1 DEF Terminated
<1>10. Summed'
  <2>1. PICK g \in [0 .. Len(valid) -> 0 .. announced] :
           /\ Sums(g) /\ announced = g[Len(valid)] + CloseLen
           /\ laid + (end - offset) = g[Len(valid)]
    BY <1>1, <1>2, <1>7 DEF Summed
  <2>2. laid' = announced'
    <3>1. PICK p \in Nat : p = g[Len(valid)]
      BY <1>1, <1>4, <2>1
    <3>2. p = laid /\ announced = p + CloseLen
      BY <1>1, <1>4, <2>1, <3>1
    <3> QED
      BY <1>1, <3>2
  <2>3. Sums(g)'
    BY <1>1, <1>3, <2>1 DEF Sums
  <2> QED
    BY <1>1, <1>3, <1>9, <2>1, <2>2, <2>3 DEF Summed
<1> QED
  BY <1>1, <1>2, <1>3, <1>5, <1>6, <1>8, <1>10 DEF Inv

-----------------------------------------------------------------------------
(* The theorems. *)

\* The invariant holds when a request has arrived.
LEMMA InvInit == Init => Inv
<1> SUFFICES ASSUME Init PROVE Inv
  OBVIOUS
<1>1. /\ size \in Sizes /\ policy \in Policies /\ rest = specs /\ saw = FALSE /\ valid = <<>>
      /\ outcome = "None" /\ announced = 0 /\ framing = FALSE /\ todo = <<>> /\ offset = 0
      /\ end = 0 /\ chunks = <<>> /\ laid = 0
  BY DEF Init
<1>2. specs \in Seq(SpecType)
  <2>1. PICK n \in 0 .. MaxSpecs : specs \in [1 .. n -> Specs]
    BY DEF Init
  <2>2. n \in Nat /\ Specs \subseteq SpecType
    BY BodyAssumption
  <2>3. specs \in [1 .. n -> SpecType]
    BY <2>1, <2>2
  <2> QED
    BY <2>2, <2>3, SeqDef
<1>3. PICK n \in Nat : n = Len(specs)
  BY <1>2
<1>4. Basics
  <2>1. size \in Nat /\ policy \in [allow_multi : BOOLEAN, max_parts : Nat]
    BY <1>1, BodyAssumption
  <2>2. valid \in Seq(RangeType) /\ todo \in Seq(PartType) /\ chunks \in Seq(ChunkType)
    BY <1>1
  <2> QED
    BY <1>1, <1>2, <2>1, <2>2 DEF Basics
<1>5. Parsed = {} /\ Ranges = {} /\ Chosen = {}
  <2>1. Parsed = {}
    BY <1>1, <1>3 DEF Parsed
  <2>2. Ranges = {}
    BY <1>1 DEF Ranges
  <2> QED
    BY <2>1, <2>2 DEF Chosen
<1>6. Parsing
  <2>1. \A k \in 1 .. Len(rest) : rest[k] = specs[Len(specs) - Len(rest) + k]
    BY <1>1, <1>3
  <2>2. \E f \in [Ranges -> Parsed] : MadeFrom(f)
    <3> DEFINE f == [k \in Ranges |-> k]
    <3>1. f \in [Ranges -> Parsed]
      BY <1>5
    <3>2. MadeFrom(f)
      BY <1>5 DEF MadeFrom
    <3> QED
      BY <3>1, <3>2
  <2>3. IsFiniteSet(Chosen) /\ Cardinality(Chosen) = Len(valid)
    BY <1>1, <1>5, FS_EmptySet
  <2>4. Ordered /\ Untouched
    BY <1>1, <1>5 DEF Ordered, Untouched
  <2>5. Len(rest) <= Len(specs)
    BY <1>1, <1>3
  <2>6. saw <=> \E i \in Parsed : specs[i].kind # "Blank"
    BY <1>1, <1>5
  <2> QED
    BY <1>5, <2>1, <2>2, <2>3, <2>4, <2>5, <2>6 DEF Parsing
<1> QED
  BY <1>1, <1>4, <1>6 DEF Inv, OutcomeDecided

\* Every step keeps the invariant.
LEMMA InvStep == Inv /\ [Next]_vars => Inv'
<1> SUFFICES ASSUME Inv, [Next]_vars PROVE Inv'
  OBVIOUS
<1>1. CASE ParseSpec
  BY <1>1, ParseInv
<1>2. CASE PlanSimple
  BY <1>2, PlanSimpleInv
<1>3. CASE PlanMulti
  BY <1>3, PlanMultiInv
<1>4. CASE MakePart
  BY <1>4, MakePartInv
<1>5. CASE EndParts
  BY <1>5, EndPartsInv
<1>6. CASE PushFileChunk
  BY <1>6, PushFileChunkInv
<1>7. CASE PushPart
  BY <1>7, PushPartInv
<1>8. CASE PushTerminator
  BY <1>8, PushTerminatorInv
<1>9. CASE UNCHANGED vars
  <2>1. UNCHANGED <<size, policy, specs, rest, saw, valid, outcome, announced, framing,
                    todo, offset, end, chunks, laid>>
    BY <1>9 DEF vars, plan, parsing, layout
  <2>2. UNCHANGED plan /\ UNCHANGED parsing
    BY <1>9 DEF vars
  <2>3. /\ UNCHANGED <<Ranges, Wanted, Parsed>> /\ Ordered' = Ordered
        /\ \A range : Within(range)' <=> Within(range)
        /\ OutcomeDecided' /\ \A i : Named(specs[i])' = Named(specs[i])
    BY <2>1, <2>2, Stays, Fixed DEF Parsed
  <2>4. Basics'
    BY <2>1 DEF Inv, Basics
  <2>5. Untouched' = Untouched /\ Begun' = Begun /\ Terminated' = Terminated
    BY <2>1 DEF Untouched, Begun, Terminated
  <2>6. Parsing => Parsing'
    <3>1. Chosen' = Chosen
      BY <2>3 DEF Chosen
    <3>2. \A f : MadeFrom(f)' = MadeFrom(f)
      BY <2>1, <2>3, <3>1 DEF MadeFrom
    <3> QED
      BY <2>1, <2>3, <2>5, <3>1, <3>2 DEF Parsing
  <2>7. Course => Course'
    BY <2>1, <2>3, <2>5 DEF Course
  <2>8. Carried => Carried'
    BY <2>1, <2>3 DEF Carried, FileChunks, Of
  <2>9. Summed => Summed'
    BY <2>1, <2>3, <2>5 DEF Summed, Sums
  <2> QED
    BY <2>1, <2>3, <2>4, <2>5, <2>6, <2>7, <2>8, <2>9 DEF Inv
<1> QED
  BY <1>1, <1>2, <1>3, <1>4, <1>5, <1>6, <1>7, <1>8, <1>9 DEF Next

\* The invariant that plan_ranges, multipart_parts, execute_plan and file_chunks
\* keep: the ranges are those that the specs name, the parts those of the ranges,
\* the chunks those of the parts so far.
THEOREM Invariance == Spec => []Inv
<1>1. Init => Inv
  BY InvInit
<1>2. Inv /\ [Next]_vars => Inv'
  BY InvStep
<1> QED
  BY <1>1, <1>2, PTL DEF Spec

\* For numbers that fit u64 nothing but the bytes decides.
LEMMA DecidedByBytes ==
    ASSUME \A i \in 1 .. Len(specs) : Fits(specs[i])
    PROVE  Decided = Expected
<1>1. \A i \in 1 .. Len(specs) : Parses(specs[i]) <=> WellFormed(specs[i])
  BY DEF Parses, WellFormed, Fits
<1>2. (\E i \in 1 .. Len(specs) : ~Parses(specs[i]))
        <=> (\E i \in 1 .. Len(specs) : ~WellFormed(specs[i]))
  BY <1>1, Zenon
<1> QED
  BY <1>2, Zenon DEF Decided, Expected

\* For every header whose numbers fit u64, every file size and policy, plan_ranges
\* answers as the bytes that the specs name decide, though it never compares more
\* than the bounds of neighbouring ranges.
THEOREM OutcomeCorrect == Spec => []OutcomeMatchesBytes
<1>1. Inv => OutcomeMatchesBytes
  BY DecidedByBytes DEF Inv, OutcomeDecided, OutcomeMatchesBytes
<1> QED
  BY <1>1, Invariance, PTL

\* For every chunk size, the chunks that execute_plan and file_chunks lay out are
\* the selected bytes, in order and once each, and none is empty or too long.
THEOREM BodyCorrect == Spec => []BodyIsSelection
<1>1. Inv => BodyIsSelection
  <2> SUFFICES ASSUME Inv, Done, outcome # "Unsatisfiable" PROVE BodyIsSelection
    BY DEF BodyIsSelection
  <2>1. Basics /\ outcome \in {"Full", "Single", "Multi"} /\ Carried
    BY DEF Inv, Basics, Done
  <2>2. offset = end /\ todo = <<>> /\ ~framing
    BY DEF Done
  <2>3. ASSUME NEW b \in Wanted PROVE b < offset
    <3>1. CASE outcome = "Full"
      BY <2>1, <2>2, <2>3, <3>1 DEF Inv, Wanted, Basics
    <3>2. CASE outcome # "Full"
      <4>1. Course
        BY <2>1, <3>2 DEF Inv
      <4>2. PICK n \in Nat : n = Len(valid) /\ n >= 1
        <5>1. Len(valid) > 1 \/ Len(valid) = 1
          BY <4>1 DEF Course
        <5>2. Len(valid) \in Nat
          BY <2>1 DEF Basics
        <5> QED
          BY <5>1, <5>2
      <4>3. Begun = n /\ n \in Ranges
        BY <2>2, <4>2 DEF Begun, Ranges
      <4>4. PICK k \in Ranges : b \in valid[k].start .. valid[k].last
        BY <2>3, <4>1 DEF Course
      <4>5. \A j \in Ranges : valid[j] \in RangeType /\ Within(valid[j])
        BY <2>1, <4>1 DEF Basics, Ranges, Course
      <4>6. PICK s \in Nat, l \in Nat, first \in Nat, last \in Nat :
              /\ s = valid[k].start /\ l = valid[k].last
              /\ first = valid[n].start /\ last = valid[n].last /\ first <= last
        BY <4>3, <4>5 DEF RangeType, Within
      <4>7. l <= last
        <5>1. CASE k = n
          BY <4>6, <5>1
        <5>2. CASE k < n
          <6>1. l < first
            BY <4>1, <4>3, <4>6, <5>2 DEF Course, Ordered
          <6> QED
            BY <4>6, <6>1
        <5>3. k = n \/ k < n
          BY <4>2 DEF Ranges
        <5> QED
          BY <5>1, <5>2, <5>3
      <4>8. offset = last + 1
        BY <2>2, <4>1, <4>2, <4>3, <4>6 DEF Course
      <4> QED
        BY <4>4, <4>6, <4>7, <4>8
    <3> QED
      BY <3>1, <3>2
  <2>4. Wanted = UNION {Of(i) : i \in FileChunks}
    <3>1. {b \in Wanted : b < offset} = Wanted
      BY <2>3
    <3> QED
      BY <2>1, <3>1 DEF Carried
  <2> QED
    BY <2>1, <2>4 DEF BodyIsSelection, Carried
<1> QED
  BY <1>1, Invariance, PTL

\* For every number of parts and every length of their framing, the Content-Length
\* that multipart_parts sums up is what the chunks of execute_plan carry.
THEOREM LengthCorrect == Spec => []LengthAnnounced
<1>1. Inv => LengthAnnounced
  <2> SUFFICES ASSUME Inv, Done PROVE laid = announced
    BY DEF LengthAnnounced
  <2>1. /\ laid \in Nat /\ end \in Nat /\ announced \in Nat
        /\ outcome \in {"Full", "Unsatisfiable", "Single", "Multi"}
    BY DEF Inv, Basics, Done
  <2>2. offset = end /\ ~framing
    BY DEF Done
  <2>3. CASE outcome = "Unsatisfiable"
    BY <2>3 DEF Inv, Untouched
  <2>4. CASE outcome \in {"Full", "Single"}
    <3>1. laid + (end - offset) = announced
      BY <2>4 DEF Inv
    <3> QED
      BY <2>1, <2>2, <3>1
  <2>5. CASE outcome = "Multi"
    BY <2>2, <2>5 DEF Inv, Summed, Done
  <2> QED
    BY <2>1, <2>3, <2>4, <2>5
<1> QED
  BY <1>1, Invariance, PTL
=============================================================================
