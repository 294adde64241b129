-------------------------------- MODULE Body --------------------------------
(***************************************************************************)
(* The body of a GET: plan_ranges and multipart_parts of                   *)
(* crates/envoy-files-core/src/range.rs, the Content-Length that           *)
(* response_plan.rs announces, and the chunks that execute_plan and        *)
(* file_chunks of crates/envoy-files-filter/src/filter.rs lay out for it.  *)
(* Each iteration of their loops is a step.                                *)
(*                                                                         *)
(* A range-spec is what its text parses to; a byte is its position in the  *)
(* file; multipart framing is its length.                                  *)
(***************************************************************************)
EXTENDS Integers, Sequences, FiniteSets

CONSTANTS
    Specs,       \* the range-specs of a header
    MaxSpecs,    \* bound: range-specs per header
    Sizes,       \* file sizes
    Policies,    \* range policies
    ChunkSize,   \* config.chunk_size
    U64Max,      \* the largest number that parses
    HeaderLen,   \* length of a part header without its leading CRLF
    CloseLen     \* length of the terminator

SpecType ==
    [kind : {"Blank", "Bad", "Suffix", "From", "FromTo"}, first : Nat, last : Nat]

ASSUME BodyAssumption ==
    /\ Specs \subseteq SpecType
    /\ MaxSpecs \in Nat
    /\ Sizes \subseteq 0 .. U64Max
    /\ Policies \subseteq [allow_multi : BOOLEAN, max_parts : Nat]
    /\ ChunkSize \in Nat \ {0}
    /\ U64Max \in Nat /\ HeaderLen \in Nat \ {0} /\ CloseLen \in Nat \ {0}

VARIABLES
    size,       \* FileMeta.size
    policy,     \* RangePolicy
    specs,      \* the Range header
    rest,       \* specs not parsed yet
    saw,        \* saw_any_spec
    valid,      \* valid_ranges
    outcome,    \* RangeOutcome, or "None" while parsing
    announced,  \* Content-Length
    framing,    \* whether multipart_parts is running
    todo,       \* Vec<MultipartPart>: the parts made, or not laid out yet
    offset,     \* file_chunks: offset and end of the range being laid out
    end,
    chunks,     \* Vec<Chunk>
    laid        \* history: bytes in chunks

plan == <<size, policy, specs>>
parsing == <<rest, saw, valid>>
layout == <<framing, todo, offset, end, chunks, laid>>
vars == <<plan, parsing, outcome, announced, layout>>

-----------------------------------------------------------------------------
(* Planning the ranges. *)

ByteRange(start, last) == [start |-> start, last |-> last]
RangeLen(range) == range.last - range.start + 1

Least(m, n) == IF m < n THEN m ELSE n

None == <<"None">>
Unsatisfiable == <<"Unsatisfiable">>
Satisfiable(range) == <<"Range", range>>

parse_suffix_spec(n) ==
    IF n > U64Max THEN None
    ELSE IF n = 0 \/ size = 0 THEN Unsatisfiable
    ELSE IF n >= size THEN Satisfiable(ByteRange(0, size - 1))
    ELSE Satisfiable(ByteRange(size - n, size - 1))

open_ended_spec(first) ==
    IF size = 0 \/ first >= size THEN Unsatisfiable
    ELSE Satisfiable(ByteRange(first, size - 1))

\* Mutant: the last byte position is not clamped to the file.
parse_one_spec_unclamped(spec) ==
    CASE spec.kind = "Suffix" -> parse_suffix_spec(spec.first)
      [] spec.kind = "From" ->
           IF spec.first > U64Max THEN None ELSE open_ended_spec(spec.first)
      [] spec.kind = "FromTo" ->
           IF spec.first > U64Max \/ spec.last > U64Max THEN None
           ELSE IF spec.last < spec.first \/ size = 0 \/ spec.first >= size
           THEN Unsatisfiable
           ELSE Satisfiable(ByteRange(spec.first, spec.last))
      [] OTHER -> None

\* A number that does not fit u64 fails to parse, as if the spec were invalid.
parse_one_spec(spec) ==
    CASE spec.kind = "Suffix" -> parse_suffix_spec(spec.first)
      [] spec.kind = "From" ->
           IF spec.first > U64Max THEN None ELSE open_ended_spec(spec.first)
      [] spec.kind = "FromTo" ->
           IF spec.first > U64Max \/ spec.last > U64Max THEN None
           ELSE IF spec.last < spec.first \/ size = 0 \/ spec.first >= size
           THEN Unsatisfiable
           ELSE Satisfiable(ByteRange(spec.first, Least(spec.last, size - 1)))
      [] OTHER -> None

\* Mutant: ranges may touch the byte before them.
is_ascending_touching(ranges) ==
    \A i \in 1 .. Len(ranges) - 1 : ranges[i + 1].start >= ranges[i].last

is_ascending_non_overlapping(ranges) ==
    \A i \in 1 .. Len(ranges) - 1 : ranges[i + 1].start > ranges[i].last

-----------------------------------------------------------------------------
Init ==
    /\ size \in Sizes
    /\ policy \in Policies
    /\ specs \in UNION {[1 .. n -> Specs] : n \in 0 .. MaxSpecs}
    /\ rest = specs
    /\ saw = FALSE
    /\ valid = <<>>
    /\ outcome = "None"
    /\ announced = 0
    /\ framing = FALSE
    /\ todo = <<>>
    /\ offset = 0
    /\ end = 0
    /\ chunks = <<>>
    /\ laid = 0

\* The plain 200 response.
Full ==
    /\ outcome' = "Full"
    /\ announced' = size
    /\ offset' = 0
    /\ end' = size
    /\ UNCHANGED <<framing, todo, chunks, laid>>

ParseSpec ==
    /\ outcome = "None" /\ rest # <<>>
    /\ LET spec == Head(rest)
           result == parse_one_spec(spec)
       IN  IF spec.kind = "Blank"
           THEN /\ rest' = Tail(rest)
                /\ UNCHANGED <<saw, valid, outcome, announced, layout>>
           ELSE IF result = None
           THEN Full /\ rest' = <<>> /\ saw' = TRUE /\ UNCHANGED valid
           ELSE /\ rest' = Tail(rest)
                /\ saw' = TRUE
                /\ valid' = IF result = Unsatisfiable THEN valid ELSE Append(valid, result[2])
                /\ UNCHANGED <<outcome, announced, layout>>
    /\ UNCHANGED plan

ServesMulti ==
    /\ policy.allow_multi
    /\ Len(valid) <= policy.max_parts
    /\ is_ascending_non_overlapping(valid)

\* The end of plan_ranges, for all but a multi-range.
PlanSimple ==
    /\ outcome = "None" /\ rest = <<>>
    /\ Len(valid) > 1 => ~ServesMulti
    /\ IF ~saw \/ Len(valid) > 1 THEN Full
       ELSE IF valid = <<>>
       THEN outcome' = "Unsatisfiable" /\ UNCHANGED <<announced, layout>>
       ELSE /\ outcome' = "Single"
            /\ announced' = RangeLen(valid[1])
            /\ offset' = valid[1].start
            /\ end' = valid[1].start + RangeLen(valid[1])
            /\ UNCHANGED <<framing, todo, chunks, laid>>
    /\ UNCHANGED <<plan, parsing>>

\* The CRLF before a boundary is part of every header but the first.
PartHeader(index) == IF index > 1 THEN HeaderLen + 2 ELSE HeaderLen

PlanMulti ==
    /\ outcome = "None" /\ rest = <<>>
    /\ Len(valid) > 1 /\ ServesMulti
    /\ outcome' = "Multi"
    /\ framing' = TRUE
    /\ UNCHANGED <<plan, parsing, announced, todo, offset, end, chunks, laid>>

\* An iteration of multipart_parts.
MakePart ==
    /\ framing /\ Len(todo) < Len(valid)
    /\ LET index == Len(todo) + 1
       IN  /\ announced' = announced + PartHeader(index) + RangeLen(valid[index])
           /\ todo' = Append(todo, [range |-> valid[index], header |-> PartHeader(index)])
    /\ UNCHANGED <<plan, parsing, outcome, framing, offset, end, chunks, laid>>

\* Mutant: the terminator is not counted.
FramedLengthNoTerminator == announced

\* The content_length of multipart_parts: its parts, then the terminator.
FramedLength == announced + CloseLen

\* The end of multipart_parts.
EndParts ==
    /\ framing /\ Len(todo) = Len(valid)
    /\ framing' = FALSE
    /\ announced' = FramedLength
    /\ UNCHANGED <<plan, parsing, outcome, todo, offset, end, chunks, laid>>

-----------------------------------------------------------------------------
(* Laying out the chunks. *)

Inline(len) == [kind |-> "Inline", offset |-> 0, len |-> len]
File(start, len) == [kind |-> "File", offset |-> start, len |-> len]

Push(chunk) ==
    /\ chunks' = Append(chunks, chunk)
    /\ laid' = laid + chunk.len

ChunkLen == Least(end - offset, ChunkSize)

\* An iteration of file_chunks.
PushFileChunk ==
    /\ offset < end
    /\ Push(File(offset, ChunkLen))
    /\ offset' = offset + ChunkLen
    /\ UNCHANGED <<plan, parsing, outcome, announced, framing, todo, end>>

\* The header of the next part of a multipart body, and its range.
PushPart ==
    /\ ~framing /\ offset = end /\ todo # <<>>
    /\ LET part == Head(todo)
       IN  /\ Push(Inline(part.header))
           /\ offset' = part.range.start
           /\ end' = part.range.start + RangeLen(part.range)
    /\ todo' = Tail(todo)
    /\ UNCHANGED <<plan, parsing, outcome, announced, framing>>

\* Every part ends with a file chunk, so an inline chunk at the end of the last
\* part is the terminator.
Terminated ==
    /\ offset = end /\ todo = <<>>
    /\ chunks # <<>> /\ chunks[Len(chunks)].kind = "Inline"

PushTerminator ==
    /\ outcome = "Multi" /\ ~framing /\ offset = end /\ todo = <<>> /\ ~Terminated
    /\ Push(Inline(CloseLen))
    /\ UNCHANGED <<plan, parsing, outcome, announced, framing, todo, offset, end>>

Next ==
    \/ ParseSpec \/ PlanSimple \/ PlanMulti \/ MakePart \/ EndParts
    \/ PushFileChunk \/ PushPart \/ PushTerminator

Spec == Init /\ [][Next]_vars

-----------------------------------------------------------------------------
(* Properties. *)

Done ==
    /\ outcome # "None" /\ ~framing /\ offset = end /\ todo = <<>>
    /\ outcome = "Multi" => Terminated

\* The bytes that a range-spec names; none if its last position is before its
\* first, which plan_ranges takes for unsatisfiable and RFC 9110 for invalid.
Named(spec) ==
    {b \in 0 .. size - 1 :
        \/ spec.kind = "Suffix" /\ b >= size - spec.first
        \/ spec.kind = "From" /\ b >= spec.first
        \/ spec.kind = "FromTo" /\ spec.first <= b /\ b <= spec.last}

\* A spec that is not syntactically invalid.
WellFormed(spec) == spec.kind # "Bad"

\* A spec whose numbers can be parsed as u64.
Fits(spec) ==
    /\ spec.kind \in {"Suffix", "From", "FromTo"} => spec.first <= U64Max
    /\ spec.kind = "FromTo" => spec.last <= U64Max

\* The specs that select something.
Selecting == {i \in 1 .. Len(specs) : Named(specs[i]) # {}}

\* What plan_ranges is to decide, from the bytes alone.
Expected ==
    IF (\E i \in 1 .. Len(specs) : ~WellFormed(specs[i]))
         \/ \A i \in 1 .. Len(specs) : specs[i].kind = "Blank"
    THEN "Full"
    ELSE IF Cardinality(Selecting) = 0 THEN "Unsatisfiable"
    ELSE IF Cardinality(Selecting) = 1 THEN "Single"
    ELSE IF /\ policy.allow_multi /\ Cardinality(Selecting) <= policy.max_parts
            /\ \A i, j \in Selecting :
                  i < j => \A b \in Named(specs[i]), c \in Named(specs[j]) : b < c
    THEN "Multi" ELSE "Full"

\* plan_ranges decides as the bytes that the specs name decide: which ranges
\* are satisfiable, whether they overlap, whether there are too many.  For numbers
\* that fit u64: MCBody has what the comment of parse_one_spec says of all others.
OutcomeMatchesBytes ==
    (outcome # "None" /\ \A i \in 1 .. Len(specs) : Fits(specs[i]))
        => outcome = Expected

\* The bytes that the response is to carry, and those that its chunks carry.
Wanted ==
    IF outcome = "Full" THEN 0 .. size - 1
    ELSE UNION {Named(specs[i]) : i \in 1 .. Len(specs)}
FileChunks == {i \in 1 .. Len(chunks) : chunks[i].kind = "File"}
Of(i) == chunks[i].offset .. chunks[i].offset + chunks[i].len - 1

\* The file chunks that begin_streaming is given, in order, are exactly the
\* selected bytes, once each: file_chunks neither skips nor repeats a byte at a
\* chunk boundary or at the end of a range.
BodyIsSelection ==
    (Done /\ outcome # "Unsatisfiable") =>
        /\ Wanted = UNION {Of(i) : i \in FileChunks}
        /\ \A i, j \in FileChunks : i < j =>
              chunks[i].offset + chunks[i].len <= chunks[j].offset
        /\ \A i \in FileChunks : chunks[i].len \in 1 .. ChunkSize

\* The Content-Length on the head is the number of bytes that the chunks carry,
\* multipart framing included.
LengthAnnounced == Done => laid = announced
=============================================================================
