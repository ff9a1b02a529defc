------------------------------- MODULE TagSet -------------------------------
(***************************************************************************)
(* packTagSet of cli/pack/rpm_tagset.go: the header and the signature of   *)
(* an RPM are sets of tags, packed into an index and a data area.  One tag *)
(* is packed at a time; the data area is abstracted to its length and an   *)
(* index entry keeps, beside the fields of the format, the size of the     *)
(* data it stands for.                                                     *)
(***************************************************************************)
EXTENDS Integers, Sequences

CONSTANT TagSets       \* the sets of tags that are packed

VARIABLES tagTodo,     \* the tags still to pack
          tagData,     \* the length of tagsData
          tagIndex,    \* tagsIndex
          tagFailed

tagVars == <<tagTodo, tagData, tagIndex, tagFailed>>

TagTypes == {"null", "char", "int8", "int16", "int32", "int64", "string", "bin", "array", "i18n"}

\* A tag: count is the number of elements of its value, chars the number of bytes of its
\* strings without their terminators.
Tag == [id : Nat, type : TagTypes, count : Nat, chars : Nat]

ASSUME TagSetsAssumption == TagSets \subseteq Seq(Tag)

\* boundariesByType
Boundary(type) ==
    CASE type = "int16" -> 2
      [] type = "int32" -> 4
      [] type = "int64" -> 8
      [] OTHER -> 1

\* The types that packTag and boundariesByType know.
Packable(type) == type # "i18n"

\* packTag: the number of elements it reports.
PackedCount(tag) == IF tag.type \in {"null", "string"} THEN 1 ELSE tag.count

\* packTag: the number of bytes it writes; every string ends with a zero byte.
PackedSize(tag) ==
    CASE tag.type = "null" -> 0
      [] tag.type = "string" -> tag.chars + 1
      [] tag.type = "array" -> tag.chars + tag.count
      [] tag.type = "int16" -> 2 * tag.count
      [] tag.type = "int32" -> 4 * tag.count
      [] tag.type = "int64" -> 8 * tag.count
      [] OTHER -> tag.count

\* alignData
AlignData(len, boundary) ==
    IF len % boundary # 0 THEN (len \div boundary + 1) * boundary ELSE len

\* getPackedTagIndex
TagIndexEntry(tag, offset) ==
    [id |-> tag.id, type |-> tag.type, offset |-> offset, count |-> PackedCount(tag),
     size |-> PackedSize(tag)]

TagInit ==
    /\ tagTodo \in TagSets
    /\ tagData = 0 /\ tagIndex = <<>> /\ tagFailed = FALSE

\* packTagSet begins with empty buffers.
LoadTags(tags) ==
    /\ tagTodo' = tags
    /\ tagData' = 0 /\ tagIndex' = <<>> /\ tagFailed' = FALSE

\* Faulty variant: the offset is taken before the data is aligned.
PackTagBeforeAlign ==
    LET tag == Head(tagTodo)
        start == AlignData(tagData, Boundary(tag.type))
    IN  /\ tagTodo # <<>> /\ Packable(tag.type)
        /\ tagIndex' = Append(tagIndex, TagIndexEntry(tag, tagData))
        /\ tagData' = start + PackedSize(tag)
        /\ tagTodo' = Tail(tagTodo)
        /\ UNCHANGED tagFailed

\* The body of the loop: the data is aligned for the type, then the entry and the data are added.
PackTag ==
    LET tag == Head(tagTodo)
        start == AlignData(tagData, Boundary(tag.type))
    IN  /\ tagTodo # <<>> /\ Packable(tag.type)
        /\ tagIndex' = Append(tagIndex, TagIndexEntry(tag, start))
        /\ tagData' = start + PackedSize(tag)
        /\ tagTodo' = Tail(tagTodo)
        /\ UNCHANGED tagFailed

\* A type that cannot be packed ends the packing with an error.
PackTagFails ==
    /\ tagTodo # <<>> /\ ~Packable(Head(tagTodo).type)
    /\ tagTodo' = <<>> /\ tagFailed' = TRUE
    /\ UNCHANGED <<tagData, tagIndex>>

TagNext == PackTag \/ PackTagFails

TagSpec == TagInit /\ [][TagNext]_tagVars

\* The length of the packed set: the header of 16 bytes, an entry of 16 bytes for each tag and
\* for the region, the data, and the 16 bytes of the region's own data.
PackedLength == 16 + 16 * (Len(tagIndex) + 1) + tagData + 16

\* A reader of the format finds every tag: its offset respects the alignment of its type, its
\* data lies inside the data area, and the data of no two tags overlaps, in the order of the
\* index.
TagsReadBack ==
    \A i \in 1..Len(tagIndex) :
        /\ tagIndex[i].offset % Boundary(tagIndex[i].type) = 0
        /\ tagIndex[i].offset + tagIndex[i].size <= tagData
        /\ \A j \in 1..(i - 1) : tagIndex[j].offset + tagIndex[j].size <= tagIndex[i].offset
=============================================================================
