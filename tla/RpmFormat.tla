----------------------------- MODULE RpmFormat -----------------------------
(***************************************************************************)
(* The making of an RPM file, packRpm of cli/pack/rpm_pack.go with the     *)
(* header (rpm_header.go), the signature, the lead, the payload (cpio.go,  *)
(* tgz.go) and the dependencies (deps.go, deb_control_dir.go).  A digest   *)
(* is modelled by the content it is a digest of.                           *)
(***************************************************************************)
EXTENDS TagSet, SequencesExt, FiniteSets

CONSTANTS RpmInputs,    \* what packRpm is called with: tree, system, owned, deps, pre, post, name
          LeadNameSize  \* the size of the name field of the lead, 66

VARIABLES rpm
rpmVars == <<rpm, tagVars>>

NotMade == [made |-> FALSE]
PartMade == [made |-> FALSE, part |-> TRUE]
NoInfo == [DirNames |-> <<>>, DirIndexes |-> <<>>, BaseNames |-> <<>>, FileFlags |-> <<>>,
           FileUserNames |-> <<>>, FileLinkTos |-> <<>>]
RpmStart(in) == [pc |-> "paths", in |-> in, paths |-> <<>>, cpio |-> NotMade,
                 gz |-> NotMade, header |-> NotMade, body |-> NotMade, signature |-> NotMade,
                 sigLength |-> 0, result |-> NotMade]

\* The order of the paths as strings, which is the field at.  A directory may come back after
\* others: "." is before "/".
Before(p, q) == p.at < q.at

\* getSortedRelPaths: the files of the tree in order, without the directories of the system.
GetSortedRelPaths(tree, system) == SetToSortSeq(tree \ system, Before)

\* Faulty variant: a directory seen before is added again, its first index returned.
AddDirAgain(names, dir) == Append(names, dir)

\* addDirAndGetIndex: the directories, in the order they are first seen.
AddDir(names, dir) == IF Contains(names, dir) THEN names ELSE Append(names, dir)

\* The zero-based index of a directory.
DirIndex(names, dir) == SelectInSeq(names, LAMBDA d : d = dir) - 1

\* The body of getFilesInfo: what is appended for one path.
AddFileInfo(in, info, p) ==
    LET names == AddDir(info.DirNames, p.dir)
    IN  [DirNames |-> names,
         DirIndexes |-> Append(info.DirIndexes, DirIndex(names, p.dir)),
         BaseNames |-> Append(info.BaseNames, p.base),
         FileFlags |-> Append(info.FileFlags, IF p.kind = "file" THEN 16 ELSE 0),
         FileUserNames |-> Append(info.FileUserNames, IF p \in in.owned THEN "tarantool" ELSE "root"),
         FileLinkTos |-> Append(info.FileLinkTos, IF p.kind = "link" THEN p.to ELSE 0)]

\* getFilesInfo
GetFilesInfo(in, paths) == FoldLeft(LAMBDA info, p : AddFileInfo(in, info, p), NoInfo, paths)

\* getRPMRelation, as the set of its flags
GetRPMRelation(relation) ==
    CASE relation = ">" -> {"greater"}
      [] relation = ">=" -> {"greater", "equal"}
      [] relation = "<" -> {"less"}
      [] relation = "<=" -> {"less", "equal"}
      [] relation \in {"=", "=="} -> {"equal"}
      [] OTHER -> {}

\* getDebRelation
GetDebRelation(relation) ==
    CASE relation = ">" -> ">>"
      [] relation = "<" -> "<<"
      [] relation = "==" -> "="
      [] OTHER -> relation

\* Faulty variant: a dependency without relations is left out.
AddDependenciesRPMRelated(deps) ==
    FlattenSeq([i \in DOMAIN deps |->
        [j \in DOMAIN deps[i].relations |->
            <<deps[i].name, GetRPMRelation(deps[i].relations[j][1]), deps[i].relations[j][2]>>]])

\* addDependenciesRPM: names, flags and versions, one line for each relation.
AddDependenciesRPM(deps) ==
    FlattenSeq([i \in DOMAIN deps |->
        IF deps[i].relations = <<>> THEN <<<<deps[i].name, {}, "">>>>
        ELSE [j \in DOMAIN deps[i].relations |->
            <<deps[i].name, GetRPMRelation(deps[i].relations[j][1]), deps[i].relations[j][2]>>]])

\* addDependenciesDeb: the items of the Depends field.
AddDependenciesDeb(deps) ==
    FlattenSeq([i \in DOMAIN deps |->
        IF deps[i].relations = <<>> THEN <<<<deps[i].name, "", "">>>>
        ELSE [j \in DOMAIN deps[i].relations |->
            <<deps[i].name, GetDebRelation(deps[i].relations[j][1]), deps[i].relations[j][2]>>]])

\* parseAllDependencies: the --deps list, then the file, then tarantool and tt themselves
\* (getTntTTAsDeps); a line that is empty or a comment is skipped.
ParseAllDependencies(in) ==
    SelectSeq(in.deps \o in.depsFile, LAMBDA d : d.name # "")
    \o (IF in.withTarantool THEN <<[name |-> "tarantool", relations |-> <<<<"==", "v1">>>>],
                                   [name |-> "tt", relations |-> <<<<"==", "v2">>>>]>>
        ELSE <<>>)

\* addPreAndPostInstallScriptsRPM: the user's scripts that get into the package, or the reading
\* of a file that is not given.  Both reads depend on preInst.
InstallScripts(in) ==
    IF ~in.pre THEN {{}} ELSE IF in.post THEN {{"pre", "post"}} ELSE {}

Str(chars) == [id |-> 0, type |-> "string", count |-> 1, chars |-> chars]
Arr(count, chars) == [id |-> 0, type |-> "array", count |-> count, chars |-> chars]
Ints(type, count) == [id |-> 0, type |-> type, count |-> count, chars |-> 0]

\* The tags of genRpmHeader; the lengths are those of the strings of the code, and of short
\* names of files.
HeaderTags(in, info, requires) ==
    LET n == Len(info.BaseNames)
        d == Len(info.DirNames)
        m == Len(requires)
    IN  <<Str(in.name), Str(5), Str(1), Str(0), Str(0), Str(3), Str(4), Str(5), Str(6), Str(4), Str(4),
          Str(1), Str(7), Str(7), Arr(d, 5 * d), Arr(n, 3 * n), Ints("int32", n), Arr(n, 4 * n),
          Arr(n, 4 * n), Ints("int32", n), Ints("int16", n), Ints("int32", n), Ints("int32", n),
          Ints("int16", n), Ints("int32", n), Ints("int32", n), Arr(n, 0), Arr(n, 32 * n), Arr(n, n),
          Ints("int32", 1), Arr(1, 64), Ints("int32", 1)>>
        \o (IF m = 0 THEN <<>> ELSE <<Arr(m, 4 * m), Ints("int32", m), Arr(m, 2 * m)>>)
        \o <<Str(20), Str(IF in.pre THEN 9 ELSE 0)>>

\* The tags of genSignature.
SignatureTags == <<Str(40), Ints("int32", 1), Ints("int32", 1), Ints("bin", 16)>>

RpmGoes(pc, changed) == rpm' = [changed EXCEPT !.pc = pc] /\ UNCHANGED tagVars
RpmFails == rpm' = [rpm EXCEPT !.pc = "failed"] /\ UNCHANGED tagVars

ListPaths ==
    /\ rpm.pc = "paths"
    /\ \/ RpmFails
       \/ RpmGoes("cpio", [rpm EXCEPT !.paths = GetSortedRelPaths(rpm.in.tree, rpm.in.system)])

\* packCpio: cpio gets the list and packs it into a file of the directory that is packed.  The
\* last buffer is flushed by a deferred call whose error nobody sees.
PackCpio ==
    /\ rpm.pc = "cpio"
    /\ \/ RpmFails
       \/ \E whole \in BOOLEAN :
             RpmGoes("compress", [rpm EXCEPT !.cpio = [made |-> TRUE, list |-> rpm.paths, whole |-> whole]])

\* CompressGzip: the compressor is flushed and not closed, so the payload has no final block.
CompressGzip ==
    /\ rpm.pc = "compress"
    /\ \/ RpmFails
       \/ RpmGoes("header", [rpm EXCEPT
                !.gz = [made |-> TRUE, packed |-> rpm.cpio, ended |-> FALSE]])

\* genRpmHeader, then packTagSet begins.
GenRpmHeader ==
    LET info == GetFilesInfo(rpm.in, rpm.paths)
        deps == ParseAllDependencies(rpm.in)
    IN  /\ rpm.pc = "header"
        /\ \/ RpmFails
           \/ \E scripts \in InstallScripts(rpm.in) :
                /\ rpm' = [rpm EXCEPT !.pc = "packHeader",
                     !.header = [made |-> TRUE, info |-> info, payload |-> rpm.gz, deps |-> deps,
                                 requires |-> AddDependenciesRPM(deps), scripts |-> scripts]]
                /\ LoadTags(HeaderTags(rpm.in, info, AddDependenciesRPM(deps)))

\* The loop of packTagSet, for the header and for the signature; their types can all be packed.
PackTags ==
    /\ rpm.pc \in {"packHeader", "packSignature"}
    /\ PackTag /\ UNCHANGED rpm

\* MergeFiles: a file that cannot be opened removes the destination; an error while copying
\* leaves what was copied.
MergeFiles(dest, pc, merged) ==
    \/ RpmFails
    \/ rpm' = [rpm EXCEPT !.pc = "failed", ![dest] = PartMade] /\ UNCHANGED tagVars
    \/ RpmGoes(pc, [rpm EXCEPT ![dest] = merged])

\* The packed header is written and merged with the payload into the body.
MergeBody ==
    /\ rpm.pc = "packHeader" /\ tagTodo = <<>>
    /\ MergeFiles("body", "signature", [made |-> TRUE, header |-> rpm.header, payload |-> rpm.gz])

\* Faulty variant: the size and the digest of the payload are those of the compressed file.
GenSignatureOfBody ==
    /\ rpm.pc = "signature"
    /\ rpm' = [rpm EXCEPT !.pc = "packSignature",
             !.signature = [made |-> TRUE, sha1 |-> rpm.body, md5 |-> rpm.body, payload |-> rpm.cpio]]
    /\ LoadTags(SignatureTags)

\* genSignature: the digests of the header and of the body, the sizes of the body and of the
\* payload.
GenSignature ==
    /\ rpm.pc = "signature"
    /\ \/ RpmFails
       \/ /\ rpm' = [rpm EXCEPT !.pc = "packSignature",
             !.signature = [made |-> TRUE, sha1 |-> rpm.header, md5 |-> rpm.body, payload |-> rpm.cpio]]
          /\ LoadTags(SignatureTags)

\* Faulty variant: the packed signature is not padded.
SignatureLengthUnpadded == PackedLength

\* The length of the packed signature, padded to 8 bytes.
SignatureLength == AlignData(PackedLength, 8)

\* genRpmLead copies the name into a field of fixed size, and panics when it does not fit.
GenRpmLead ==
    /\ rpm.pc = "packSignature" /\ tagTodo = <<>>
    /\ \/ RpmFails
       \/ RpmGoes(IF rpm.in.name <= LeadNameSize THEN "merge" ELSE "panic",
                  [rpm EXCEPT !.sigLength = SignatureLength])

\* The result is the lead with the signature, and the body.
MergeResult ==
    /\ rpm.pc = "merge"
    /\ MergeFiles("result", "done", [made |-> TRUE, signature |-> rpm.signature, body |-> rpm.body])

RpmInit ==
    /\ \E in \in RpmInputs : rpm = RpmStart(in)
    /\ tagTodo = <<>> /\ tagData = 0 /\ tagIndex = <<>> /\ tagFailed = FALSE

RpmNext ==
    \/ ListPaths \/ PackCpio \/ CompressGzip \/ GenRpmHeader \/ PackTags \/ MergeBody
    \/ GenSignature \/ GenRpmLead \/ MergeResult

\* The payload holds the tree without the directories of the system, and the lists of the
\* header name exactly its files: entry i of the base names, joined to the directory its index
\* points to, is file i of the payload, and no file that packRpm makes in the same directory is
\* among them.
RpmListsPayload ==
    rpm.result.made =>
        LET info == rpm.result.body.header.info
            list == rpm.cpio.list
        IN  /\ ToSet(list) = rpm.in.tree \ rpm.in.system
            /\ Cardinality(ToSet(info.DirNames)) = Len(info.DirNames)
            /\ \A f \in DOMAIN info \ {"DirNames"} : Len(info[f]) = Len(list)
            /\ \A i \in DOMAIN list :
                  /\ info.BaseNames[i] = list[i].base
                  /\ info.DirNames[info.DirIndexes[i] + 1] = list[i].dir

\* Every digest of a finished RPM is one of what the file holds: the signature's of its header
\* and of its body, the header's of its payload; the payload's size is that of what was
\* compressed.
RpmDigestsMatch ==
    rpm.result.made =>
        LET r == rpm.result
        IN  /\ r.signature.sha1 = r.body.header
            /\ r.signature.md5 = r.body
            /\ r.body.header.payload = r.body.payload
            /\ r.signature.payload = r.body.payload.packed

\* The header after the lead of 96 bytes and the signature starts at a multiple of 8.
RpmHeaderAligned == rpm.pc \in {"merge", "done"} => (96 + rpm.sigLength) % 8 = 0

Meaning == [flags \in SUBSET {"less", "greater", "equal"} |->
    CASE flags = {"greater"} -> ">>"
      [] flags = {"greater", "equal"} -> ">="
      [] flags = {"less"} -> "<<"
      [] flags = {"less", "equal"} -> "<="
      [] flags = {"equal"} -> "="
      [] OTHER -> ""]

\* The same dependencies mean the same in an rpm and in a deb package.
RequiresAgree ==
    rpm.header.made =>
        AddDependenciesDeb(rpm.header.deps) =
            [i \in DOMAIN rpm.header.requires |->
                <<rpm.header.requires[i][1], Meaning[rpm.header.requires[i][2]],
                  rpm.header.requires[i][3]>>]

\* A finished RPM agrees with itself: the header with the payload, the digests with what they
\* are digests of, the layout with the format, and its dependencies with those a deb would have.
RpmIsConsistent == RpmListsPayload /\ RpmDigestsMatch /\ RpmHeaderAligned /\ RequiresAgree
=============================================================================
