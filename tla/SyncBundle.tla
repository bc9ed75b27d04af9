------------------------------ MODULE SyncBundle ----------------------------
(***************************************************************************)
(* The bundle format (prs-sync-bundle): how the builder names, reads and   *)
(* packs its sources, how an archive is validated entry by entry, and how  *)
(* an extraction reaches its destination.  The crate keeps no state: each  *)
(* part is an operator of its input, and the changes of files under the    *)
(* builder and of the file system under an extraction are part of it.      *)
(*                                                                         *)
(* MaxBundleSize is MAX_BUNDLE_SIZE, of the files and of the encoded       *)
(* archive; a header, the manifest and the end of the archive count one.   *)
(***************************************************************************)
EXTENDS Integers, Sequences, FiniteSets
CONSTANT MaxBundleSize

MANIFEST_PATH == "manifest.json"
Markdown == {"note.md", "index.md", "long.md"}
\* File names of more bytes than the name field of a UStar header holds.
LongNames == {"long.md"}

Refused == [ok |-> FALSE]
Positions(s) == DOMAIN s
Below(n, s) == SubSeq(s, 1, n)
Sizes(files) ==
  LET sum[n \in 0 .. Len(files)] == IF n = 0 THEN 0 ELSE sum[n - 1] + files[n].size
  IN  sum[Len(files)]

-----------------------------------------------------------------------------
(* Host paths: sequences of components, "/" first in an absolute one.      *)

Absolute(path) == path[1] = "/"

\* Path::components of what precedes the file name, without "." and "/".
ParentComponents(path) ==
  SelectSeq(Below(Len(path) - 1, path), LAMBDA c : c \notin {".", "/"})

\* common_parent: how many leading components the parents share.
CommonLength(paths) ==
  LET parents == [n \in Positions(paths) |-> ParentComponents(paths[n])]
      shared == {k \in 0 .. Len(parents[1]) : \A n \in Positions(parents) :
                   Len(parents[n]) >= k /\ Below(k, parents[n]) = Below(k, parents[1])}
  IN  CHOOSE k \in shared : \A other \in shared : other <= k

\* strip_prefix compares whole components, of which a leading "." is one.
NameOf(path, common) ==
  LET own == IF Absolute(path) THEN Tail(path) ELSE path IN
    IF common = <<>> \/ Below(Len(common), own) = common
    THEN [ok |-> TRUE, name |-> SubSeq(own, Len(common) + 1, Len(own))]
    ELSE Refused

\* bundle_path_from_path and the reserved name.
Usable(name) == /\ \A n \in Positions(name) : name[n] \notin {".", ".."}
                /\ name # <<MANIFEST_PATH>>

\* The names collect_sources gives to the paths.
Names(paths) ==
  LET common == Below(CommonLength(paths), ParentComponents(paths[1]))
      names == [n \in Positions(paths) |-> NameOf(paths[n], common)]
  IN  IF /\ \A n \in Positions(paths) : Absolute(paths[n]) = Absolute(paths[1])
         /\ \A n \in Positions(paths) : names[n].ok /\ Usable(names[n].name)
         /\ \A m, n \in Positions(paths) : m # n => names[m] # names[n]
      THEN [ok |-> TRUE, names |-> [n \in Positions(paths) |-> names[n].name]]
      ELSE Refused

-----------------------------------------------------------------------------
(* The builder.  A source is read three times: for its size, for its       *)
(* fingerprint, and for the archive; a sequence of bytes is found each     *)
(* time.                                                                   *)

Lesser(m, n) == IF m < n THEN m ELSE n
Bounded(bytes, size) == Below(Lesser(size, Len(bytes)), bytes)

Entry(type, path, size, body) == [type |-> type, path |-> path, size |-> size, body |-> body]

\* append_source compares with the fingerprint.
Unchanged(collected, packed) == packed = collected

\* fingerprint_source and append_source: the size is that of the first look.
Packed(source) ==
  LET size == Len(source.measured)
      collected == Bounded(source.fingerprinted, size)
      packed == Bounded(source.packed, size)
  IN  IF Len(collected) = size /\ Unchanged(collected, packed)
      THEN [ok |-> TRUE, size |-> size, body |-> packed] ELSE Refused

\* The tar library stores a name its header cannot hold in an entry of its
\* own, of a type of its own.
Header(name) == IF name[Len(name)] \in LongNames
                THEN <<Entry("other", <<"././@LongLink">>, 0, <<>>)>> ELSE <<>>

EncodedSize(archive) == Sizes(archive.entries) + Len(archive.entries) + 1

\* BundleBuilder::write.
Build(sources) ==
  LET naming == Names([n \in Positions(sources) |-> sources[n].path])
      parts == [n \in Positions(sources) |-> Packed(sources[n])]
      files == [n \in Positions(sources) |-> [path |-> naming.names[n], size |-> parts[n].size]]
      entries[n \in 0 .. Len(sources)] ==
        IF n = 0 THEN <<Entry("regular", <<MANIFEST_PATH>>, 1, <<>>)>>
        ELSE entries[n - 1] \o Header(naming.names[n])
             \o <<Entry("regular", naming.names[n], parts[n].size, parts[n].body)>>
      archive == [entries |-> entries[Len(sources)], cut |-> FALSE, tail |-> "zeros",
                  manifest |-> [supported |-> TRUE, entry_point |-> naming.names[1],
                                files |-> files]]
  IN  IF /\ naming.ok /\ \A n \in Positions(sources) : parts[n].ok
         /\ naming.names[1][Len(naming.names[1])] \in Markdown
         /\ Sizes(files) <= MaxBundleSize /\ EncodedSize(archive) <= MaxBundleSize
      THEN [ok |-> TRUE, archive |-> archive] ELSE Refused

-----------------------------------------------------------------------------
(* Validation.  An archive is its entries, of which the stream may end in  *)
(* the last, and what follows them; its manifest is what the entry of that *)
(* name holds.                                                             *)

Listed(manifest) == {manifest.files[n].path : n \in Positions(manifest.files)}

\* validate_manifest, and the paths serde accepts.
ValidManifest(manifest) ==
  /\ manifest.supported
  /\ manifest.entry_point[Len(manifest.entry_point)] \in Markdown
  /\ manifest.entry_point \in Listed(manifest)
  /\ \A path \in Listed(manifest) : path # <<MANIFEST_PATH>> /\ ".." \notin {path[1]}
  /\ Cardinality(Listed(manifest)) = Len(manifest.files)
  /\ Sizes(manifest.files) <= MaxBundleSize

SizeListed(manifest, path) ==
  manifest.files[CHOOSE n \in Positions(manifest.files) : manifest.files[n].path = path].size

Inside(path, directory) == Len(path) > Len(directory) /\ Below(Len(directory), path) = directory

\* staged_path and create_new: a file is not a directory.
CanStage(staged, path) ==
  \A other \in staged : ~Inside(path, other) /\ ~Inside(other, path)

\* One entry of process_archive; `limit` is that of the staging directory.
ProcessEntry(state, archive, n, disk, limit) ==
  LET entry == archive.entries[n]
      whole == ~(archive.cut /\ n = Len(archive.entries))
      next == [state EXCEPT !.seen = @ \union {entry.path}, !.staged = @ + entry.size,
                            !.files = @ \union {[path |-> entry.path, body |-> entry.body]}]
      acceptable ==
        /\ entry.type = "regular" /\ entry.path[1] # ".." /\ entry.path \notin state.seen
        /\ whole /\ next.staged <= limit
        /\ disk => CanStage(state.seen, entry.path)
  IN  IF state.ok /\ acceptable
         /\ IF entry.path = <<MANIFEST_PATH>> THEN ValidManifest(archive.manifest)
            ELSE /\ <<MANIFEST_PATH>> \in state.seen /\ entry.path \in Listed(archive.manifest)
                 /\ SizeListed(archive.manifest, entry.path) = entry.size
      THEN next ELSE [state EXCEPT !.ok = FALSE]

\* What is looked for when the archive has ended.
Complete(manifest, seen) == <<MANIFEST_PATH>> \in seen /\ Listed(manifest) \subseteq seen

\* process_archive.  A tar stream may end without its end marker.
Process(archive, disk, limit) ==
  LET state[n \in 0 .. Len(archive.entries)] ==
        IF n = 0 THEN [ok |-> TRUE, seen |-> {}, staged |-> 0, files |-> {}]
        ELSE ProcessEntry(state[n - 1], archive, n, disk, limit)
      last == state[Len(archive.entries)]
  IN  IF /\ last.ok /\ EncodedSize(archive) <= MaxBundleSize /\ archive.tail = "zeros"
         /\ Complete(archive.manifest, last.seen)
      THEN last ELSE Refused

Destination(kind, files) == [kind |-> kind, files |-> files]
Absent == Destination("absent", {})
Empty == Destination("directory", {})

\* extract_internal: the destination after each of its steps, at any of
\* which the process may be killed.
Extraction(archive, destination, limit) ==
  LET outcome == Process(archive, TRUE, limit) IN
    IF destination \notin {Absent, Empty} \/ ~outcome.ok THEN <<destination>>
    ELSE IF destination = Empty THEN <<Empty, Absent, Destination("directory", outcome.files)>>
    ELSE <<Absent, Destination("directory", outcome.files)>>
-----------------------------------------------------------------------------
(* Properties.                                                             *)

Fits(name) == name[Len(name)] \notin LongNames

\* What the builder writes without an error, every reader takes, up to the
\* limit and in spite of it: each source is found under a name that leads to
\* it from one directory, with the bytes it had when it was collected.  Names
\* the header cannot hold are the exception.
BuildIsSound(sources) ==
  LET built == Build(sources)
      out == Process(built.archive, TRUE, MaxBundleSize)
      directory(n) == Below(Len(sources[n].path) - Len(built.archive.manifest.files[n].path),
                            sources[n].path)
  IN  built.ok =>
        /\ \A n \in Positions(sources) :
             /\ directory(n) = directory(1)
             /\ sources[n].path = directory(n) \o built.archive.manifest.files[n].path
        /\ out.ok <=> \A path \in Listed(built.archive.manifest) : Fits(path)
        /\ out.ok =>
             out.files = {[path |-> <<MANIFEST_PATH>>, body |-> <<>>]} \union
                         {[path |-> built.archive.manifest.files[n].path,
                           body |-> Bounded(sources[n].fingerprinted, Len(sources[n].measured))] :
                            n \in Positions(sources)}

\* An archive is valid exactly when it is its manifest followed by the files
\* the manifest lists, each once and of its size, in any order; and whenever
\* an extraction is interrupted, its destination holds what it held, or is
\* gone and was empty, or holds all of that.
FormatIsSound(archive, destination, limit) ==
  LET entries == archive.entries
      paths == [n \in Positions(entries) |-> entries[n].path]
      valid ==
        /\ entries # <<>> /\ paths[1] = <<MANIFEST_PATH>> /\ ValidManifest(archive.manifest)
        /\ \A n \in Positions(entries) : entries[n].type = "regular"
        /\ {paths[n] : n \in 2 .. Len(paths)} = Listed(archive.manifest)
        /\ Len(paths) = Cardinality(Listed(archive.manifest)) + 1
        /\ \A n \in 2 .. Len(paths) : entries[n].size = SizeListed(archive.manifest, paths[n])
        /\ ~archive.cut /\ archive.tail = "zeros" /\ EncodedSize(archive) <= MaxBundleSize
      extractable ==
        /\ valid /\ Sizes(entries) <= limit
        /\ \A m, n \in Positions(paths) : ~Inside(paths[m], paths[n])
        /\ destination \in {Absent, Empty}
      all == Destination("directory",
        {[path |-> paths[n], body |-> entries[n].body] : n \in Positions(paths)})
      steps == Extraction(archive, destination, limit)
  IN  /\ Process(archive, FALSE, MaxBundleSize).ok <=> valid
      /\ IF extractable THEN steps[Len(steps)] = all ELSE steps = <<destination>>
      /\ \A n \in Positions(steps) :
           steps[n] \in {destination, all} \/ (destination = Empty /\ steps[n] = Absent)

=============================================================================
