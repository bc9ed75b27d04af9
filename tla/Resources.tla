------------------------------- MODULE Resources ----------------------------
(***************************************************************************)
(* How the Markdown reader finds what a document refers to (prs-markdown): *)
(* resources.rs with its two providers, the targets of links in            *)
(* navigation.rs, and the images a document keeps, image.rs.               *)
(*                                                                         *)
(* A path is a sequence of components.  A file system maps the paths that  *)
(* exist, from the top, to a directory, a file, or a symbolic link to a    *)
(* path; the library is below Root.                                        *)
(***************************************************************************)
EXTENDS Integers, Sequences, FiniteSetsExt

Root == <<"library">>
MarkdownNames == {"note.md", "index.md"}
Refused == [ok |-> FALSE]
Found(value) == [ok |-> TRUE, value |-> value]

Front(path) == SubSeq(path, 1, Len(path) - 1)
LastOf(path) == path[Len(path)]
Prefix(n, path) == SubSeq(path, 1, n)
Within(path, directory) == Len(path) >= Len(directory) /\ Prefix(Len(directory), path) = directory

-----------------------------------------------------------------------------
(* Paths and references.                                                   *)

\* Mutant: a way up from the top stays there.
FaultyUp(path) == IF path = <<>> THEN Found(<<>>) ELSE Found(Front(path))

Up(path) == IF path = <<>> THEN Refused ELSE Found(Front(path))

\* normalize_relative.
Normalize(path) ==
  LET walk[n \in 0 .. Len(path)] ==
        IF n = 0 THEN Found(<<>>)
        ELSE IF ~walk[n - 1].ok \/ path[n] = "/" THEN Refused
        ELSE IF path[n] = "." THEN walk[n - 1]
        ELSE IF path[n] = ".." THEN Up(walk[n - 1].value)
        ELSE Found(Append(walk[n - 1].value, path[n]))
  IN  walk[Len(path)]

\* A reference: an external one, or a path, absolute when it begins with
\* "/", and perhaps an anchor; the hashes in front of an anchor are counted.
Reference(external, path, hashes) == [external |-> external, path |-> path, hashes |-> hashes]

Target(kind, document, hashes) == [kind |-> kind, document |-> document, hashes |-> hashes]

\* resolve_reference_from, from a document of the library: the first hash is
\* not part of the anchor.
Resolve(document, reference) ==
  LET local == Normalize(Front(document) \o reference.path)
      anchor == reference.hashes - 1
      Document(path) == IF reference.hashes > 0 THEN Found(Target("anchor", path, anchor))
                        ELSE Found(Target("document", path, 0))
  IN  IF reference.external THEN Found(Target("external", <<>>, 0))
      ELSE IF reference.path = <<>> THEN Document(document)
      ELSE IF reference.path[1] = "/" \/ ~local.ok THEN Refused
      ELSE IF local.value # <<>> /\ LastOf(local.value) \in MarkdownNames THEN Document(local.value)
      ELSE IF reference.hashes > 0 THEN Refused ELSE Found(Target("asset", local.value, 0))

\* The extension as navigation.rs sees it: a name that is all extension has one.
NamedMarkdown(path) == path # <<>> /\ LastOf(path) \in MarkdownNames \union {".md"}

\* NavigationTarget::from_destination and activate: the path of an asset is
\* not resolved, and an anchor of this document loses all its hashes.
Activate(document, reference) ==
  LET followed == Resolve(document, reference) IN
    CASE reference.path = <<>> /\ reference.hashes > 0 /\ ~reference.external ->
           Found(Target("anchor", document, 0))
      [] reference.external -> Found(Target("external", <<>>, 0))
      [] OTHER ->
           IF ~NamedMarkdown(reference.path) THEN Found(Target("asset", reference.path, 0))
           ELSE IF followed.ok /\ followed.value.kind # "asset" THEN followed ELSE Refused

-----------------------------------------------------------------------------
(* The providers.                                                          *)

Node(kind, to) == [kind |-> kind, to |-> to]
IsLink(fs, path) == fs[path].kind = "link"
IsFile(fs, path) == fs[path].kind = "file"

\* fs::canonicalize: a link leads to a path without further links.
Canonical(fs, path) ==
  LET walk[n \in 0 .. Len(path)] ==
        IF n = 0 THEN Found(<<>>)
        ELSE IF ~walk[n - 1].ok THEN Refused
        ELSE LET here == Append(walk[n - 1].value, path[n]) IN
               IF here \notin DOMAIN fs THEN Refused
               ELSE IF ~IsLink(fs, here) THEN Found(here)
               ELSE IF fs[here].to \in DOMAIN fs THEN Found(fs[here].to) ELSE Refused
  IN  walk[Len(path)]

\* ensure_within_root: the longest part of the path that exists.
StaysWithin(fs, path) ==
  LET existing == {n \in 0 .. Len(path) : Canonical(fs, Prefix(n, path)).ok}
      longest == CHOOSE n \in existing : \A m \in existing : m <= n
  IN  Within(Canonical(fs, Prefix(longest, path)).value, Root)

\* namespace_path of the file system's provider: a path below the root counts.
Namespaced(path) ==
  IF path # <<>> /\ path[1] = "/"
  THEN IF Within(Tail(path), Root)
       THEN Normalize(SubSeq(path, Len(Root) + 2, Len(path))) ELSE Refused
  ELSE Normalize(path)

\* FileSystemResourceProvider::read_text and read_binary: the file that is read.
ReadFile(fs, path) ==
  LET inside == Namespaced(path)
      real == Canonical(fs, Root \o inside.value)
  IN  IF inside.ok /\ StaysWithin(fs, Root \o inside.value) /\ real.ok /\ IsFile(fs, real.value)
      THEN real ELSE Refused

\* BrowserResourceProvider: the files were read beforehand.
ReadBrowser(files, path) ==
  LET name == Normalize(path) IN IF name.ok /\ name.value \in files THEN name ELSE Refused

-----------------------------------------------------------------------------
(* Images.                                                                 *)

\* ImageResources: each source known, and the bytes of its raster, 0 when it
\* is unavailable.
NoImages == [images |-> [s \in {} |-> 0], retained |-> 0]

\* ImageResources::insert.
Insert(resources, source, bytes, retainedLimit, entryLimit) ==
  LET known == source \in DOMAIN resources.images
      others == resources.retained - (IF known THEN resources.images[source] ELSE 0)
      kept == IF bytes + others <= retainedLimit THEN bytes ELSE 0
  IN  IF ~known /\ Cardinality(DOMAIN resources.images) >= entryLimit THEN resources
      ELSE [images |-> [s \in DOMAIN resources.images \union {source} |->
                          IF s = source THEN kept ELSE resources.images[s]],
            retained |-> others + kept]

\* push_source: each source once, up to a limit.
Sources(references, entryLimit) ==
  LET first[n \in 0 .. Len(references)] ==
        IF n = 0 THEN <<>>
        ELSE IF /\ Len(first[n - 1]) < entryLimit
                /\ \A m \in DOMAIN first[n - 1] : first[n - 1][m] # references[n]
             THEN Append(first[n - 1], references[n]) ELSE first[n - 1]
  IN  first[Len(references)]

\* from_document_with_limits; a source that does not load has no bytes.
FromDocument(references, bytes, retainedLimit, entryLimit) ==
  LET sources == Sources(references, entryLimit)
      loaded[n \in 0 .. Len(sources)] ==
        IF n = 0 THEN NoImages
        ELSE Insert(loaded[n - 1], sources[n], bytes[sources[n]], retainedLimit, entryLimit)
  IN  loaded[Len(sources)]

AtLeastOne(n) == IF n = 0 THEN 1 ELSE n

\* fitted_dimensions.
Fitted(width, height, maxWidth, maxHeight) ==
  LET w == AtLeastOne(maxWidth)
      h == AtLeastOne(maxHeight)
      limitedHeight == AtLeastOne((height * w) \div AtLeastOne(width))
      limitedWidth == AtLeastOne((width * h) \div AtLeastOne(height))
  IN  IF width <= w /\ height <= h THEN <<AtLeastOne(width), AtLeastOne(height)>>
      ELSE IF limitedHeight <= h THEN <<w, limitedHeight>>
      ELSE <<limitedWidth, h>>

-----------------------------------------------------------------------------
(* Properties.                                                             *)

\* A reference from a document of the library leads to a name in the library,
\* or, when it climbs out of it, nowhere; a link that is touched leads to no other document than the
\* reference does; what is read under that name is a file of the library,
\* through whatever links; and where there are no links the browser reads
\* the same file.
ReferenceIsSound(fs, document, reference) ==
  LET resolved == Resolve(document, reference)
      touched == Activate(document, reference)
      files == {SubSeq(p, Len(Root) + 1, Len(p)) : p \in {q \in DOMAIN fs : Within(q, Root) /\ IsFile(fs, q)}}
      read == ReadFile(fs, resolved.value.document)
      Count(n, names) == Cardinality({m \in 1 .. n : reference.path[m] \in names})
      climbs == \E n \in DOMAIN reference.path :
                  2 * Count(n, {".."}) + Count(n, {"."}) > n + Len(document) - 1
  IN  /\ resolved.ok => \A n \in DOMAIN resolved.value.document :
                          resolved.value.document[n] \notin {".", "..", "/"}
      /\ resolved.ok => ~climbs
      /\ touched.ok /\ touched.value.kind \in {"document", "anchor"} =>
           resolved.ok /\ resolved.value.kind = touched.value.kind
           /\ resolved.value.document = touched.value.document
      /\ resolved.ok /\ read.ok => Within(read.value, Root)
      /\ resolved.ok /\ (\A p \in DOMAIN fs : ~IsLink(fs, p)) =>
           /\ read.ok <=> ReadBrowser(files, resolved.value.document).ok
           /\ read.ok => read.value = Root \o ReadBrowser(files, resolved.value.document).value

\* The images that are kept are within both limits, and are counted rightly,
\* also when a source is given another image; of a document, those are left
\* out that do not load, come after the last entry, or do not fit in what
\* those before them leave.
ImagesAreSound(references, bytes, retainedLimit, entryLimit) ==
  LET last == Len(references)
      inserted[n \in 0 .. last] ==
        IF n = 0 THEN NoImages
        ELSE Insert(inserted[n - 1], references[n], bytes[references[n]] + (n % 2), retainedLimit, entryLimit)
      Total(resources) ==
        MapThenSumSet(LAMBDA s : resources.images[s], DOMAIN resources.images)
      Kept(resources) == /\ resources.retained = Total(resources) /\ resources.retained <= retainedLimit
                         /\ Cardinality(DOMAIN resources.images) <= entryLimit
      document == FromDocument(references, bytes, retainedLimit, entryLimit)
      sources == Sources(references, entryLimit)
      before(n) == Total(FromDocument(SubSeq(sources, 1, n - 1), bytes, retainedLimit, entryLimit))
  IN  /\ Kept(inserted[last]) /\ Kept(document)
      /\ \A n \in DOMAIN sources :
           document.images[sources[n]] =
             IF before(n) + bytes[sources[n]] <= retainedLimit THEN bytes[sources[n]] ELSE 0

\* A raster fits, is never enlarged, fills one of the two sides when it is
\* reduced, and keeps its proportions to within a pixel.
FitIsSound(width, height, maxWidth, maxHeight) ==
  LET fit == Fitted(width, height, maxWidth, maxHeight)
      w == AtLeastOne(maxWidth)
      h == AtLeastOne(maxHeight)
  IN  /\ fit[1] \in 1 .. w /\ fit[2] \in 1 .. h /\ fit[1] <= width /\ fit[2] <= height
      /\ fit = <<width, height>> \/ fit[1] = w \/ fit[2] = h
      /\ fit = <<width, height>> \/ 1 \in {fit[1], fit[2]}
         \/ \/ fit[2] * width <= height * fit[1] /\ height * fit[1] < (fit[2] + 1) * width
            \/ fit[1] * height <= width * fit[2] /\ width * fit[2] < (fit[1] + 1) * height

=============================================================================
