-------------------------------- MODULE MCHost --------------------------------
(***************************************************************************)
(* The tools of the host, explored by one run of TLC: a behaviour belongs  *)
(* to the component in `focus`, and the others stay as they were.  The     *)
(* components that are algorithms take an input in one step, as the        *)
(* `sample`, and what is claimed of them is evaluated there.               *)
(***************************************************************************)
EXTENDS SerialLink, SonyReader, SenderClient, SequencesExt

Bundle == INSTANCE SyncBundle WITH MaxBundleSize <- 8
Wire == INSTANCE SerialWire
Docs == INSTANCE Resources
Window == INSTANCE Screen
Net == INSTANCE NetworkProbe
Checks == INSTANCE WorkerChecks
Budget == INSTANCE LibraryBudget WITH MaxBundleSize <- 4
Wrapping == INSTANCE LineWrapping
Nesting == INSTANCE BlockNesting
Tables == INSTANCE TableLayout WITH BodyFont <- 16, MinFont <- 12, Padding <- 3, BorderWidth <- 1

VARIABLES focus, sample, sound

hostVariables == <<focus, sample, sound, serialVars, sonyVars, senderVars>>

UpTo(n, S) == UNION {[1 .. length -> S] : length \in 0 .. n}

-----------------------------------------------------------------------------
(* The inputs of the algorithms.                                           *)

MCSourcePaths ==
  {<<"note.md">>, <<".", "note.md">>, <<"docs", "note.md">>, <<"docs", "pic">>,
   <<".", "docs", "note.md">>, <<"docs", "..", "note.md">>, <<"..", "note.md">>,
   <<"..", "docs", "pic">>, <<"/", "docs", "note.md">>, <<"/", "docs", "pic">>,
   <<"/", "docs", "sub", "pic">>, <<"docs", "sub", "pic">>, <<"docs", "manifest.json">>,
   <<"docs", "long.md">>}
MCContents == {<<>>, <<0>>, <<1>>, <<0, 1>>, <<1, 1, 1>>}
MCSource(path, first, second, third) ==
  [path |-> path, measured |-> first, fingerprinted |-> second, packed |-> third]
MCSources ==
  {<<MCSource(<<"docs", "note.md">>, a, b, c)>> : a, b, c \in MCContents}
    \union {<<MCSource(p, a, a, a), MCSource(q, <<0>>, <<0>>, <<0>>)>> :
              p, q \in MCSourcePaths, a \in MCContents}

MCFiles ==
  {[path |-> <<"index.md">>, size |-> 1], [path |-> <<"index.md">>, size |-> 2],
   [path |-> <<"pic">>, size |-> 1], [path |-> <<"index.md", "note.md">>, size |-> 1],
   [path |-> <<Bundle!MANIFEST_PATH>>, size |-> 1]}
MCManifests ==
  [supported : {TRUE}, entry_point : {<<"index.md">>, <<"pic">>}, files : UpTo(2, MCFiles)]
    \union [supported : {FALSE}, entry_point : {<<"index.md">>}, files : UpTo(1, MCFiles)]
MCManifestEntry == Bundle!Entry("regular", <<Bundle!MANIFEST_PATH>>, 1, <<>>)
MCEntries ==
  {MCManifestEntry} \union {Bundle!Entry("regular", f.path, f.size, <<>>) : f \in MCFiles}
    \union {Bundle!Entry("other", <<"pic">>, 1, <<>>), Bundle!Entry("regular", <<"..", "pic">>, 1, <<>>)}
MCEnds == {<<FALSE, "zeros">>, <<TRUE, "zeros">>, <<FALSE, "bytes">>}
MCPlaces == {<<Bundle!Absent, 2>>, <<Bundle!Absent, 4>>, <<Bundle!Empty, 4>>,
             <<Bundle!Destination("file", {}), 4>>}

\* Archives whose manifest comes first, and some that lack it there.
MCArchive(entries, end, manifest) ==
  [entries |-> entries, cut |-> end[1], tail |-> end[2], manifest |-> manifest]
MCEntryLists ==
  {<<MCManifestEntry>> \o rest : rest \in UpTo(2, MCEntries)} \union UpTo(1, MCEntries)

MCWords == {Wire!Bare("a"), Wire!Bare("OK"), Wire!Field("bytes", Wire!Number(3)),
            Wire!Field("ui", Wire!Bare("alive"))}
MCTexts == {Wire!Text(words, length, newline) : words \in UpTo(2, MCWords) \ {<<>>},
              length \in {5, 971, 972, 993, 994, 1006, 1011, 1015, 1016}, newline \in BOOLEAN}
MCResponses ==
  {Wire!Response(kind, text, <<>>) : kind \in DOMAIN Wire!Leads, text \in MCTexts}
    \union {Wire!Response("ACK", text, <<4>>) : text \in MCTexts}
    \union {Wire!Response("SHELL", text, <<7>>) : text \in MCTexts}
    \union {Wire!Response("FRAMEBUFFER", text, <<1, height, 9>>) : text \in MCTexts, height \in {0, 2}}
    \union {Wire!Response(kind, Wire!Text(<<>>, 0, FALSE), <<>>) : kind \in {"PONG", "REBOOTING", "INFO"}}
MCRequests ==
  {Wire!WireRequest(kind, 0, 0) : kind \in Wire!PlainRequests}
    \union {Wire!WireRequest(kind, bytes, 5) : kind \in {"EXEC", "SHELL"},
              bytes \in {0, 1, 4096, 4097, 1024 * 1024, 1024 * 1024 + 1}}

MCComponentNames == {"a", "..", ".", "note.md", "pic", "/", ".md"}
MCReferences ==
  {Docs!Reference(FALSE, path, hashes) : hashes \in 0 .. 2,
     path \in {p \in UpTo(2, MCComponentNames) : Len(p) = 2 => p[2] # "/"}
              \union {<<"..", "a", "pic">>, <<"a", "..", "note.md">>, <<"..", "..", "pic">>,
                      <<".", "..", "note.md">>, <<"/", "a", "note.md">>}}
    \union {Docs!Reference(TRUE, <<>>, 0)}
MCUnder(path) == Docs!Root \o path
MCTree(links) ==
  LET plain == {<<>>, Docs!Root, MCUnder(<<"note.md">>), MCUnder(<<"index.md">>), MCUnder(<<"a">>),
                MCUnder(<<"a", "note.md">>), <<"out">>, <<"out", "note.md">>, <<"out", "pic">>}
      directories == {<<>>, Docs!Root, MCUnder(<<"a">>), <<"out">>}
  IN  [path \in plain \union DOMAIN links |->
         IF path \in DOMAIN links THEN links[path]
         ELSE Docs!Node(IF path \in directories THEN "dir" ELSE "file", <<>>)]
MCLink(path, target) == MCTree([p \in {path} |-> Docs!Node("link", target)])
MCTrees ==
  {MCTree(<<>>), MCTree([p \in {MCUnder(<<"pic">>)} |-> Docs!Node("file", <<>>)])}
    \union {MCLink(MCUnder(<<"pic">>), target) :
              target \in {<<"out">>, <<"out", "pic">>, MCUnder(<<"a">>), MCUnder(<<"index.md">>), <<"gone">>}}
    \union {MCLink(MCUnder(<<"a">>), target) : target \in {<<"out">>, Docs!Root, <<"gone">>}}

MCRecord(id, name) == [migration_id |-> id, migration_name |-> name]
MCApplied(count) == [i \in 1 .. count |-> MCRecord(i, i)]
MCHistories ==
  {MCApplied(count) : count \in 0 .. 9}
    \union {[MCApplied(count) EXCEPT ![i].migration_name = name] :
              count \in {7, 8}, i \in 1 .. 7, name \in {0, 1, 8, 9}}
    \union {RemoveAt(MCApplied(count), i) : count \in 1 .. 9, i \in {1}}
    \union {RemoveAt(MCApplied(count), i) : count \in {8, 9}, i \in 1 .. 8}
    \union {[MCApplied(7) EXCEPT ![1].migration_id = id] : id \in {-1, 0}}

MCTexts3 == UpTo(3, {"i", "W", " ", "\n"})
MCSpans(kinds, text, second) ==
  <<Wrapping!Span(kinds[1], text, "none", <<1, 1>>), Wrapping!Span(kinds[2], second, "link", <<4, 9>>),
    Wrapping!Span("prose", second, "none", <<1, 1>>)>>

MCCell(word, text) == [word |-> word, text |-> text]
MCColumns == {{MCCell(1, 1)}, {MCCell(4, 20), MCCell(2, 2)}, {MCCell(30, 30)}}
MCTables == UpTo(2, MCColumns) \union [1 .. 6 -> {{MCCell(1, 1)}, {MCCell(4, 30)}}]

MCLeaves == {<<"text", kind, count>> : kind \in {"paragraph", "heading", "code"}, count \in {1, 2}}
MCLists == {<<"list", ordered, tight, <<Nesting!Item(content, children, task)>> >> :
              ordered, tight, task \in BOOLEAN, content \in {0, 1}, children \in UpTo(1, MCLeaves)}
MCBoxes == {<<kind, blocks>> : kind \in {"quote", "alert", "footnote"}, blocks \in UpTo(1, MCLeaves)}
MCBlocks ==
  {<<"list", ordered, tight, <<Nesting!Item(content, <<block>>, task), Nesting!Item(1, <<>>, FALSE)>> >> :
     ordered, tight, task \in BOOLEAN, content \in {0, 2}, block \in MCLeaves \union MCLists \union MCBoxes}
    \union {<<kind, <<block, <<"text", "heading", 1>> >> >> :
              kind \in {"quote", "alert", "footnote"}, block \in MCLeaves \union MCLists \union MCBoxes}
    \union {<<"list", TRUE, TRUE, <<>> >>}

-----------------------------------------------------------------------------
MCAreas(page) ==
  {areas \in Window!Areas(page) \X Window!Areas(page) :
     ~(areas[1].kind = "Focus" /\ areas[2].kind = "Focus")}

\* The step of each algorithm: its input, and whether what it promises holds.
Take(input, verdict) == sample' = input /\ sound' = verdict

BundleSample ==
  \/ \E sources \in MCSources : Take(<<"build", sources>>, Bundle!BuildIsSound(sources))
  \/ \E entries \in MCEntryLists, end \in MCEnds, manifest \in MCManifests, place \in MCPlaces :
       /\ end[1] => entries # <<>>
       /\ end = <<FALSE, "zeros">> \/ place = <<Bundle!Absent, 4>>
       /\ Take(<<"archive", entries, end, manifest, place>>,
               Bundle!FormatIsSound(MCArchive(entries, end, manifest), place[1], place[2]))
WireSample ==
  \/ \E asking \in MCRequests : Take(<<"request", asking>>, Wire!RequestIsSound(asking))
  \/ \E response \in MCResponses : Take(<<"response", response>>, Wire!ResponseIsSound(response))
DocumentSample ==
  \/ \E tree \in MCTrees, document \in {<<"index.md">>, <<"a", "note.md">>}, reference \in MCReferences :
       Take(<<"reference", tree, document, reference>>, Docs!ReferenceIsSound(tree, document, reference))
  \/ \E references \in UpTo(3, {"x", "y"}), bytes \in [{"x", "y"} -> 0 .. 3],
        retained \in {0, 3, 4}, entry \in 1 .. 2 :
       Take(<<"images", references, bytes, retained, entry>>,
            Docs!ImagesAreSound(references, bytes, retained, entry))
  \/ \E w, h \in 1 .. 7, widest, highest \in 0 .. 5 :
       Take(<<"fit", w, h, widest, highest>>, Docs!FitIsSound(w, h, widest, highest))
ScreenSample ==
  \E page \in Window!Pages \union {"home"}, orientation \in Window!Orientations :
    \E areas \in MCAreas(page) :
      Take(<<"merge", page, orientation, areas>>, Window!MergeKeeps(page, orientation, areas[1], areas[2]))
LayoutSample ==
  \/ \E text \in MCTexts3, second \in UpTo(2, {"i", " "}), width \in {0, 3, 6},
        kinds \in {"prose", "code"} \X {"prose", "code", "image"} :
       Take(<<"wrap", kinds, text, second, width>>,
            Wrapping!WrapIsSound(MCSpans(kinds, text, second), width))
  \/ \E table \in MCTables, width \in {0, 8, 9, 30, 70, 110, 240} :
       Take(<<"table", table, width>>, Tables!TableIsSound(table, width))
  \/ \E cells \in [1 .. 2 -> UpTo(2, {1, 3}) \ {<<>>}], padding \in 0 .. 1, used, width \in 0 .. 3,
        alignment \in {"left", "center", "right"} :
       Take(<<"row", cells, padding, used, width, alignment>>,
            Tables!RowIsSound(cells, padding, used, alignment, width))
  \/ \E block \in MCBlocks, width \in {0, 20, 40, 160} :
       Take(<<"nesting", block, width>>, Nesting!NestingIsSound(block, width, 160))
WorkerSample ==
  \/ \E history \in MCHistories : Take(<<"schema", history>>, Checks!ReadinessIsSound(history))
  \/ \E declared \in -2 .. 4, chunks \in UpTo(3, -1 .. 3), limit \in {0, 3} :
       Take(<<"body", declared, chunks, limit>>, Checks!BodyIsSound(declared, chunks, limit))
BudgetSample ==
  \E place \in {"absent", "generation", "outside"}, nodes \in UpTo(2, Budget!Nodes),
     pieces \in UpTo(2, 1 .. 3), contents \in UpTo(2, {0, 1, 5}), limit \in {5, 7, 12} :
    \E answer \in Budget!Answers(pieces) :
      /\ place # "generation" => nodes = <<>>
      /\ Take(<<"budget", place, nodes, answer, contents, limit>>,
              Budget!BudgetIsSound(place, nodes, answer, contents, limit))
ProbeSample == \E network \in Net!Networks : Take(<<"probe", network>>, Net!VerdictIsSound(network))

Sample ==
  /\ focus = "sample" /\ sample = <<>>
  /\ \/ BundleSample \/ WireSample \/ DocumentSample \/ ScreenSample \/ ProbeSample
     \/ LayoutSample \/ WorkerSample \/ BudgetSample
  /\ UNCHANGED <<focus, serialVars, sonyVars, senderVars>>

HostInit ==
  /\ focus \in {"serial", "sony", "sender", "sample"}
  /\ sample = <<>> /\ sound = TRUE
  /\ SerialInit /\ SonyInit /\ SenderInit
  /\ focus # "sony" => tool = "get"
  /\ focus # "sender" => ~ crowded

HostNext ==
  \/ focus = "serial" /\ SerialNext /\ UNCHANGED <<focus, sample, sound, sonyVars, senderVars>>
  \/ focus = "sony" /\ SonyNext /\ UNCHANGED <<focus, sample, sound, serialVars, senderVars>>
  \/ /\ focus = "sender" /\ SenderNext
     \* Where others poll too, callers only ask for their credentials.
     /\ crowded => \A c \in Callers : call'[c].command = "create"
     /\ UNCHANGED <<focus, sample, sound, serialVars, sonyVars>>
  \/ Sample

HostSpec == HostInit /\ [][HostNext]_hostVariables /\ SerialFairness
            /\ WF_sonyVars(focus = "sony" /\ SonyNext)


\* TransferEnds, in the behaviours that copy a file.
CopyEnds == focus = "sony" ~> (stage \in {"done", "failed"} /\ handle # "held")
=============================================================================
