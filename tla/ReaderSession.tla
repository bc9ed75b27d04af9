---------------------------- MODULE ReaderSession ---------------------------
(***************************************************************************)
(* A reading session of prs-markdown (reader.rs, session.rs) as the T1's   *)
(* adapter uses it (prs-t1-agent/src/reader.rs): the open document and the *)
(* place in it, the history of links, the cache of documents, changes of   *)
(* layout, and the reload of a published bundle.                           *)
(*                                                                         *)
(* A document is a row of passages; a layout says at which of them a page  *)
(* starts.  A place is a document, the anchor it was asked for by, and the *)
(* passage: `cursor` and `content` of the code, which name one passage;    *)
(* `page` follows from the passage and the layout.                         *)
(***************************************************************************)
EXTENDS Naturals, Sequences, FiniteSetsExt, SequencesExt

CONSTANTS
  MaxHistoryEntries,   \* max_history_entries
  CachedDocuments \* max_cached_documents

\* A reload may visit two places; ReaderLimits::default allows sixteen.
ASSUME SessionAssumption ==
  MaxHistoryEntries \in Nat /\ MaxHistoryEntries > 1 /\ CachedDocuments \in Nat

VARIABLES
  library,     \* the documents behind `current`, {} when there is no bundle
  provided,    \* those of the bundle the session was opened on
  arrangement, \* reader_layout
  open,        \* the place that is read
  visited,     \* the history
  index,       \* history_index, from one
  cache,       \* the documents kept, oldest first
  fullscreen, libraryEmpty,
  overlay,     \* the code of an external link is shown, over this place
  left,        \* the place the last link was followed from
  dropped      \* a link has pushed an entry out of the history

readerVars == <<library, provided, arrangement, open, visited, index, cache, fullscreen,
                libraryEmpty, overlay, left, dropped>>
session == <<library, provided, libraryEmpty>>

Entry == "entry"
Documents == {Entry, "other"}
Anchors == {"none", "heading", "missing"}
Arrangements == [statusBar : BOOLEAN, large : BOOLEAN]
Places == [document : Documents, anchor : {"none", "heading"}, passage : 1 .. 3]
NoPlace == [document |-> "none", anchor |-> "none", passage |-> 1]

\* Paginator::index: the passages that start a page.
PageStarts(layout) == IF layout.large THEN {1, 2, 3} ELSE {1, 3}

\* anchor_cursor: the heading is in the middle of a page of the small text.
AnchorPassage(anchor) == IF anchor = "heading" THEN 2 ELSE 1

PlaceOf(document, anchor) ==
  [document |-> document, anchor |-> anchor, passage |-> AnchorPassage(anchor)]

-----------------------------------------------------------------------------
(* The cache of documents and the history.                                 *)

\* DocumentCache::insert; no document is kept twice (ReaderTypeOK), so that at
\* most one entry is not retained.
Cached(documents, document) ==
  LET others == RemoveFirst(documents, document)
      kept == IF Len(others) < CachedDocuments THEN others ELSE Tail(others)
  IN  IF CachedDocuments = 0 THEN documents ELSE Append(kept, document)

\* load_location, when it succeeds: what is left in the cache.
CacheAfter(document) == Cached(RemoveFirst(cache, document), open.document)

\* load_location: a document that is not cached has to be read.
Loadable(document) == document \in ToSet(cache) \/ document \in provided

\* The load fails, by an unreadable file or an unknown anchor; a cached
\* document goes back to the cache as the youngest.
LoadFails(document, anchor) ==
  /\ document \notin ToSet(cache) \/ anchor = "missing"
  /\ cache' = IF document \in ToSet(cache) THEN Cached(RemoveFirst(cache, document), document) ELSE cache
  /\ UNCHANGED <<session, arrangement, open, visited, index, fullscreen, left, dropped>>

\* update_current_history
Remembered == IF index \in DOMAIN visited THEN [visited EXCEPT ![index] = open] ELSE visited

\* push_history: when the oldest entry goes, the index goes back from where
\* it was and not from the new entry.
Push(entries, entry) ==
  LET all == Append(SubSeq(entries, 1, index), entry)
      over == Len(all) > MaxHistoryEntries
  IN  /\ visited' = IF over THEN Tail(all) ELSE all
      /\ index' = IF over THEN Max({index - 1, 1}) ELSE Len(all)
      /\ dropped' = (dropped \/ over)

-----------------------------------------------------------------------------
(* The operations.                                                         *)

\* ReaderController::dispatch clears the overlay before every operation.
Dismissed == overlay' = NoPlace

ReaderInit ==
  /\ library = Documents /\ provided = Documents
  /\ arrangement = [statusBar |-> TRUE, large |-> FALSE]
  /\ open = PlaceOf(Entry, "none") /\ visited = <<open>> /\ index = 1 /\ cache = <<>>
  /\ fullscreen = FALSE /\ libraryEmpty = FALSE /\ overlay = NoPlace
  /\ left = NoPlace /\ dropped = FALSE

\* The end of next_page and previous_page.
MoveTo(passage) ==
  /\ open' = [open EXCEPT !.passage = passage]
  /\ visited' = IF index \in DOMAIN visited THEN [visited EXCEPT ![index] = open'] ELSE visited

\* next_page and previous_page, to the start of the page before or after.
TurnPage ==
  LET starts == PageStarts(arrangement)
      before == {start \in starts : start <= open.passage}
      after == starts \ before
  IN  /\ ~libraryEmpty /\ Dismissed
      /\ \/ after # {} /\ MoveTo(Min(after))
         \/ Cardinality(before) > 1 /\ MoveTo(Max(before \ {Max(before)}))
         \/ after = {} /\ UNCHANGED <<open, visited>>
         \/ Cardinality(before) = 1 /\ UNCHANGED <<open, visited>>
      /\ UNCHANGED <<session, arrangement, index, cache, fullscreen, left, dropped>>

\* Mutant: the entry is written after the reader has moved on.
FaultyLeave == [visited EXCEPT ![index] = open']

\* navigate_loaded, of the open document: the entry is given the origin.
Leave == [visited EXCEPT ![index] = open]

\* navigate_to_anchor, within the open document.
FollowAnchor ==
  /\ ~libraryEmpty /\ Dismissed
  /\ \E anchor \in Anchors \ {"none"} :
       IF anchor = "missing" \/ PlaceOf(open.document, anchor) = open
       THEN UNCHANGED <<open, visited, index, left, dropped>>
       ELSE /\ open' = PlaceOf(open.document, anchor) /\ left' = open
            /\ Push(Leave, open')
  /\ UNCHANGED <<session, arrangement, cache, fullscreen>>

\* follow_document, follow_document_anchor and navigate_to_location: the open
\* document has been cached when navigate_loaded looks at it.  The way home,
\* return_to_entry_point, is a link to the entry point.
FollowDocument ==
  /\ ~libraryEmpty /\ Dismissed
  /\ \E document \in Documents, anchor \in Anchors :
       \/ LoadFails(document, anchor)
       \/ /\ Loadable(document) /\ anchor # "missing"
          /\ cache' = CacheAfter(document)
          /\ open' = PlaceOf(document, anchor) /\ left' = open
          /\ Push(visited, open')
          /\ UNCHANGED <<session, arrangement, fullscreen>>

\* activate, of an external link.
FollowExternal ==
  /\ ~libraryEmpty /\ overlay' = open
  /\ UNCHANGED <<session, arrangement, open, visited, index, cache, fullscreen, left, dropped>>

\* move_history: the passage is that of the entry, whatever the layout was.
MoveHistory(target) ==
  /\ target \in DOMAIN visited /\ Dismissed
  /\ \E entries \in {Remembered} :
       /\ Loadable(entries[target].document)
       /\ cache' = CacheAfter(entries[target].document)
       /\ visited' = entries /\ open' = entries[target] /\ index' = target
  /\ left' = NoPlace
  /\ UNCHANGED <<session, arrangement, fullscreen, dropped>>

HistoryBack == ~libraryEmpty /\ MoveHistory(index - 1)
HistoryForward == ~libraryEmpty /\ MoveHistory(index + 1)

\* The first or the last entry, or its document cannot be read any more.
HistoryFails ==
  /\ ~libraryEmpty /\ Dismissed
  /\ \E target \in {index - 1, index + 1} :
       target \in DOMAIN visited => Remembered[target].document \notin ToSet(cache)
  /\ visited' = Remembered
  /\ UNCHANGED <<session, arrangement, open, index, cache, fullscreen, left, dropped>>

-----------------------------------------------------------------------------
(* Layout and bundle.                                                      *)

\* reflow_layout, also of the document that an empty library hides.
Reflow ==
  /\ Dismissed /\ cache' = <<>> /\ visited' = Remembered
  /\ UNCHANGED <<session, open, index, left, dropped>>

\* toggle_fullscreen hides the status bar or shows it again.
ToggleFullscreen ==
  /\ fullscreen' = ~fullscreen
  /\ arrangement' = [arrangement EXCEPT !.statusBar = ~fullscreen']
  /\ Reflow

\* set_font_scale_percent and its three variants.
SetFontScale ==
  /\ arrangement' = [arrangement EXCEPT !.large = ~arrangement.large]
  /\ Reflow /\ UNCHANGED fullscreen

\* set_orientation: the pages are others, the arrangement is the same.
SetOrientation == Reflow /\ UNCHANGED <<arrangement, fullscreen>>

\* prs-sync publishes another bundle, or clears the inbox.
Publish ==
  /\ library' \in {Documents, {Entry}, {}}
  /\ UNCHANGED <<provided, arrangement, open, visited, index, cache, fullscreen, libraryEmpty,
                 overlay, left, dropped>>

\* reload_current_bundle finds no bundle.
ReloadEmpty ==
  /\ library = {} /\ libraryEmpty' = TRUE /\ Dismissed
  /\ UNCHANGED <<library, provided, arrangement, open, visited, index, cache, fullscreen, left,
                 dropped>>

\* reload_current_bundle: a session of its own, which keeps the layout and
\* looks for the document and the anchor, not for the passage.  When it
\* cannot be opened the old one stays.
Reload ==
  /\ library # {} /\ libraryEmpty' = FALSE /\ Dismissed
  /\ provided' = library
  /\ fullscreen' = ~arrangement.statusBar
  /\ \E again \in {FALSE, ~libraryEmpty /\ open.document \in library}, found \in BOOLEAN :
       \E top \in {PlaceOf(IF again THEN open.document ELSE Entry, "none")} :
         /\ open' = IF again /\ found THEN PlaceOf(open.document, open.anchor) ELSE top
         /\ visited' = IF open' = top THEN <<top>> ELSE <<top, open'>>
         /\ index' = Len(visited')
         /\ cache' = IF again /\ CachedDocuments > 0 THEN <<Entry>> ELSE <<>>
  /\ left' = NoPlace /\ dropped' = FALSE
  /\ UNCHANGED <<library, arrangement>>

ReaderNext ==
  \/ TurnPage \/ FollowAnchor \/ FollowDocument \/ FollowExternal
  \/ HistoryBack \/ HistoryForward \/ HistoryFails
  \/ ToggleFullscreen \/ SetFontScale \/ SetOrientation \/ Publish \/ ReloadEmpty \/ Reload

ReaderSpec == ReaderInit /\ [][ReaderNext]_readerVars

-----------------------------------------------------------------------------
(* Properties.                                                             *)

ReaderTypeOK ==
  /\ {library, provided} \subseteq SUBSET Documents
  /\ arrangement \in Arrangements /\ open \in Places
  /\ visited \in Seq(Places) /\ Len(visited) \in 1 .. MaxHistoryEntries /\ index \in DOMAIN visited
  /\ cache \in Seq(Documents) /\ Len(cache) <= CachedDocuments /\ IsInjective(cache)
  /\ {fullscreen, libraryEmpty, dropped} \subseteq BOOLEAN
  /\ {overlay, left} \subseteq Places \union {NoPlace}

\* While no entry has been dropped the history names the place that is open,
\* so that no page turn, change of layout or failing load is forgotten by a
\* later Back; and the code of an external link is shown over the page it
\* was tapped on.
PlaceIsRemembered ==
  /\ ~dropped => visited[index] = open
  /\ overlay # NoPlace => overlay = open

\* Back undoes the last link: however pages were turned and the layout was
\* changed since, it opens the place the link was followed from.  Only while
\* no entry has been dropped.
LinkIsUndone == [][HistoryBack /\ left # NoPlace /\ ~dropped => open' = left]_readerVars

\* "Restore the prior document and page/logical cursor" (back, reader.rs): the
\* same, however many links have been followed.
BackRestores == [][HistoryBack /\ left # NoPlace => open' = left]_readerVars

=============================================================================
