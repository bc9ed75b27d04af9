----------------------------- MODULE Pagination -----------------------------
(***************************************************************************)
(* The paginator of prs-markdown (pagination.rs) over what the layout      *)
(* hands it (layout/mod.rs): blocks are laid out one under the other; then *)
(* a greedy scan of the lines breaks before a line by the rules for its    *)
(* kind of block, repeats the header of a table on every page it continues *)
(* on, and keeps a directory of the pages they are later rebuilt from.     *)
(*                                                                         *)
(* A step of the model is an iteration of one of the two loops.  Lines are *)
(* numbered through the document, and a line's cursor is its number; the   *)
(* end of the document is the number after the last.                       *)
(***************************************************************************)
EXTENDS Integers, Sequences

CONSTANTS
  Blocks,        \* the blocks a document is made of
  PageHeights,   \* heights of the viewport
  PaddingTop, PaddingBottom, \* page_padding
  Spacings,      \* heading_spacing_before, heading_spacing_after, paragraph_spacing
  MaxBlocks      \* of a document

VARIABLES
  pageHeight, spacing,
  blocks,   \* the number of blocks laid out
  lines,    \* the laid-out lines
  at,       \* the line the scan is at, or Nowhere
  filling,  \* the page that is filled
  layouts   \* the finished pages

paginationVars == <<pageHeight, spacing, blocks, lines, at, filling, layouts>>

Nowhere == 0

-----------------------------------------------------------------------------
(* The layout: LayoutEngine::layout, layout_content, render_table.         *)

\* "list" stands for lists, quotes, alerts, footnotes and code, whose lines
\* break anywhere; the Units are kept together where they fit.
Kinds == {"heading", "paragraph", "rule", "image", "table", "list"}
Units == {"paragraph", "rule", "image", "table"}

\* A block has lines, each with its place below the top of the block, and
\* rows, which are ranges of lines.  A block that is no table is one row; the
\* rows of a table belong to groups of columns, each of which has a header.
TableRow(first, last, group, header) ==
  [first |-> first, last |-> last, group |-> group, header |-> header]
LinePlaces == [top : Nat, bottom : Nat]
RowOf(block, n) == CHOOSE row \in block.rows : n \in row.first .. row.last
Headers(block, row) == {header \in block.rows : header.header /\ header.group = row.group}

ASSUME BlocksAssumption ==
  \A block \in Blocks :
    /\ block.kind \in Kinds
    /\ block.lines \in Seq(LinePlaces) /\ block.lines # <<>>
    /\ block.kind \in Units => block.lines[1].top = 0
    /\ \A row \in block.rows :
         /\ row.first \in DOMAIN block.lines /\ row.last \in row.first .. Len(block.lines)
         /\ row.header \in BOOLEAN
         /\ block.kind \in Units =>
              \A n \in row.first .. row.last : block.lines[n].bottom <= block.lines[row.last].bottom
    /\ \A row, other \in block.rows : row = other \/ row.last < other.first \/ other.last < row.first
    /\ \A n \in DOMAIN block.lines : \E row \in block.rows : n \in row.first .. row.last
    /\ IF block.kind = "table"
       THEN \A row \in block.rows :
              Headers(block, row) # {} /\ \A header \in Headers(block, row) : header.first <= row.first
       ELSE block.rows = {TableRow(1, Len(block.lines), 1, FALSE)}

ASSUME PageAssumption ==
  /\ PageHeights \subseteq Nat /\ PaddingTop \in Nat /\ PaddingBottom \in Nat
  /\ \A height \in PageHeights : height > PaddingTop + PaddingBottom
  /\ \A gaps \in Spacings : gaps.before \in Nat /\ gaps.heading \in Nat /\ gaps.other \in Nat

\* spacing_before, spacing_after
SpacingBefore(kind) == IF kind = "heading" THEN spacing.before ELSE 0
SpacingAfter(kind) == IF kind = "heading" THEN spacing.heading ELSE spacing.other

\* cursor_y, where the next block begins but for the spacing before it.
CursorY == IF lines = <<>> THEN PaddingTop
           ELSE lines[Len(lines)].bottom + SpacingAfter(lines[Len(lines)].kind)

\* The first line of the header of a row, in a block that begins with line
\* `first` (table_header_for_line).
HeaderLine(block, row, first) ==
  LET headers == Headers(block, row)
  IN  IF headers = {} THEN Nowhere ELSE first - 1 + (CHOOSE header \in headers : TRUE).first

\* A line of a block that begins with line `first` at height `top`: its place,
\* its block, its row, and the header of its group.
LineOf(block, n, first, top) ==
  LET row == RowOf(block, n)
  IN  [kind |-> block.kind,
       top |-> top + block.lines[n].top, bottom |-> top + block.lines[n].bottom,
       block |-> first, blockEnd |-> first + Len(block.lines),
       row |-> first - 1 + row.first, rowEnd |-> first + row.last, header |-> row.header,
       above |-> HeaderLine(block, row, first)]

BlockLines(block, first, top) == [n \in 1 .. Len(block.lines) |-> LineOf(block, n, first, top)]

-----------------------------------------------------------------------------
(* The rules, for a line and the page it would go on.                      *)

\* A page: its first line, what lies at its top, and the lines of the header
\* repeated there.
OpenPage(start, origin, header) == [start |-> start, origin |-> origin, header |-> header]
NoPage == OpenPage(Nowhere, 0, {})

Limit(on) == on.origin + pageHeight - PaddingBottom
Available == pageHeight - PaddingTop - PaddingBottom
Fits(n, on) == lines[n].bottom <= Limit(on)
Opens(n) == n = lines[n].block
Extent(from, to) == lines[to - 1].bottom - lines[from].top

\* block_fits_fresh_page
FitsFreshPage(n) == Extent(lines[n].block, lines[n].blockEnd) <= Available

\* A row moves as a unit, once.
RowMoves(n, on) == lines[n].kind = "table" /\ lines[n].row = n /\ ~Fits(lines[n].rowEnd - 1, on)

\* An oversized image that has begun the page stays on it.
ImageStays(n, on) == lines[n].kind = "image" /\ ~Opens(n) /\ on.start = lines[n].block

AtomicMoves(n, on) ==
  lines[n].kind \in {"rule", "image"} /\ Opens(n) /\ ~Fits(lines[n].blockEnd - 1, on)

\* A heading takes the next line with it.
HeadingMoves(n, on) ==
  lines[n].kind = "heading" /\ Opens(n) /\ n < Len(lines) /\ ~Fits(n + 1, on) /\ FitsFreshPage(n)

\* A short paragraph moves as a unit; a tail of two lines stays together, on
\* the page the paragraph began on.
ParagraphMoves(n, on) ==
  /\ lines[n].kind = "paragraph" /\ on.start <= lines[n].block
  /\ \/ Opens(n) /\ FitsFreshPage(n) /\ ~Fits(lines[n].blockEnd - 1, on)
     \/ n + 2 = lines[n].blockEnd /\ ~Fits(n + 1, on)

\* Mutant: a row of a table may be split anywhere.
FaultyBreaksBefore(n, on) ==
  \/ ~Fits(n, on) /\ ~ImageStays(n, on)
  \/ Fits(n, on) /\ (AtomicMoves(n, on) \/ HeadingMoves(n, on) \/ ParagraphMoves(n, on))

\* should_break_before, for a line that does not begin the page.
BreaksBefore(n, on) ==
  \/ RowMoves(n, on)
  \/ ~Fits(n, on) /\ ~ImageStays(n, on)
  \/ Fits(n, on) /\ (AtomicMoves(n, on) \/ HeadingMoves(n, on) \/ ParagraphMoves(n, on))

\* The header repeated above a line that begins a page.
Repeats(n) == lines[n].kind = "table" /\ ~lines[n].header /\ lines[n].above # Nowhere
HeaderAbove(n) ==
  IF Repeats(n) THEN lines[n].above .. (lines[lines[n].above].rowEnd - 1) ELSE {}

\* table_row_height
HeaderHeight(n) ==
  IF Repeats(n) THEN Extent(lines[n].above, lines[lines[n].above].rowEnd) ELSE 0

-----------------------------------------------------------------------------
(* layout_with_images and paginate                                         *)

PaginationInit ==
  /\ pageHeight \in PageHeights /\ spacing \in Spacings
  /\ blocks = 0 /\ lines = <<>>
  /\ at = Nowhere /\ filling = NoPage /\ layouts = <<>>

\* A block is laid out under the one before it.
LayBlock ==
  /\ at = Nowhere /\ blocks < MaxBlocks
  /\ blocks' = blocks + 1
  /\ \E block \in Blocks :
       lines' = lines \o BlockLines(block, Len(lines) + 1, CursorY + SpacingBefore(block.kind))
  /\ UNCHANGED <<pageHeight, spacing, at, filling, layouts>>

BeginScan ==
  /\ at = Nowhere /\ at' = 1
  /\ UNCHANGED <<pageHeight, spacing, blocks, lines, filling, layouts>>

Scanning == at # Nowhere /\ at <= Len(lines)

PageLayout(on, end) == [start |-> on.start, end |-> end, origin |-> on.origin, header |-> on.header]

\* A break: the finished page is pushed, and the line begins the next.
BreakPage ==
  /\ Scanning /\ filling.start # Nowhere /\ BreaksBefore(at, filling)
  /\ layouts' = Append(layouts, PageLayout(filling, at))
  /\ filling' = OpenPage(at, lines[at].top - PaddingTop - HeaderHeight(at), HeaderAbove(at))
  /\ at' = at + 1
  /\ UNCHANGED <<pageHeight, spacing, blocks, lines>>

AddLine ==
  /\ Scanning /\ (filling.start = Nowhere \/ ~BreaksBefore(at, filling))
  /\ filling' = [filling EXCEPT !.start = IF @ = Nowhere THEN at ELSE @]
  /\ at' = at + 1
  /\ UNCHANGED <<pageHeight, spacing, blocks, lines, layouts>>

\* The last page, an empty one for an empty document.
Finish ==
  /\ at = Len(lines) + 1 /\ at' = at + 1
  /\ layouts' = Append(layouts, PageLayout(IF filling.start = Nowhere THEN [filling EXCEPT !.start = at] ELSE filling, at))
  /\ UNCHANGED <<pageHeight, spacing, blocks, lines, filling>>

PaginationNext == LayBlock \/ BeginScan \/ BreakPage \/ AddLine \/ Finish

PaginationSpec == PaginationInit /\ [][PaginationNext]_paginationVars

-----------------------------------------------------------------------------
(* The directory, and what is drawn of a page.                             *)

\* page_origin_and_header, from the first line of a page alone.
Rebuilt(number, start) ==
  IF start \notin DOMAIN lines THEN [header |-> {}, origin |-> 0]
  ELSE [header |-> HeaderAbove(start),
        origin |-> (IF number = 1 THEN 0 ELSE lines[start].top - PaddingTop) - HeaderHeight(start)]

\* The rule above a line of a table (add_table_decoration).
RuledAbove(n, on) ==
  \/ n = lines[n].row /\ n = lines[n].block
  \/ n = on.start /\ n = lines[n].row /\ lines[n].header
  \/ \E above \in on.header : lines[above].row = above

-----------------------------------------------------------------------------
(* Properties, of the pages of a finished document.                        *)

PaginationTypeOK ==
  /\ at \in 0 .. Len(lines) + 2 /\ filling.start \in 0 .. Len(lines) /\ filling.origin \in Int
  /\ filling.header \subseteq 1 .. Len(lines)
  /\ \A p \in DOMAIN layouts : {layouts[p].start, layouts[p].end} \subseteq 1 .. Len(lines) + 1

Finished == at = Len(lines) + 2
PageOf(n) == CHOOSE p \in DOMAIN layouts : layouts[p].start <= n /\ n < layouts[p].end
Together(m, n) == PageOf(m) = PageOf(n)

\* Every page has a line and follows the page before; what is drawn of it is
\* within the page, but for a line that begins it and for what an oversized
\* image begins.
PagesFit ==
  \A p \in DOMAIN layouts :
    /\ p > 1 => layouts[p].start = layouts[p - 1].end
    /\ layouts[p].start < layouts[p].end \/ lines = <<>>
    /\ \A n \in layouts[p].start + 1 .. layouts[p].end - 1 :
         \/ Fits(n, layouts[p])
         \/ lines[n].kind = "image" /\ lines[n].block = layouts[p].start

\* What fits a fresh page is not split: a paragraph, a rule, an image, and a
\* row of a table under its header; and no paragraph that ends on the page
\* after the one it began on leaves its last line there alone.
UnitsStayTogether ==
  \A n \in DOMAIN lines :
    /\ lines[n].kind \in {"paragraph", "rule", "image"} /\ FitsFreshPage(n)
         => Together(lines[n].block, n)
    /\ lines[n].kind = "table" /\ Extent(lines[n].row, lines[n].rowEnd) + HeaderHeight(n) <= Available
         => Together(lines[n].row, n)
    /\ lines[n].kind = "paragraph" /\ n > lines[n].block + 1 /\ n + 1 = lines[n].blockEnd
         => \/ PageOf(n) # PageOf(lines[n].block) + 1
            \/ Together(n - 1, n)

\* A page rebuilt from the directory is drawn as the scan drew it, and no
\* part of a table is drawn without a rule above it, unless it is in the
\* middle of a header that does not fit a page.
DirectoryAgrees ==
  \A p \in DOMAIN layouts : LET start == layouts[p].start IN
    /\ Rebuilt(p, start) = [header |-> layouts[p].header, origin |-> layouts[p].origin]
    /\ start \in DOMAIN lines /\ lines[start].kind = "table"
         => \/ RuledAbove(start, layouts[p])
            \/ lines[start].header /\ Extent(lines[start].row, lines[start].rowEnd) > Available

PagesAreWellBroken == Finished => PagesFit /\ UnitsStayTogether /\ DirectoryAgrees

=============================================================================
