---------------------------- MODULE BlockNesting ----------------------------
(***************************************************************************)
(* Where prs-markdown puts the lines of nested blocks (layout/mod.rs):     *)
(* lists with their markers, quotes, alerts and footnotes around text,     *)
(* headings and code.  How text breaks is in LineWrapping; here a text is  *)
(* the number of its lines, each as wide as its box.                       *)
(***************************************************************************)
EXTENDS Integers, Sequences, SequencesExt, FiniteSetsExt

Smaller(a, b) == IF a < b THEN a ELSE b
Larger(a, b) == IF a < b THEN b ELSE a
Sub(a, b) == Larger(a - b, 0)

\* ReaderStyle::default, and a marker of one width.
LineHeights == [paragraph |-> 22, heading |-> 28, code |-> 20]
BodyHeight == LineHeights["paragraph"]
ParagraphSpacing == 12
HeadingBefore == 20
HeadingAfter == 8
QuoteIndent == 24
QuotePadding == 8
ListIndent == 24
ItemSpacing(tight) == IF tight THEN 0 ELSE 4
MarkerWidth == 13
CheckboxWidth == 12 + 4

\* Blocks: <<"text", kind, lines>>, <<"quote", blocks>>, <<"alert", blocks>>,
\* <<"footnote", blocks>> and <<"list", ordered, tight, items>>.  An item has
\* lines of its own, or none, then children, and may be a task.
Item(content, children, task) == [content |-> content, children |-> children, task |-> task]

\* `marks` counts the markers on a line.
TextLine(kind, top, left, width) ==
  [kind |-> kind, top |-> top, height |-> LineHeights[kind], left |-> left, right |-> left + width,
   marks |-> 0, task |-> FALSE]

TextLines(kind, count, y, x, width) ==
  [n \in 1 .. Larger(count, 1) |-> TextLine(kind, y + (n - 1) * LineHeights[kind], x, width)]

IsHeading(block) == block[1] = "text" /\ block[2] = "heading"
SpacingBefore(block) == IF IsHeading(block) THEN HeadingBefore ELSE 0
SpacingAfter(block) == IF IsHeading(block) THEN HeadingAfter ELSE ParagraphSpacing
ChildSpacing(tight, block) == IF tight /\ ~ IsHeading(block) THEN 0 ELSE SpacingAfter(block)

Bottom(lines, y) == IF lines = <<>> THEN y ELSE Last(lines).top + Last(lines).height

\* append_lines, then the spacing.
AppendLines(st, lines, spacing) ==
  [lines |-> st.lines \o lines, y |-> Bottom(lines, st.y) + spacing]

\* The width of the marker column: the widest marker of the list.
MarkerColumn(ordered, items, width) ==
  Smaller(Max({0} \union
              {LET item == items[i]
               IN  IF item.task THEN IF ordered THEN MarkerWidth + CheckboxWidth
                                     ELSE Larger(MarkerWidth, CheckboxWidth)
                   ELSE MarkerWidth : i \in DOMAIN items}), width)

\* prepend_list_marker: the first line of the item is widened to the marker and
\* made as high as body text; the lines after it stay where they are.
Marked(lines, item, ordered, itemX, markerWidth) ==
  [lines EXCEPT ![1] =
     [@ EXCEPT !.left = itemX, !.right = Larger(@, itemX + markerWidth),
               !.height = Larger(@, BodyHeight),
               !.marks = @ + (IF item.task /\ ~ ordered THEN 0 ELSE 1),
               !.task = @ \/ item.task]]

RECURSIVE Lines(_, _, _, _)

\* Blocks one under the other: quote_lines, alert_lines, footnote_lines.
Stack(first, blocks, y, x, width) ==
  FoldLeft(LAMBDA st, block :
             LET start == st.y + SpacingBefore(block)
             IN  AppendLines(st, Lines(block, start, x, width), SpacingAfter(block)),
           [lines |-> first, y |-> Bottom(first, y)], blocks)

\* One item of append_list_lines_with_images.
AppendItem(st, item, ordered, tight, itemX, markerWidth, textX, textWidth) ==
  LET leading == item.content = 0 /\ item.children # <<>>
      own == CASE item.content > 0 ->
                    AppendLines(st, Marked(TextLines("paragraph", item.content, st.y, textX, textWidth),
                                           item, ordered, itemX, markerWidth), 0)
               [] leading ->
                    LET child == item.children[1]
                        start == st.y + SpacingBefore(child)
                    IN  AppendLines(st, Marked(Lines(child, start, textX, textWidth),
                                               item, ordered, itemX, markerWidth), SpacingAfter(child))
               [] OTHER ->
                    AppendLines(st, Marked(<<TextLine("paragraph", st.y, itemX, markerWidth)>>,
                                           item, ordered, itemX, markerWidth), 0)
      gap == IF ~ tight /\ item.content > 0 /\ item.children # <<>> THEN ParagraphSpacing ELSE 0
      rest == FoldLeft(LAMBDA s, child :
                         LET start == s.y + SpacingBefore(child)
                         IN  AppendLines(s, Lines(child, start, textX, textWidth),
                                         ChildSpacing(tight, child)),
                       [own EXCEPT !.y = @ + gap],
                       IF leading THEN Tail(item.children) ELSE item.children)
  IN  [rest EXCEPT !.y = @ + ItemSpacing(tight)]

ListLines(ordered, tight, items, y, x, width) ==
  LET indent == Smaller(ListIndent, width)
      marker == MarkerColumn(ordered, items, width - indent)
      textX == x + indent + marker
  IN  FoldLeft(LAMBDA st, item :
                 AppendItem(st, item, ordered, tight, x + indent, marker, textX, width - indent - marker),
               [lines |-> <<>>, y |-> y], items).lines

\* layout_content
Lines(block, y, x, width) ==
  LET indent == Smaller(QuoteIndent, width) + Smaller(QuotePadding, width)
      EmptyOr(lines, left) == IF lines = <<>> THEN <<TextLine("paragraph", y, left, 0)>> ELSE lines
  IN  CASE block[1] = "text" -> TextLines(block[2], block[3], y, x, width)
        [] block[1] = "quote" ->
             EmptyOr(Stack(<<>>, block[2], y, x + indent, Sub(width, indent)).lines, x + indent)
        [] block[1] = "alert" ->
             Stack(TextLines("paragraph", 1, y, x + indent, Sub(width, indent)), block[2],
                   y, x + indent, Sub(width, indent)).lines
        [] block[1] = "footnote" ->
             LET opening == block[2] # <<>> /\ block[2][1][1] = "text" /\ block[2][1][2] = "paragraph"
             IN  Stack(TextLines("paragraph", IF opening THEN block[2][1][3] ELSE 1, y, x, width),
                       IF opening THEN Tail(block[2]) ELSE block[2], y, x, width).lines
        [] block[1] = "list" -> EmptyOr(ListLines(block[2], block[3], block[4], y, x, width), x)

-----------------------------------------------------------------------------
(* What it promises.                                                       *)

\* The markers a block has to show: tasks of an unordered list have a box.
RECURSIVE Markers(_)
MarkersIn(blocks) == FoldLeft(LAMBDA sum, block : sum + Markers(block), 0, blocks)
Markers(block) ==
  CASE block[1] = "text" -> 0
    [] block[1] = "list" ->
         FoldLeft(LAMBDA sum, item :
                    sum + (IF item.task /\ ~ block[2] THEN 0 ELSE 1) + MarkersIn(item.children),
                  0, block[4])
    [] OTHER -> MarkersIn(block[2])

\* The lines of nested blocks are in reading order and do not overlap, but for
\* code that is the first thing in an item: its first line is made as high as
\* the marker while the second stays.  Nothing is left of its box, and nothing
\* right of it where each level has its indent; every item keeps its marker.
NestingIsSound(block, width, roomy) ==
  LET lines == Lines(block, 0, 0, width)
      Overlap(line) == IF line.kind = "code" /\ (line.marks > 0 \/ line.task)
                         THEN BodyHeight - LineHeights["code"] ELSE 0
  IN  /\ lines # <<>> /\ lines[1].top >= 0
      /\ \A n \in 2 .. Len(lines) :
           lines[n].top >= lines[n - 1].top + lines[n - 1].height - Overlap(lines[n - 1])
      /\ \A n \in DOMAIN lines : /\ lines[n].left >= 0
                                 /\ width >= roomy => lines[n].right <= width
      /\ FoldLeft(LAMBDA sum, line : sum + line.marks, 0, lines) = Markers(block)
=============================================================================
