---------------------------- MODULE TableLayout ----------------------------
(***************************************************************************)
(* How prs-markdown lays out a table (layout/mod.rs, table_lines): the     *)
(* size of its text, the widths of its columns, and the groups of columns  *)
(* a table too wide for the page continues in.                             *)
(*                                                                         *)
(* A cell is the number of characters of its longest word and of its text; *)
(* a character is half as wide as the font is high.  Columns are numbered  *)
(* from one; the first is the key.                                         *)
(***************************************************************************)
EXTENDS Integers, Sequences, SequencesExt, FiniteSetsExt

CONSTANTS
  BodyFont,    \* body.font_size
  MinFont,     \* table_min_font_size
  Padding,     \* table_cell_padding
  BorderWidth  \* table_border.width

Least(a, b) == IF a < b THEN a ELSE b
Most(a, b) == IF a < b THEN b ELSE a
Less(a, b) == Most(a - b, 0)
Total(widths) == FoldLeft(LAMBDA sum, w : sum + w, 0, widths)

\* table_text_style
Modes == <<"normal", "compact", "aggressive">>
FontSize(mode) ==
  LET target == [normal |-> BodyFont, compact |-> (BodyFont * 3) \div 4,
                 aggressive |-> (BodyFont * 2) \div 3][mode]
  IN  IF mode = "normal" THEN BodyFont
      ELSE Most(Most(target, Least(MinFont, Most(BodyFont, 1))), 1)

\* table_columns and table_cell_metrics: a word is given five ems at most.
CharacterWidth(font) == Most(font \div 2, 1)
Column(cells, font) ==
  LET width == CharacterWidth(font)
      minimum == Max({Most(Least(cell.word * width, Most(font * 5, 1)),
                           Least(cell.word, 1) * width) : cell \in cells})
  IN  [minimum |-> minimum, preferred |-> Most(Max({cell.text * width : cell \in cells}), minimum)]
Columns(table, font) == [i \in DOMAIN table |-> Column(table[i], font)]

\* table_group_overhead and table_group_width
Overhead(count) == count * Padding * 2 + (count + 1) * Most(BorderWidth, 1)
GroupWidth(widths) == Overhead(Len(widths)) + Total(widths)

-----------------------------------------------------------------------------
(* The widths of a group.  No widths are <<>>.                             *)

\* Columns grow toward what they prefer, in proportion to what they lack; when
\* no share comes to a pixel, the first that lacks most gets one.
RECURSIVE Grow(_, _, _)
Grow(widths, preferred, remaining) ==
  LET lack == [i \in DOMAIN widths |-> Less(preferred[i], widths[i])]
      all == Total(lack)
      share == [i \in DOMAIN widths |->
                  IF all = 0 THEN 0 ELSE Least((remaining * lack[i]) \div all, lack[i])]
      neediest == CHOOSE i \in DOMAIN lack :
                    \A j \in DOMAIN lack : lack[j] < lack[i] \/ (lack[j] = lack[i] /\ i <= j)
      given == IF Total(share) > 0 THEN share
               ELSE [i \in DOMAIN widths |-> IF i = neediest THEN 1 ELSE 0]
  IN  IF remaining = 0 \/ all = 0 THEN [widths |-> widths, remaining |-> remaining]
      ELSE Grow([i \in DOMAIN widths |-> widths[i] + given[i]], preferred, remaining - Total(given))

\* What is left is dealt out one pixel at a time.
Spread(grown) ==
  LET n == Len(grown.widths)
  IN  [i \in 1 .. n |-> grown.widths[i] + grown.remaining \div n
                         + IF i <= grown.remaining % n THEN 1 ELSE 0]

\* allocate_table_widths: each column gets its minimum, if there is room for
\* them, else one pixel where the mode is the last.
AllocateFrom(minimums, preferred, available) ==
  Spread(Grow(minimums, preferred, available - Total(minimums)))

Allocate(group, columns, width, aggressive) ==
  LET n == Len(group)
      available == width - Overhead(n)
      wanted == [i \in 1 .. n |-> IF aggressive THEN Most(BodyFont, MinFont) + 8
                                               ELSE Most(columns[group[i]].minimum, 1)]
      preferred == [i \in 1 .. n |-> Most(columns[group[i]].preferred, wanted[i])]
      crowded == Total(wanted) > available
  IN  IF available < n \/ (crowded /\ ~ aggressive) THEN <<>>
      ELSE AllocateFrom(IF crowded THEN [i \in 1 .. n |-> 1] ELSE wanted, preferred, available)

\* table_widths_are_readable
Readable(widths, font) ==
  Len(widths) <= 1
  \/ \A i \in DOMAIN widths : widths[i] >= Max({font + 8, MinFont + 8, 12})

Fits(group, columns, width, font, aggressive) ==
  \E widths \in {Allocate(group, columns, width, aggressive)} :
    widths # <<>> /\ Readable(widths, font)

\* table_widths_are_useful
Useful(columns, widths, width) ==
  \/ Len(columns) < 6
  \/ /\ Total([i \in DOMAIN columns |-> columns[i].preferred]) <= Less(width, Overhead(Len(columns))) * 2
     /\ \A i \in DOMAIN columns : columns[i].preferred <= widths[i] * 3

-----------------------------------------------------------------------------
(* The groups.                                                             *)

\* group_preferred_width
GroupPreference(group, columns, width) ==
  LET available == Less(width, Overhead(Len(group)))
      key == IF 1 \in ToSet(group) THEN Least(Most(columns[1].minimum, 1), available) ELSE 0
  IN  Total([i \in DOMAIN group |->
               Least(Most(columns[group[i]].preferred, 1),
                     IF group[i] = 1 THEN available ELSE Less(available, key))])

\* make_table_group: the columns and their widths, one pixel each at worst.
OrOnePixel(widths, font, count) ==
  IF widths # <<>> /\ Readable(widths, font) THEN widths ELSE [i \in 1 .. count |-> 1]

Group(group, columns, width, font, aggressive) ==
  [columns |-> group,
   widths |-> OrOnePixel(Allocate(group, columns, width, aggressive), font, Len(group))]

\* The loop of render_grouped_table over the columns after the key: a column
\* joins the pending group, or that is closed and the column begins another,
\* beside the key if the two can be read.
Begin(groups, index, columns, width, font, aggressive) ==
  IF Fits(<<1, index>>, columns, width, font, aggressive)
    THEN [groups |-> groups, pending |-> <<1, index>>]
    ELSE [groups |-> Append(groups, Group(<<index>>, columns, width, font, TRUE)),
          pending |-> <<1>>]

NextColumn(st, index, columns, width, font, aggressive) ==
  LET candidate == Append(st.pending, index)
  IN  IF /\ GroupPreference(candidate, columns, width) <= Less(width, Overhead(Len(candidate)))
         /\ Fits(candidate, columns, width, font, aggressive)
        THEN [st EXCEPT !.pending = candidate]
        ELSE Begin(Append(st.groups, Group(st.pending, columns, width, font, aggressive)),
                   index, columns, width, font, aggressive)

\* The last group, which may hold nothing but the key when others were closed.
Closed(st, columns, width, font, aggressive) ==
  IF Len(st.pending) > 1 \/ st.groups = <<>>
    THEN Append(st.groups, Group(st.pending, columns, width, font, aggressive))
    ELSE st.groups

RECURSIVE GroupedFrom(_, _, _, _, _, _)
GroupedFrom(st, index, columns, width, font, aggressive) ==
  IF index > Len(columns) THEN Closed(st, columns, width, font, aggressive)
  ELSE GroupedFrom(NextColumn(st, index, columns, width, font, aggressive), index + 1,
                   columns, width, font, aggressive)

Grouped(columns, width, font, aggressive) ==
  GroupedFrom([groups |-> <<>>, pending |-> <<1>>], 2, columns, width, font, aggressive)

\* table_lines: the first size of text in which the columns fit side by side
\* decides, and if they would be cramped the table is continued at that size.
FitsAt(table, width, mode) ==
  Fits([i \in DOMAIN table |-> i], Columns(table, FontSize(mode)), width, FontSize(mode),
       mode = "aggressive")

Cramped(columns, width, aggressive) ==
  ~ Useful(columns, Allocate([i \in DOMAIN columns |-> i], columns, width, aggressive), width)

LaidOut(columns, width, font, aggressive, continued) ==
  IF continued \/ Cramped(columns, width, aggressive)
    THEN Grouped(columns, width, font, aggressive)
    ELSE <<Group([i \in DOMAIN columns |-> i], columns, width, font, aggressive)>>

TableGroups(table, width) ==
  LET fitting == {n \in 1 .. 3 : FitsAt(table, width, Modes[n])}
      mode == IF fitting = {} THEN "aggressive" ELSE Modes[Min(fitting)]
  IN  IF table = <<>> THEN <<>>
      ELSE LaidOut(Columns(table, FontSize(mode)), width, FontSize(mode), mode = "aggressive",
                   fitting = {})

\* render_table_row: the heights of the lines of its cells, line by line side by
\* side; the rectangles of the row's lines, from the top.
RowLines(cells, top, padding) ==
  LET count == Max({Len(cells[i]) : i \in DOMAIN cells})
      height == [n \in 1 .. count |-> Max({cells[i][n] : i \in {j \in DOMAIN cells : n <= Len(cells[j])}})]
  IN  [n \in 1 .. count |->
         [top |-> top + Total(SubSeq(height, 1, n - 1)) + IF n = 1 THEN 0 ELSE padding,
          height |-> height[n] + (IF n = 1 THEN padding ELSE 0) + IF n = count THEN padding ELSE 0]]

\* align_cell_lines
Aligned(used, width, alignment) ==
  CASE alignment = "center" -> Less(width, used) \div 2
    [] alignment = "right" -> Less(width, used)
    [] OTHER -> 0

-----------------------------------------------------------------------------
(* What it promises.                                                       *)

\* Every column is shown: the key, and each other column in one group, in
\* order.  A group fills the width exactly, neither wider nor narrower, wherever
\* the frame of one column leaves a pixel; and a group lacks the key only where
\* the two cannot both be read.
TableIsSound(table, width) ==
  \E groups \in {TableGroups(table, width)}, last \in {Columns(table, FontSize("aggressive"))} :
    /\ FlattenSeq([g \in DOMAIN groups |->
                     SelectSeq(groups[g].columns, LAMBDA column : column # 1)])
         = [i \in 1 .. Less(Len(table), 1) |-> i + 1]
    /\ table # <<>> => \E g \in DOMAIN groups : groups[g].columns[1] = 1
    /\ \A g \in DOMAIN groups :
         /\ groups[g].columns # <<>> /\ Len(groups[g].columns) = Len(groups[g].widths)
         /\ \A i \in DOMAIN groups[g].widths : groups[g].widths[i] > 0
         /\ width > Overhead(1) => GroupWidth(groups[g].widths) = width
         /\ groups[g].columns[1] # 1 =>
              ~ Fits(<<1, groups[g].columns[1]>>, last, width, FontSize("aggressive"), TRUE)

\* The lines of a row follow one another without overlap, each is as high as its
\* highest cell, and aligned text stays within its cell.
RowIsSound(cells, padding, used, alignment, width) ==
  LET lines == RowLines(cells, 0, padding)
  IN  /\ \A n \in 2 .. Len(lines) : lines[n].top = lines[n - 1].top + lines[n - 1].height
      /\ \A i \in DOMAIN cells : Len(lines) >= Len(cells[i])
                                 /\ \A n \in DOMAIN cells[i] : lines[n].height >= cells[i][n]
      /\ used <= width => Aligned(used, width, alignment) + used <= width
=============================================================================
