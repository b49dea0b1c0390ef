-------------------------------- MODULE Rendering --------------------------------
(***************************************************************************)
(* How a message's Markdown is adapted to the channels                     *)
(* (pkg/notifier/render.go).  A text is a sequence of lines, a line's      *)
(* characters the code points after its mark, if it is a bullet.  The kinds *)
(* of lines: text, bullet, dot and blank ones; rows and separators that    *)
(* begin with a bar; bare separators, which do not; items, which rows      *)
(* become.  A font is a color, or none; its tags are not in the characters. *)
(***************************************************************************)
EXTENDS Integers, Sequences, FiniteSets, FiniteSetsExt, SequencesExt

CONSTANT SuffixBytes  \* truncationSuffix: 35 bytes

ASSUME RenderingAssumption == SuffixBytes \in Nat

LineKinds == {"text", "bullet", "dot", "blank", "row", "separator", "bare", "item"}
Fonts     == {"none", "info", "comment", "warning", "green", "gray", "red"}

TextLines == [kind: LineKinds, font: Fonts, chars: Seq(Nat), cells: Seq(Seq(Nat))]

Newline == 10
Space   == 32
Star    == 42
Dash    == 45
Bar     == 124
Middot  == 183
Dot     == 8226   \* the dot that WeChat gets for a bullet
Colon   == 65306  \* the wide one

IsTableLine(l) == l.kind \in {"row", "separator"}
IsSeparator(l) == l.kind \in {"separator", "bare"}

\* A line of a table with the cells that splitTableRow finds between its bars.
TableLine(kind, cells) ==
  [kind |-> kind, font |-> "none", cells |-> cells,
   chars |-> <<Bar>> \o FlattenSeq([n \in DOMAIN cells |-> cells[n] \o <<Bar>>])]

Bold(chars) == <<Star, Star>> \o chars \o <<Star, Star>>

\* A cell after its column's title, if it has one that is not the cell again.
Titled(titles, cells, n) ==
  (IF n \in DOMAIN titles /\ titles[n] \notin {<<>>, cells[n]}
     THEN titles[n] \o <<Space>> ELSE <<>>) \o cells[n]

\* A line with one cell more: the first is the label; the others follow a colon
\* or a middle dot, unless they are empty or a dash.
WithCell(chars, titles, cells, n) ==
  IF n = 1 THEN Bold(cells[1])
  ELSE IF cells[n] \in {<<>>, <<Dash>>} THEN chars
  ELSE chars \o (IF chars = Bold(cells[1]) THEN <<Colon>> ELSE <<Space, Middot, Space>>)
             \o Titled(titles, cells, n)

\* The cells of a row in one line.
RowText(titles, cells) ==
  LET upTo[n \in 0..Len(cells)] ==
        IF n = 0 THEN <<>> ELSE WithCell(upTo[n - 1], titles, cells, n)
  IN upTo[Len(cells)]

TableRowToLine(titles, l) ==
  [l EXCEPT !.kind = "item", !.chars = RowText(titles, l.cells)]

\* Is line i the first of a table?
StartsTable(lines, i) ==
  i < Len(lines) /\ IsTableLine(lines[i]) /\ IsSeparator(lines[i + 1])

\* The first line from i on that is no table line.
TableEnd(lines, i) ==
  Min({k \in i..(Len(lines) + 2) : k > Len(lines) \/ ~IsTableLine(lines[k])})

\* Mutant: the line after a table is taken for a part of it.
AfterAndNext(lines, i) ==
  IF StartsTable(lines, i) THEN TableEnd(lines, i + 2) + 1 ELSE i + 1

\* Where the scan goes on after line i, or after the table it starts.
After(lines, i) ==
  IF StartsTable(lines, i) THEN TableEnd(lines, i + 2) ELSE i + 1

\* What becomes of them: a title and its separator are dropped, the rows under
\* them become items.
Flattened(lines, i) ==
  IF StartsTable(lines, i)
    THEN [k \in 1..(TableEnd(lines, i + 2) - i - 2) |->
            TableRowToLine(lines[i].cells, lines[i + 1 + k])]
  ELSE <<lines[i]>>

SanitizeTables(lines) ==
  LET from[i \in 1..(Len(lines) + 2)] ==
        IF i > Len(lines) THEN <<>> ELSE Flattened(lines, i) \o from[After(lines, i)]
  IN from[1]

\* WeChat knows three colors.
NormalizedFont(font) ==
  CASE font \in {"none", "info", "comment", "warning"} -> font
    [] font = "green" -> "info"
    [] font = "gray"  -> "comment"
    [] OTHER          -> "warning"

NormalizeWeChatFonts(lines) ==
  [i \in DOMAIN lines |-> [lines[i] EXCEPT !.font = NormalizedFont(@)]]

StripFontTags(lines) == [i \in DOMAIN lines |-> [lines[i] EXCEPT !.font = "none"]]

BulletsForWeChat(lines) ==
  [i \in DOMAIN lines |->
     IF lines[i].kind = "bullet" THEN [lines[i] EXCEPT !.kind = "dot"] ELSE lines[i]]

\* One blank line at most between others: a second one is not taken.
Taken(lines, n) ==
  IF n > 1 /\ lines[n].kind = "blank" /\ lines[n - 1].kind = "blank" THEN <<>> ELSE <<lines[n]>>

CompactBlankLines(lines) ==
  LET upTo[n \in 0..Len(lines)] ==
        IF n = 0 THEN <<>> ELSE upTo[n - 1] \o Taken(lines, n)
  IN upTo[Len(lines)]

\* strings.TrimSpace: no blank line at either end.
TrimSpace(lines) ==
  LET filled == {i \in DOMAIN lines : lines[i].kind # "blank"} IN
  IF filled = {} THEN <<>> ELSE SubSeq(lines, Min(filled), Max(filled))

Adapted(channel, lines) ==
  LET flat == SanitizeTables(lines) IN
  TrimSpace(CompactBlankLines(
    IF channel = "wechat" THEN BulletsForWeChat(NormalizeWeChatFonts(flat))
    ELSE StripFontTags(flat)))

-----------------------------------------------------------------------------

\* utf8.RuneLen: the bytes of a character.
RuneLen(char) ==
  CASE char < 128   -> 1
    [] char < 2048  -> 2
    [] char < 65536 -> 3
    [] OTHER        -> 4

Marked(l) ==
  CASE l.kind = "bullet" -> <<Dash, Space>> \o l.chars
    [] l.kind = "dot"    -> <<Dot, Space>> \o l.chars
    [] OTHER             -> l.chars

\* The characters of a text: lines are joined by a newline.
Characters(lines) ==
  FlattenSeq([i \in DOMAIN lines |->
                IF i = 1 THEN Marked(lines[i]) ELSE <<Newline>> \o Marked(lines[i])])

\* Their widths in bytes.
Widths(lines) ==
  LET text == Characters(lines) IN [n \in DOMAIN text |-> RuneLen(text[n])]

\* Where the characters begin, and where the last one ends.
Offsets(w) ==
  LET at[n \in 0..Len(w)] == IF n = 0 THEN 0 ELSE at[n - 1] + w[n] IN at

Bytes(w)      == Offsets(w)[Len(w)]
Boundaries(w) == {Offsets(w)[n] : n \in 0..Len(w)}

\* The byte the scan for a cut begins at.
Room(limit) == IF limit > SuffixBytes THEN limit - SuffixBytes ELSE 0

\* utf8.RuneStart of the byte at an offset within the text.
RuneStart(w, k) == k \in Boundaries(w)

\* Mutant: the cut may fall into a character.
CutAnywhere(w, limit) == Room(limit)

\* Back from there to the start of a character.
CutAt(w, limit) ==
  LET back[k \in 0..Room(limit)] ==
        IF k > 0 /\ ~RuneStart(w, k) THEN back[k - 1] ELSE k
  IN back[Room(limit)]

\* How many bytes of the text are kept, and the length of what is sent.
TruncateBytes(w, limit) ==
  IF Bytes(w) <= limit THEN [kept |-> Bytes(w), length |-> Bytes(w)]
  ELSE [kept |-> CutAt(w, limit), length |-> CutAt(w, limit) + SuffixBytes]

=============================================================================
