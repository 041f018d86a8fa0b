----------------------------- MODULE DisplayPages -----------------------------
(***************************************************************************)
(* The pages of the OLED display (display.c): which page is shown, what    *)
(* the lines of the buffer hold, and the gauge of a magnetic key.  The     *)
(* buffer and its rendering are QMK's, modelled as display.c relies on     *)
(* them: nothing is rendered while the panel scrolls, scrolling is not     *)
(* started before all is rendered, and a command that fails leaves         *)
(* oled_scrolling as it was.  The panel is never switched off, and a       *)
(* rendering that fails is taken as not done yet.                          *)
(***************************************************************************)
EXTENDS Integers

CONSTANT GaugeValues \* bound: readings and points of a key

ASSUME GaugeAssumption == GaugeValues \subseteq 0 .. 4095

PageNames == <<"Info", "U1Walking", "SelectedKey", "InputDevice">>
Pages     == {PageNames[k] : k \in 1 .. 4}
Lines     == 0 .. 7
Blank     == [k \in Lines |-> "blank"]

VARIABLES
  target,    \* the key of SelectedKey: a reading, its points and the data bytes
  page,      \* display_mode
  lastInput, \* display_last_input: "none", or "some" once a key was used
  buffer,    \* the lines of the buffer: who wrote them
  glass,     \* what the panel shows of them
  scrolls,   \* oled_scrolling
  gauge,     \* what SelectedKey has drawn
  drawn,     \* history: the page was drawn since it or the last input changed
  offFailed  \* history: the last command to stop scrolling failed

pageVars == <<target, page, lastInput, buffer, glass, scrolls, gauge, drawn, offFailed>>

Targets == [reading : GaugeValues, actuation : GaugeValues, reset : GaugeValues, bytes : {1, 2, 4, 6}]
NoGauge == [filled |-> 0, ap |-> 0, rp |-> 0]

PagesInit ==
  /\ target \in Targets \* bound: one key, one reading
  /\ page = "Info" /\ lastInput = "none"
  /\ buffer = Blank /\ glass = Blank /\ scrolls = FALSE
  /\ gauge = NoGauge /\ drawn = FALSE /\ offFailed = FALSE

(***************************************************************************)
(* Changing the page.                                                      *)
(***************************************************************************)

\* Bugs to detect: a new page is drawn over the old one; scrolling is not stopped.
NotCleared(new)           == buffer
StillScrolling(new, sent) == scrolls

\* display_set_mode with oled_clear and oled_scroll_off, whose result it ignores:
\* the channel or the transmission may fail, and the next page tries again.
Cleared(new)           == IF new # page THEN Blank ELSE buffer
ScrollsWith(new, sent) == scrolls /\ (new = page \/ ~sent)

SetPage(new) ==
  /\ page' = new
  /\ buffer' = Cleared(new)
  /\ \E sent \in BOOLEAN :
       /\ scrolls' = ScrollsWith(new, sent)
       /\ offFailed' = IF scrolls /\ new # page THEN ~sent ELSE offFailed
  /\ drawn' = (drawn /\ new = page)
  /\ UNCHANGED <<target, lastInput, glass, gauge>>

\* process_record_kb_display: the key NEXT_OLED_PAGE.
PageKey == \E k \in 1 .. 4 : page = PageNames[k] /\ SetPage(PageNames[(k % 4) + 1])

\* The parameter display_mode and display_set_keypress_target.
HostPage == \E new \in Pages : SetPage(new)

\* display_record_key_input and display_record_encoder_input.
RecordInput ==
  /\ lastInput' = "some"
  /\ drawn' = (drawn /\ lastInput = "some")
  /\ UNCHANGED <<target, page, buffer, glass, scrolls, gauge, offFailed>>

(***************************************************************************)
(* Drawing.                                                                *)
(***************************************************************************)

\* The lines oled_task_kb writes for a page; the others keep what they have.
PageText ==
  CASE page = "Info"        -> [k \in 0 .. 6 |-> "info"]
    [] page = "U1Walking"   -> [k \in Lines |-> "logo"]
    [] page = "SelectedKey" -> [k \in {0, 1, 2, 4, 5, 7} |-> "key"]
    [] OTHER -> IF lastInput = "none" THEN [k \in {0, 2, 4, 6, 7} |-> "no input"]
                ELSE [k \in {0, 2, 4, 6} |-> "input"]

\* oled_set_cursor and oled_write: text takes the place of the lines it is on.
Over(text, lines) == [k \in Lines |-> IF k \in DOMAIN text THEN text[k] ELSE lines[k]]

\* A bug to detect: the points are not brought to the scale of the reading.
Unscaled(point, bits) == point

\* magkey_value_shift: points have twelve bits, a reading has fewer.
Scaled(point, bits) == point \div 2 ^ (12 - bits)

BarWidth == 15

\* The mark of a point: on the last cell of the bar at most.
Mark(value, max) ==
  LET at == (value * BarWidth) \div max
  IN  IF at >= BarWidth THEN BarWidth - 1 ELSE at

\* magkey_bits_per_value, for four keys.
BitsOf(bytes) == (bytes * 8) \div 4
TopOf(bits)   == 2 ^ bits - 1

\* A reading that was cached at a higher resolution is cut to the top.
Reading == IF target.reading > TopOf(BitsOf(target.bytes)) THEN TopOf(BitsOf(target.bytes))
           ELSE target.reading

\* SelectedKey: the cells of the bar and the marks of the points.
GaugeOf ==
  LET bits == BitsOf(target.bytes)
      max  == TopOf(bits)
  IN  [filled |-> (Reading * BarWidth) \div max,
       ap     |-> Mark(Scaled(target.actuation, bits), max),
       rp     |-> Mark(Scaled(target.reset, bits), max)]

\* oled_task_kb; the command of oled_scroll_right may fail as well.
Draw ==
  /\ buffer' = Over(PageText, buffer)
  /\ gauge' = IF page = "SelectedKey" THEN GaugeOf ELSE gauge
  /\ \E sent \in BOOLEAN : scrolls' = (scrolls \/ (page = "U1Walking" /\ buffer' = glass /\ sent))
  /\ drawn' = TRUE
  /\ UNCHANGED <<target, page, lastInput, glass, offFailed>>

\* oled_render
Render ==
  /\ ~scrolls
  /\ glass' = buffer
  /\ UNCHANGED <<target, page, lastInput, buffer, scrolls, gauge, drawn, offFailed>>

PagesNext == PageKey \/ HostPage \/ RecordInput \/ Draw \/ Render

PagesSpec == PagesInit /\ [][PagesNext]_pageVars

(***************************************************************************)
(* Properties.                                                             *)
(***************************************************************************)

\* A drawn page shows its own lines and nothing of another page or of what it
\* said before, except that the line "TYPE: -" of a page without any input yet
\* stays below the type of the first input, in whose text it is not written over.
NothingIsLeftOver ==
  drawn => \A k \in Lines :
    \/ buffer[k] = Over(PageText, Blank)[k]
    \/ page = "InputDevice" /\ lastInput = "some" /\ k = 7 /\ buffer[k] = "no input"

\* Only the logo ever scrolls, and the scrolling of U1Walking goes on below another
\* page, which then cannot be rendered, only where the command to stop it failed;
\* a change of the page that gets its command through always stops it.
OnlyLogoScrolls ==
  scrolls => glass = [k \in Lines |-> "logo"] /\ (page = "U1Walking" \/ offFailed)

\* display_set_mode says "Ensure scroll mode from U1Walking doesn't keep the old
\* screen": on another page nothing scrolls.
OldScreenIsNotKept == scrolls => page = "U1Walking"

\* The gauge tells whether the key is past its actuation point, whatever the
\* resolution of the reading: the bar reaches the mark if it is and goes beyond
\* it only if it is, and the marks are in the order of the points.  The bar is
\* full only at the top.
GaugeIsRight ==
  LET bits == BitsOf(target.bytes)
      ap   == target.actuation \div 2 ^ (12 - bits)
  IN  gauge # NoGauge =>
        /\ Reading >= ap => gauge.filled >= gauge.ap
        /\ gauge.filled > gauge.ap /\ gauge.ap < BarWidth - 1 => Reading > ap
        /\ target.actuation >= target.reset => gauge.ap >= gauge.rp
        /\ gauge.filled \in 0 .. BarWidth /\ (gauge.filled = BarWidth <=> Reading = TopOf(bits))

\* What the panel shows is what the page means to show (oled_task_kb).
PageIsRight == NothingIsLeftOver /\ OnlyLogoScrolls /\ GaugeIsRight
================================================================================
