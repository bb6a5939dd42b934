------------------------------ MODULE BootMenu ------------------------------
(***************************************************************************)
(* The boot menu and the menu that edits the options of an entry, in       *)
(* textui.cc.  Both show a part of a list, in a box with a fixed number of *)
(* rows: a key that stays in view redraws two rows, one that scrolls draws *)
(* them all.  The boot menu counts down until a key is pressed.            *)
(*                                                                         *)
(* A row that is drawn is [item, lit, text].  Rows count from 0, items     *)
(* from 1.                                                                 *)
(***************************************************************************)
EXTENDS BootConfiguration

CONSTANTS BoxRows,      \* Handle.Height - 2
          Seconds       \* [values of TIMEOUT -> numbers], what they are read as

ASSUME BoxAssumption == BoxRows \in Nat \ {0}

VARIABLES screen,       \* "none", "menu", "edit", "shell", "system"
          menu,         \* the boot menu: [lit, top, visible]
          menuRows,     \* the rows it has drawn
          edit,         \* the edit menu, likewise
          editRows,
          timeOut,      \* TimeOut, -1 when the countdown is off
          begun,        \* history: countdown and entry this menu began with
          pressed,      \* history: a key was pressed in this menu
          ticks,        \* history: ticks since the countdown began
          boot          \* history: the last call of InvokeBootProtocol

menuVars == <<screen, menu, menuRows, edit, editRows, timeOut, begun, pressed, ticks, boot>>

NoView == [lit |-> 1, top |-> 1, visible |-> 0]
NoBoot == [entry |-> 0, automatic |-> FALSE, pressed |-> FALSE, ticks |-> 0]

MenuInit ==
    /\ screen = "none" /\ menu = NoView /\ edit = NoView
    /\ menuRows = <<>> /\ editRows = <<>>
    /\ timeOut = -1 /\ begun = [seconds |-> -1, entry |-> 1] /\ pressed = FALSE /\ ticks = 0 /\ boot = NoBoot

Least(a, b) == IF a < b THEN a ELSE b

(* Moves of the highlight in a list of n items; the view follows.          *)
InView(v) == v.lit >= v.top /\ v.lit < v.top + v.visible
GoUp(v) == [v EXCEPT !.lit = v.lit - 1, !.top = Least(v.top, v.lit - 1)]
GoDownUnscrolled(v) == [v EXCEPT !.lit = v.lit + 1]
GoDown(v) ==
    LET moved == [v EXCEPT !.lit = v.lit + 1] IN
    IF InView(moved) THEN moved ELSE [moved EXCEPT !.top = moved.lit - v.visible + 1]
GoFirst(v) == [v EXCEPT !.lit = 1, !.top = 1]
GoLast(v, n) ==
    [v EXCEPT !.lit = n, !.top = IF n > v.visible THEN n - v.visible + 1 ELSE 1]

(* What is drawn: every row, or the row left and the row reached.          *)
Row(v, i, text) == [item |-> i, lit |-> i = v.lit, text |-> text[i]]
Drawn(v, text) == [r \in 0..(v.visible - 1) |-> Row(v, v.top + r, text)]
RedrawnReached(v, rows, from, text) ==
    IF v.visible = 0 THEN rows ELSE [rows EXCEPT ![v.lit - v.top] = Row(v, v.lit, text)]
Redrawn(v, rows, from, text) ==
    [rows EXCEPT ![from - v.top] = Row(v, from, text), ![v.lit - v.top] = Row(v, v.lit, text)]

Redraw(old, new, rows, text) ==
    IF new.top # old.top THEN Drawn(new, text) ELSE Redrawn(new, rows, old.lit, text)

Names == [s \in DOMAIN sections |-> sections[s].name]
Shown(s) == [i \in DOMAIN Editable |-> GetValue(sections[s].options, Editable[i])]

----------------------------------------------------------------------------
(* DisplayBootMenu.  The entry is scrolled into view before the number of  *)
(* visible rows is limited to that of entries, which makes no difference.  *)
(* Without entries the loader goes to its shell.  The highlighted entry is *)
(* the one of the DEFAULT option, or the one last booted, which firmware   *)
(* keeps; without KEEPLASTBOOT the code reads through a null pointer, and  *)
(* may or may not find a value.                                            *)
DefaultNames ==
    {GetValue(config, "DEFAULT")} \cup
    (IF GetValue(config, "KEEPLASTBOOT") \in {"yes", Nothing}
     THEN {sections[s].name : s \in DOMAIN sections} ELSE {})

ReadTimeOut == LET v == GetValue(config, "TIMEOUT") IN IF v = Nothing THEN -1 ELSE Seconds[v]

DisplayBootMenu ==
    /\ configAt = "menu" /\ screen = "none"
    /\ IF NumberOfEntries = 0
       THEN screen' = "shell" /\ UNCHANGED <<menu, menuRows, timeOut, begun>>
       ELSE /\ screen' = "menu"
            /\ \E lit \in {DefaultOf(d) : d \in DefaultNames} :
                menu' = [lit |-> lit,
                         top |-> IF lit > BoxRows THEN lit - BoxRows + 1 ELSE 1,
                         visible |-> Least(BoxRows, NumberOfEntries)]
            /\ menuRows' = Drawn(menu', Names)
            /\ timeOut' = ReadTimeOut
            /\ begun' = [seconds |-> timeOut', entry |-> menu'.lit]
    /\ pressed' = FALSE /\ ticks' = 0 /\ boot' = NoBoot
    /\ UNCHANGED <<edit, editRows, configVars>>

(* The loop of BlStartXtLoader shows the menu again when the shell ends.   *)
ShellEnds ==
    /\ screen = "shell" /\ screen' = "none"
    /\ UNCHANGED <<menu, menuRows, edit, editRows, timeOut, begun, pressed, ticks, boot,
                   configVars>>

(* Any key ends the countdown, whatever it does.                           *)
KeyKeepsTime == /\ screen = "menu" /\ pressed' = TRUE
                /\ UNCHANGED <<timeOut, begun, ticks, configVars>>
Key ==
    /\ screen = "menu"
    /\ timeOut' = -1 /\ pressed' = TRUE
    /\ UNCHANGED <<begun, ticks, configVars>>

MenuMove(v) ==
    /\ menu' = v
    /\ menuRows' = Redraw(menu, v, menuRows, Names)
    /\ boot' = NoBoot
    /\ UNCHANGED <<screen, edit, editRows>>

MenuJump(v) ==
    /\ menu' = v /\ menuRows' = Drawn(v, Names)
    /\ boot' = NoBoot
    /\ UNCHANGED <<screen, edit, editRows>>

MenuUp == Key /\ menu.lit > 1 /\ MenuMove(GoUp(menu))
MenuDown == Key /\ menu.lit < NumberOfEntries /\ MenuMove(GoDown(menu))
MenuPageUp == Key /\ menu.lit # 1 /\ MenuJump(GoFirst(menu))
MenuPageDown == Key /\ menu.lit # NumberOfEntries /\ MenuJump(GoLast(menu, NumberOfEntries))

(* Keys that do nothing here, and those that show a dialog or try to leave *)
(* to the firmware and fail: the menu is drawn again.                      *)
OtherKey == Key /\ boot' = NoBoot /\ UNCHANGED <<screen, menu, menuRows, edit, editRows>>
MenuDialog == Key /\ MenuJump(menu)

MenuShell ==
    /\ Key
    /\ screen' = "shell" /\ menu' = NoView /\ menuRows' = <<>> /\ boot' = NoBoot
    /\ UNCHANGED <<edit, editRows>>

(* InvokeBootProtocol for an entry: the system starts, or an error is      *)
(* shown and the menu drawn again.                                         *)
Invoke(s, automatic, back) ==
    /\ boot' = [entry |-> s, automatic |-> automatic, pressed |-> pressed, ticks |-> ticks']
    /\ screen' \in {"system", back}

MenuBoot ==
    /\ Key
    /\ Invoke(menu.lit, FALSE, "menu")
    /\ menuRows' = Drawn(menu, Names)
    /\ UNCHANGED <<menu, edit, editRows>>

(* A tick of the timer: the seconds left are shown and counted, at none    *)
(* the highlighted entry is booted.                                        *)
CountDown ==
    /\ screen = "menu" /\ timeOut > 0
    /\ timeOut' = timeOut - 1 /\ ticks' = ticks + 1
    /\ UNCHANGED <<screen, menu, menuRows, edit, editRows, begun, pressed, boot, configVars>>

TimeExpires ==
    /\ screen = "menu" /\ timeOut = 0
    /\ timeOut' = -1 /\ ticks' = ticks + 1
    /\ Invoke(menu.lit, TRUE, "menu")
    /\ menuRows' = Drawn(menu, Names)
    /\ UNCHANGED <<menu, edit, editRows, begun, pressed, configVars>>

----------------------------------------------------------------------------
(* DisplayEditMenu, for the highlighted entry.                             *)
MenuEdit ==
    /\ Key
    /\ screen' = "edit"
    /\ edit' = [lit |-> 1, top |-> 1, visible |-> Least(BoxRows, Len(Editable))]
    /\ editRows' = Drawn(edit', Shown(menu.lit))
    /\ boot' = NoBoot
    /\ UNCHANGED <<menu, menuRows>>

EditKey ==
    /\ screen = "edit"
    /\ UNCHANGED <<menu, timeOut, begun, pressed, ticks>>

EditMove(v) ==
    /\ edit' = v
    /\ editRows' = Redraw(edit, v, editRows, Shown(menu.lit))
    /\ boot' = NoBoot
    /\ UNCHANGED <<screen, menuRows, configVars>>

EditJump(v) ==
    /\ edit' = v /\ editRows' = Drawn(v, Shown(menu.lit))
    /\ boot' = NoBoot
    /\ UNCHANGED <<screen, menuRows, configVars>>

EditUp == EditKey /\ edit.lit > 1 /\ EditMove(GoUp(edit))
EditDown == EditKey /\ edit.lit < Len(Editable) /\ EditMove(GoDown(edit))
EditPageUp == EditKey /\ edit.lit # 1 /\ EditJump(GoFirst(edit))
EditPageDown == EditKey /\ edit.lit # Len(Editable) /\ EditJump(GoLast(edit, Len(Editable)))

(* ENTER or 'e': the option is edited in a dialog (see LineInput), and set *)
(* when that ends with ENTER, even to the value it had.                    *)
EditOption ==
    /\ EditKey
    /\ \E v \in Values : SetOption(menu.lit, edit.lit, v)
    /\ editRows' = [r \in 0..(edit.visible - 1) |->
            Row(edit, edit.top + r,
                [i \in DOMAIN Editable |-> GetValue(sections'[menu.lit].options, Editable[i])])]
    /\ boot' = NoBoot
    /\ UNCHANGED <<screen, menuRows, edit>>

EditBoot ==
    /\ EditKey
    /\ Invoke(menu.lit, FALSE, "edit")
    /\ editRows' = Drawn(edit, Shown(menu.lit))
    /\ UNCHANGED <<menuRows, edit, configVars>>

EditEscape ==
    /\ EditKey
    /\ screen' = "menu"
    /\ menuRows' = Drawn(menu, Names)
    /\ edit' = NoView /\ editRows' = <<>> /\ boot' = NoBoot
    /\ UNCHANGED configVars

ReadConfiguration ==
    /\ UpdateConfiguration \/ LoadConfiguration \/ ConfigurationRead
    /\ UNCHANGED menuVars

MenuNext ==
    \/ ReadConfiguration
    \/ DisplayBootMenu \/ ShellEnds \/ CountDown \/ TimeExpires
    \/ MenuUp \/ MenuDown \/ MenuPageUp \/ MenuPageDown
    \/ OtherKey \/ MenuDialog \/ MenuShell \/ MenuBoot \/ MenuEdit
    \/ EditUp \/ EditDown \/ EditPageUp \/ EditPageDown
    \/ EditOption \/ EditBoot \/ EditEscape

----------------------------------------------------------------------------
(* What is on the screen is what a key would act on: the rows show the     *)
(* part of the list in view with the highlight where it is, and options    *)
(* with their values, whatever sequence of small redraws led there.        *)
RowsCurrent ==
    /\ screen = "menu" =>
        /\ InView(menu) /\ menu.top + menu.visible - 1 <= NumberOfEntries
        /\ menuRows = Drawn(menu, Names)
    /\ screen = "edit" =>
        /\ InView(edit) /\ edit.top + edit.visible - 1 <= Len(Editable)
        /\ editRows = Drawn(edit, Shown(menu.lit))

(* Nothing is booted by itself but the entry the menu began with, after    *)
(* the seconds configured, and only if nobody has pressed a key: a key     *)
(* ends the countdown for good, through dialogs and failed boots.          *)
CountdownHonest ==
    /\ screen = "menu" /\ timeOut >= 0 =>
        ~pressed /\ timeOut + ticks = begun.seconds /\ menu.lit = begun.entry
    /\ boot.automatic =>
        /\ ~boot.pressed
        /\ boot.entry = begun.entry /\ boot.ticks = begun.seconds + 1

MenuSound == PrecedenceKept /\ OptionsKept /\ RowsCurrent /\ CountdownHonest
=============================================================================
