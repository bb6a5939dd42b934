----------------------------- MODULE LineInput -----------------------------
(***************************************************************************)
(* Lines of text that are typed into the boot loader: the field of         *)
(* DisplayInputDialog, textui.cc, and the command line of the shell with   *)
(* its history, shell.cc.  Both edit a buffer in place with MoveMemory     *)
(* and keep its length and the cursor apart from the terminating zero, the *)
(* dialog by other counts than the shell.  Positions count from 0.         *)
(***************************************************************************)
EXTENDS Integers, Sequences, FiniteSets

CONSTANTS Letters,      \* characters that can be typed, a space among them
          BufferSize,   \* characters of the shell's buffer
          FieldSize,    \* and of the dialog's
          OldTexts,     \* what a dialog starts with
          HistorySize   \* XTBL_SH_HISTORY_ENTRIES

Zero == "zero"          \* the terminator
Junk == "junk"          \* what happens to be in memory nobody has written
Space == " "

VARIABLES reader,       \* "none", "dialog", "answered", "command", "parse", "parsed"
          buffer,       \* InputFieldBuffer, Buffer
          length, position,
          focus,        \* "field" or "button", of a dialog
          history,      \* History up to HistoryCount, the lines without terminator
          historyIndex, \* HistoryIndex
          line,         \* what the console shows after the prompt
          answer,       \* what the caller of a dialog got: a text, or Unchanged
          arguments,    \* ArgumentCount and ArgumentVector of the last command
          ideal,        \* history: the text as an editor without a buffer has it
          recalled      \* history: non-empty lines entered, latest last, as far as kept

inputVars == <<reader, buffer, length, position, focus, history, historyIndex, line,
               answer, arguments, ideal, recalled>>

Unchanged == <<Zero>>   \* no text: the dialog was left with ESC
NoArguments == [count |-> 0, words |-> <<>>]
Least2(a, b) == IF a < b THEN a ELSE b

Blank(size) == [i \in 0..(size - 1) |-> Junk]
Stored(b, text) == [i \in DOMAIN b |->
    IF i < Len(text) THEN text[i + 1] ELSE IF i = Len(text) THEN Zero ELSE b[i]]

(* The text in a buffer, as everybody else reads it: up to the first zero, *)
(* or past the buffer's end.                                               *)
Text(b) ==
    LET ends == {i \in DOMAIN b : b[i] = Zero} \cup {Cardinality(DOMAIN b)}
        end == CHOOSE i \in ends : \A j \in ends : i <= j
    IN  [i \in 1..end |-> b[i - 1]]

(* MoveMemory of n characters; source and destination overlap.             *)
Moved(b, to, from, n) ==
    [i \in DOMAIN b |-> IF i >= to /\ i < to + n THEN b[from + i - to] ELSE b[i]]

(* The edits of a text without a buffer.                                   *)
Inserted(text, at, c) == SubSeq(text, 1, at) \o <<c>> \o SubSeq(text, at + 1, Len(text))
Deleted(text, at) == SubSeq(text, 1, at) \o SubSeq(text, at + 2, Len(text))

InputInit ==
    /\ reader = "none" /\ buffer = <<>> /\ length = 0 /\ position = 0 /\ focus = "field"
    /\ history = <<>> /\ historyIndex = 0 /\ line = <<>>
    /\ answer = Unchanged /\ arguments = NoArguments
    /\ ideal = <<>> /\ recalled = <<>>

----------------------------------------------------------------------------
(* DisplayInputDialog.  Bound: dialogs are opened before the first command *)
(* is entered, since they have nothing to do with the history.             *)
dialogKept == <<history, historyIndex, line, recalled>>

Idle == reader \in {"none", "answered", "parsed"}

OpenDialog ==
    /\ Idle /\ history = <<>>
    /\ reader' = "dialog"
    /\ ideal' \in OldTexts
    /\ buffer' = Stored(Blank(FieldSize), ideal')
    /\ length' = Len(ideal') /\ position' = 0 /\ focus' = "field" /\ answer' = Unchanged
    /\ arguments' = NoArguments
    /\ UNCHANGED dialogKept

DialogKey == reader = "dialog" /\ UNCHANGED <<reader, answer, arguments, dialogKept>>
FieldKey == DialogKey /\ focus = "field" /\ UNCHANGED focus

DialogCursor ==
    /\ FieldKey
    /\ position' \in {Least2(position + 1, length), IF position > 0 THEN position - 1 ELSE 0, 0, length}
    /\ UNCHANGED <<buffer, length, ideal>>

DialogTab ==
    /\ DialogKey
    /\ focus' = IF focus = "field" THEN "button" ELSE "field"
    /\ UNCHANGED <<buffer, length, position, ideal>>

(* After the move the terminator is written at the new length.             *)
Terminated(b, at) == [b EXCEPT ![at] = Zero]

DialogDelete ==
    /\ FieldKey /\ position < length
    /\ buffer' = Terminated(Moved(buffer, position, position + 1, length - position), length - 1)
    /\ length' = length - 1
    /\ ideal' = Deleted(ideal, position)
    /\ UNCHANGED position

BackspaceShort(b, at, len) == Moved(b, at - 1, at, len - at - 1)
BackspaceMove(b, at, len) == Moved(b, at - 1, at, len - at + 1)

DialogBackspace ==
    /\ FieldKey /\ length > 0 /\ position > 0
    /\ buffer' = Terminated(BackspaceMove(buffer, position, length), length - 1)
    /\ length' = length - 1 /\ position' = position - 1
    /\ ideal' = Deleted(ideal, position - 1)

DialogInsert(c) ==
    /\ FieldKey /\ length < FieldSize - 1
    /\ buffer' = Terminated([Moved(buffer, position + 1, position, length - position)
                                EXCEPT ![position] = c], length + 1)
    /\ length' = length + 1 /\ position' = position + 1
    /\ ideal' = Inserted(ideal, position, c)

(* ENTER hands out the buffer, whatever has the focus; ESC nothing.        *)
CloseDialog ==
    /\ reader = "dialog"
    /\ reader' = "answered"
    /\ answer' \in {Text(buffer), Unchanged}
    /\ UNCHANGED <<buffer, length, position, focus, arguments, ideal, dialogKept>>

----------------------------------------------------------------------------
(* ReadCommand.  PrintPromptLine prints the prompt, the text, and spaces   *)
(* over what the text before was longer by.  The line on the console is    *)
(* kept without trailing spaces.                                           *)
Trimmed(s) ==
    LET last == {i \in DOMAIN s : s[i] # Space}
    IN  SubSeq(s, 1, IF last = {} THEN 0 ELSE CHOOSE i \in last : \A j \in last : j <= i)
OverOnly(shown, text, old) ==
    [i \in 1..(IF Len(text) > Len(shown) THEN Len(text) ELSE Len(shown)) |->
        IF i <= Len(text) THEN text[i] ELSE shown[i]]
Over(shown, text, old) ==
    LET spaces == IF old > Len(text) THEN old ELSE Len(text) IN
    [i \in 1..(IF spaces > Len(shown) THEN spaces ELSE Len(shown)) |->
        IF i <= Len(text) THEN text[i] ELSE IF i <= spaces THEN Space ELSE shown[i]]

PrintPromptLine(b, old) == line' = Trimmed(Over(line, Text(b), old))

commandKept == <<focus, answer, arguments>>

ReadCommand ==
    /\ Idle
    /\ reader' = "command"
    /\ buffer' = Stored(Blank(BufferSize), <<>>) /\ length' = 0 /\ position' = 0
    /\ historyIndex' = Len(history) /\ line' = <<>> /\ ideal' = <<>>
    /\ focus' = "field" /\ answer' = Unchanged /\ arguments' = NoArguments
    /\ UNCHANGED <<history, recalled>>

CommandKey == reader = "command" /\ UNCHANGED <<reader, history, recalled, commandKept>>

(* UP and DOWN; below the last line of the history is an empty one.        *)
Recall(i) ==
    LET text == IF i = Len(history) THEN <<>> ELSE history[i + 1] IN
    /\ historyIndex' = i
    /\ buffer' = Stored(buffer, text)
    /\ length' = Len(text) /\ position' = Len(text)
    /\ ideal' = IF i = Len(history) THEN <<>>
                ELSE recalled[Len(recalled) - (Len(history) - i) + 1]
    /\ PrintPromptLine(buffer', length)

HistoryUp == CommandKey /\ historyIndex > 0 /\ Recall(historyIndex - 1)
HistoryDown == CommandKey /\ historyIndex < Len(history) /\ Recall(historyIndex + 1)

CommandCursor ==
    /\ CommandKey
    /\ position' \in {Least2(position + 1, length), IF position > 0 THEN position - 1 ELSE 0, 0, length}
    /\ position' # position
    /\ PrintPromptLine(buffer, length)
    /\ UNCHANGED <<buffer, length, historyIndex, ideal>>

(* ESC starts a new line on the console.                                   *)
CommandEscape ==
    /\ CommandKey
    /\ buffer' = Terminated(buffer, 0) /\ length' = 0 /\ position' = 0
    /\ historyIndex' = Len(history) /\ line' = <<>> /\ ideal' = <<>>

CommandDelete ==
    /\ CommandKey /\ position < length
    /\ buffer' = Moved(buffer, position, position + 1, length - position)
    /\ length' = length - 1
    /\ ideal' = Deleted(ideal, position)
    /\ PrintPromptLine(buffer', length)
    /\ UNCHANGED <<position, historyIndex>>

CommandBackspace ==
    /\ CommandKey /\ position > 0
    /\ buffer' = Moved(buffer, position - 1, position, length - position + 1)
    /\ length' = length - 1 /\ position' = position - 1
    /\ ideal' = Deleted(ideal, position - 1)
    /\ PrintPromptLine(buffer', length)
    /\ UNCHANGED historyIndex

InsertMoveShort(b, at, len) == Moved(b, at + 1, at, len - at)
InsertMove(b, at, len) == Moved(b, at + 1, at, len - at + 1)

CommandInsert(c) ==
    /\ CommandKey /\ length < BufferSize - 1
    /\ buffer' = [InsertMove(buffer, position, length) EXCEPT ![position] = c]
    /\ length' = length + 1 /\ position' = position + 1
    /\ ideal' = Inserted(ideal, position, c)
    /\ PrintPromptLine(buffer', length)
    /\ UNCHANGED historyIndex

(* ENTER: a line that is not empty is the latest of the history, which     *)
(* loses its oldest when it is full.                                       *)
RememberLast(h, text) ==
    IF Len(h) < HistorySize THEN Append(h, text) ELSE [h EXCEPT ![Len(h)] = text]
Shifted(h) == [i \in DOMAIN h |-> IF i < Len(h) THEN h[i + 1] ELSE h[i]]
Remember(h, text) ==
    IF Len(h) < HistorySize THEN Append(h, text) ELSE [Shifted(h) EXCEPT ![Len(h)] = text]

Last(s, n) == SubSeq(s, Len(s) - n + 1, Len(s))
Latest(s) == Last(s, Least2(Len(s), HistorySize))

CommandEnter ==
    /\ reader = "command"
    /\ reader' = "parse"
    /\ buffer' = Terminated(buffer, length)
    /\ IF length > 0
       THEN /\ history' = Remember(history, Text(buffer'))
            /\ recalled' = Latest(Append(recalled, ideal))
       ELSE UNCHANGED <<history, recalled>>
    /\ UNCHANGED <<length, position, historyIndex, line, ideal, commandKept>>

----------------------------------------------------------------------------
(* ParseCommand counts the words of the line, and then records where each  *)
(* begins and puts a zero behind it.  Recorded yields the words' places    *)
(* and the buffer.                                                         *)
SkipSpaces(b, i) == CHOOSE j \in DOMAIN b :
    j >= i /\ b[j] # Space /\ \A k \in i..(j - 1) : b[k] = Space
SkipWord(b, i) == CHOOSE j \in DOMAIN b :
    j >= i /\ b[j] \in {Space, Zero} /\ \A k \in i..(j - 1) : b[k] \notin {Space, Zero}

CountWords(b) ==
    LET count[i \in DOMAIN b] ==
            LET word == SkipSpaces(b, i) IN
            IF b[i] = Zero \/ b[word] = Zero THEN 0 ELSE 1 + count[SkipWord(b, word)]
    IN  count[0]

Recorded(b) ==
    LET record[i \in DOMAIN b] ==
            LET word == SkipSpaces(b, i)
                end == SkipWord(b, word)
                rest == IF b[end] = Zero THEN end ELSE end + 1
            IN  IF b[i] = Zero \/ b[word] = Zero
                THEN [places |-> <<>>, ends |-> {}]
                ELSE [places |-> <<word>> \o record[rest].places,
                      ends |-> {end} \cup record[rest].ends]
    IN  [places |-> record[0].places,
         buffer |-> [i \in DOMAIN b |-> IF i \in record[0].ends THEN Zero ELSE b[i]]]

WordAt(b, place) ==
    LET end == CHOOSE j \in DOMAIN b :
            j >= place /\ b[j] = Zero /\ \A k \in place..(j - 1) : b[k] # Zero
    IN  [i \in 1..(end - place) |-> b[place + i - 1]]

(* An empty line is passed over, and any other is dispatched; then the     *)
(* shell reads again, or ends.                                             *)
ParseCommand ==
    /\ reader = "parse"
    /\ LET r == Recorded(buffer) IN
        /\ arguments' = [count |-> CountWords(buffer),
                         words |-> [i \in DOMAIN r.places |-> WordAt(r.buffer, r.places[i])]]
        /\ buffer' = r.buffer
    /\ reader' = "parsed"
    /\ UNCHANGED <<length, position, focus, history, historyIndex, line, answer, ideal, recalled>>

InputNext ==
    \/ OpenDialog \/ DialogCursor \/ DialogTab \/ DialogDelete \/ DialogBackspace
    \/ CloseDialog \/ ReadCommand \/ HistoryUp \/ HistoryDown \/ CommandCursor
    \/ CommandEscape \/ CommandDelete \/ CommandBackspace \/ CommandEnter \/ ParseCommand
    \/ \E c \in Letters : DialogInsert(c) \/ CommandInsert(c)

----------------------------------------------------------------------------
(* The buffer, its length and the cursor are a text that is being edited:  *)
(* whatever the keys, a reader of the buffer finds the text that an editor *)
(* without a buffer has, which ends within it, and the dialog returns it.  *)
BufferExact ==
    /\ reader \in {"dialog", "command"} =>
        /\ \E i \in DOMAIN buffer : buffer[i] = Zero
        /\ Text(buffer) = ideal
        /\ length = Len(ideal) /\ position \in 0..length
    /\ reader = "answered" => answer \in {Unchanged, ideal}

(* The console shows the line, without remains of longer ones.             *)
LineShown == reader = "command" => line = Trimmed(ideal)

(* The history has the latest lines in their order, and each comes back    *)
(* as it was entered.                                                      *)
HistoryExact == history = recalled

(* The first pass over a command counts the words that the second records, *)
(* which are the words of the line.                                        *)
WordsOf(text) ==
    LET begins == {i \in DOMAIN text : text[i] # Space /\ (i = 1 \/ text[i - 1] = Space)}
        ends == {i \in DOMAIN text : text[i] # Space /\ (i = Len(text) \/ text[i + 1] = Space)}
    IN  {<<b, e>> \in begins \X ends : b <= e /\ \A k \in b..e : text[k] # Space}
ArgumentsExact ==
    reader = "parsed" =>
        /\ arguments.count = Len(arguments.words)
        /\ arguments.count = Cardinality(WordsOf(ideal))
        /\ \A w \in WordsOf(ideal) :
                arguments.words[Cardinality({v \in WordsOf(ideal) : v[1] <= w[1]})]
                    = SubSeq(ideal, w[1], w[2])

InputSound == BufferExact /\ LineShown /\ HistoryExact /\ ArgumentsExact
=============================================================================
