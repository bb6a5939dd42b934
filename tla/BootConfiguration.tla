------------------------- MODULE BootConfiguration -------------------------
(***************************************************************************)
(* The configuration of the boot loader, config.cc.  Options of the        *)
(* command line come first, those of the XTLDR section of the file are     *)
(* added where nothing is said yet; the other sections are the entries of  *)
(* the boot menu, with options that the edit menu reads and sets.          *)
(*                                                                         *)
(* A file is the sequence of its sections, as ParseConfigFile leaves them; *)
(* characters, quotes and white space are abstracted.  Option names are    *)
(* compared up to the end of the shorter one: Beginnings has the pairs of  *)
(* names of which one is the beginning of the other.                       *)
(***************************************************************************)
EXTENDS Integers, Sequences, FiniteSets

CONSTANTS CommandLines, \* sequences of options, [name, value]
          Files,        \* sequences of sections, [name, options]
          Beginnings,   \* pairs of different names that the code takes for equal
          Editable,     \* EditableConfigOptions, a sequence of names
          Values,       \* what a user may enter
          MaxEdits      \* bound: options set

Nothing == "nothing"    \* NULLPTR: an option that is not there
Freed == "freed"        \* the value of an option that was freed and not replaced

SameName(a, b) == a = b \/ <<a, b>> \in Beginnings \/ <<b, a>> \in Beginnings

(* GetValue and GetBootOptionValue take the first option of the name.      *)
IsFirst(options, n, i) ==
    /\ SameName(options[i].name, n)
    /\ \A j \in 1..(i - 1) : ~SameName(options[j].name, n)
Has(options, n) == \E i \in DOMAIN options : SameName(options[i].name, n)
GetValue(options, n) ==
    IF Has(options, n)
    THEN options[CHOOSE i \in DOMAIN options : IsFirst(options, n, i)].value
    ELSE Nothing

VARIABLES commandLine, file,    \* what ParseCommandLine and ReadConfigFile find
          config,               \* Config, the global options
          pending,              \* the rest of NewConfig, in UpdateConfiguration
          configAt,             \* "command", "file", or "menu" once both are read
          sections,             \* ConfigSections, the menu's once XTLDR is out
          edits,                \* history: options set so far
          wanted                \* history: values as the file and the user set them

configVars == <<commandLine, file, config, pending, configAt, sections, edits, wanted>>

ConfigInit ==
    /\ commandLine \in CommandLines /\ file \in Files
    /\ config = <<>> /\ pending = commandLine /\ configAt = "command"
    /\ sections = <<>> /\ edits = 0 /\ wanted = <<>>

(* One turn of the loop of UpdateConfiguration: an option whose name is    *)
(* there already is passed over.                                           *)
AddedAlways(o) == Append(config, o)
Added(o) == IF Has(config, o.name) THEN config ELSE Append(config, o)

UpdateConfiguration ==
    /\ pending # <<>>
    /\ config' = Added(Head(pending))
    /\ pending' = Tail(pending)
    /\ UNCHANGED <<commandLine, file, configAt, sections, edits, wanted>>

(* LoadConfiguration takes the first section called XTLDR out of the list  *)
(* and updates the configuration from it; without one it does not.         *)
IsLoaderSection(i) ==
    /\ SameName(file[i].name, "XTLDR")
    /\ \A j \in 1..(i - 1) : ~SameName(file[j].name, "XTLDR")

MenuOf(skip) ==
    [i \in 1..(Len(file) - (IF skip = 0 THEN 0 ELSE 1)) |->
        file[IF skip # 0 /\ i >= skip THEN i + 1 ELSE i]]

Read(skip) ==
    /\ sections' = MenuOf(skip)
    /\ pending' = IF skip = 0 THEN <<>> ELSE file[skip].options
    /\ configAt' = "file"
    /\ wanted' = [s \in DOMAIN MenuOf(skip) |->
                    [i \in DOMAIN Editable |-> GetValue(MenuOf(skip)[s].options, Editable[i])]]
    /\ UNCHANGED <<commandLine, file, config, edits>>

LoadConfiguration ==
    /\ configAt = "command" /\ pending = <<>>
    /\ \/ \E i \in DOMAIN file : IsLoaderSection(i) /\ Read(i)
       \/ /\ ~\E i \in DOMAIN file : IsLoaderSection(i)
          /\ Read(0)

ConfigurationRead ==
    /\ configAt = "file" /\ pending = <<>>
    /\ configAt' = "menu"
    /\ UNCHANGED <<commandLine, file, config, pending, sections, edits, wanted>>

(* InitializeBootMenuList: the entries of the menu are the sections; the   *)
(* last one with the name of the DEFAULT option (or of the system booted   *)
(* last, when that was kept) is highlighted, or else the first.  Here      *)
(* lengths are compared too, so names must be equal.                       *)
NumberOfEntries == Len(sections)
Named(s, n) == sections[s].name = n
DefaultOf(n) ==
    IF \E s \in DOMAIN sections : Named(s, n)
    THEN CHOOSE s \in DOMAIN sections :
            Named(s, n) /\ \A t \in DOMAIN sections : Named(t, n) => t <= s
    ELSE 1

(* SetBootOptionValue replaces the value of the first option of the name,  *)
(* or adds the option at the end.  An allocation may fail: then an option  *)
(* that is there has lost its value, and one that is not is not added.     *)
SetAppends(options, n, v) == Append(options, [name |-> n, value |-> v])
SetBootOptionValue(options, n, v) ==
    IF Has(options, n)
    THEN [i \in DOMAIN options |->
            IF IsFirst(options, n, i) THEN [options[i] EXCEPT !.value = v] ELSE options[i]]
    ELSE Append(options, [name |-> n, value |-> v])

OutOfMemory(options, n) ==
    IF Has(options, n) THEN SetBootOptionValue(options, n, Freed) ELSE options

SetOption(s, e, v) ==
    /\ edits < MaxEdits
    /\ edits' = edits + 1
    /\ \/ /\ sections' = [sections EXCEPT
                ![s].options = SetBootOptionValue(@, Editable[e], v)]
          /\ wanted' = [wanted EXCEPT ![s] =
                [i \in DOMAIN Editable |->
                    IF SameName(Editable[i], Editable[e]) THEN v ELSE @[i]]]
       \/ /\ sections' = [sections EXCEPT ![s].options = OutOfMemory(@, Editable[e])]
          /\ wanted' = IF Has(sections[s].options, Editable[e])
                       THEN [wanted EXCEPT ![s] =
                            [i \in DOMAIN Editable |->
                                IF SameName(Editable[i], Editable[e]) THEN Freed ELSE @[i]]]
                       ELSE wanted
    /\ UNCHANGED <<commandLine, file, config, pending, configAt>>

----------------------------------------------------------------------------
(* What the comment of UpdateConfiguration promises: existing entries are  *)
(* not overwritten, so the command line decides over the file, and the     *)
(* first of two options over the second; and no name is there twice.       *)
PrecedenceKept ==
    /\ \A i, j \in DOMAIN config : SameName(config[i].name, config[j].name) => i = j
    /\ configAt # "command" =>
        \A i \in DOMAIN commandLine :
            (\A j \in 1..(i - 1) : ~SameName(commandLine[i].name, commandLine[j].name))
                => GetValue(config, commandLine[i].name) = commandLine[i].value
    /\ configAt = "menu" =>
        \A i \in DOMAIN file : IsLoaderSection(i) =>
            \A j \in DOMAIN file[i].options : Has(config, file[i].options[j].name)

(* Every section but the loader's is an entry of the menu, in the order of *)
(* the file, and an option of an entry has the value last set for it, or   *)
(* the first one of the file: to set one touches no other, unless the file *)
(* has an option whose name begins both.                                   *)
Ambiguous(s) ==
    \E i \in DOMAIN sections[s].options, a, b \in DOMAIN Editable :
        /\ a # b
        /\ SameName(sections[s].options[i].name, Editable[a])
        /\ SameName(sections[s].options[i].name, Editable[b])

OptionsKept ==
    configAt # "command" =>
        /\ \A i \in DOMAIN file : ~IsLoaderSection(i) =>
                LET before == {j \in 1..(i - 1) : ~IsLoaderSection(j)} IN
                Named(Cardinality(before) + 1, file[i].name)
        /\ \A s \in DOMAIN sections, i \in DOMAIN Editable :
                Ambiguous(s) \/ GetValue(sections[s].options, Editable[i]) = wanted[s][i]
=============================================================================
