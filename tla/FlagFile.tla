------------------------------- MODULE FlagFile -------------------------------
(***************************************************************************)
(* The flag -flagfile, common/golang/flagfile.go: a file is parsed into a  *)
(* map, and the flags of the map are set in its order, which is none.      *)
(*                                                                         *)
(* A line is [text, dashes, indent, quote, key, value]: its text without   *)
(* white space around it, its dashes (0 for a text), whether white space   *)
(* comes first, "none", "both" or "one" quotation mark or a "lone" one,    *)
(* the key and what is behind "=", or NoValue.                             *)
(***************************************************************************)
EXTENDS Naturals, Sequences, SequencesExt

CONSTANTS
    FlagFiles,   \* the calls: records [lines, nested, readFails]
    Known,       \* the flags of the command
    NoValue,
    Taken(_, _)  \* Taken(key, text): the value of the flag once it is set to the text;
                 \* for a text that a bool or a number refuses, its zero (package flag)

VARIABLES
    call,        \* nested: [outcome, map] of the flag file named in this one, which names
                 \* no other: "ok", "bad" or "panic"
    phase,       \* "idle", "parse", "set", "ok", "error" or "panic"
    at,          \* the lines read
    fMap,        \* fMap[key]: its value
    todo,        \* the keys not yet set
    flags        \* flags[key]: the value of a flag that was set

vars == <<call, phase, at, fMap, todo, flags>>

NoCall == [lines |-> << >>, nested |-> [outcome |-> "ok", map |-> << >>], readFails |-> FALSE]
Own == "flagfile"

TypeOK ==
    /\ call \in FlagFiles \cup {NoCall}
    /\ phase \in {"idle", "parse", "set", "ok", "error", "panic"}
    /\ at \in 0..Len(call.lines)
    /\ todo \subseteq DOMAIN fMap /\ DOMAIN flags \subseteq Known

Init == call = NoCall /\ phase = "idle" /\ at = 0 /\ fMap = << >> /\ todo = {} /\ flags = << >>

Run ==
    /\ phase = "idle" /\ phase' = "parse"
    /\ call' \in FlagFiles
    /\ UNCHANGED <<at, fMap, todo, flags>>

\* A map with one entry, and one with the entries of another put over its own.
One(k, v) == [x \in {k} |-> v]
Over(m, n) == [k \in DOMAIN m \cup DOMAIN n |-> IF k \in DOMAIN n THEN n[k] ELSE m[k]]

Parsing == phase = "parse" /\ at < Len(call.lines)
Line == call.lines[at + 1]
Blank(l) == l.text = ""
Balanced(l) == l.quote \in {"none", "both"}
IsFlag(l) == Balanced(l) /\ l.dashes \in {1, 2}

SkipBlank ==
    /\ Parsing /\ Blank(Line)
    /\ at' = at + 1
    /\ UNCHANGED <<call, phase, fMap, todo, flags>>

SetKey ==
    /\ Parsing /\ IsFlag(Line) /\ Line.value # NoValue
    /\ fMap' = Over(fMap, One(Line.key, Line.value))
    /\ at' = at + 1
    /\ UNCHANGED <<call, phase, todo, flags>>

\* The line is peeked at as it is, white space included; a value with a dash in front
\* would be taken for a flag.
LooksLikeFlag(l) == l.dashes > 0 /\ ~l.indent

\* Mutant of SetKeyFromNextLine: the next line is not peeked at.
SetKeyFromAnyLine ==
    /\ Parsing /\ IsFlag(Line) /\ Line.value = NoValue
    /\ IF at + 1 = Len(call.lines)
       THEN fMap' = Over(fMap, One(Line.key, "")) /\ at' = at + 1
       ELSE fMap' = Over(fMap, One(Line.key, call.lines[at + 2].text)) /\ at' = at + 2
    /\ UNCHANGED <<call, phase, todo, flags>>

\* parseFlagValue: the next line is the value, unless it is a flag, or there is none.
SetKeyFromNextLine ==
    /\ Parsing /\ IsFlag(Line) /\ Line.value = NoValue
    /\ IF at + 1 = Len(call.lines) \/ LooksLikeFlag(call.lines[at + 2])
       THEN fMap' = Over(fMap, One(Line.key, "")) /\ at' = at + 1
       ELSE fMap' = Over(fMap, One(Line.key, call.lines[at + 2].text)) /\ at' = at + 2
    /\ UNCHANGED <<call, phase, todo, flags>>

BadLine ==
    /\ Parsing /\ ~Blank(Line) /\ ~IsFlag(Line) /\ Line.quote # "lone"
    /\ phase' = "error"
    /\ UNCHANGED <<call, at, fMap, todo, flags>>

\* A lone quotation mark is balanced with itself, and line[1:0] panics.
LoneQuote ==
    /\ Parsing /\ Line.quote = "lone"
    /\ phase' = "panic"
    /\ UNCHANGED <<call, at, fMap, todo, flags>>

ReadFails ==
    /\ phase = "parse" /\ call.readFails
    /\ phase' = "error"
    /\ UNCHANGED <<call, at, fMap, todo, flags>>

Parsed ==
    /\ phase = "parse" /\ at = Len(call.lines)
    /\ phase' = "set" /\ todo' = DOMAIN fMap
    /\ UNCHANGED <<call, at, fMap, flags>>

Setting == phase = "set" /\ todo # {}
Values(m) == [k \in DOMAIN m \cap Known |-> Taken(k, m[k])]

\* The error of flag.Set is ignored: for a flag that there is not, and for a text that
\* the flag refuses, which has set it all the same.
SetFlag ==
    /\ Setting
    /\ \E k \in todo \ {Own} :
          /\ flags' = Over(flags, Values(One(k, fMap[k])))
          /\ todo' = todo \ {k}
    /\ UNCHANGED <<call, phase, at, fMap>>

\* And so is that of another flag file, of which all flags are set, or none.
SetFlagFile ==
    /\ Setting /\ Own \in todo /\ call.nested.outcome # "panic"
    /\ flags' = IF call.nested.outcome = "bad" THEN flags
                ELSE Over(flags, Values(call.nested.map))
    /\ todo' = todo \ {Own}
    /\ UNCHANGED <<call, phase, at, fMap>>

\* A lone quotation mark in the other flag file, when some flags are set.
NestedPanics ==
    /\ Setting /\ Own \in todo /\ call.nested.outcome = "panic"
    /\ phase' = "panic"
    /\ UNCHANGED <<call, at, fMap, todo, flags>>

Done ==
    /\ phase = "set" /\ todo = {} /\ phase' = "ok"
    /\ UNCHANGED <<call, at, fMap, todo, flags>>

Next == \/ Run \/ SkipBlank \/ SetKey \/ SetKeyFromNextLine \/ BadLine \/ LoneQuote
        \/ ReadFails \/ Parsed \/ SetFlag \/ SetFlagFile \/ NestedPanics \/ Done
-----------------------------------------------------------------------------
(* Properties *)

\* The lines that are the value of the flag before them.
IsValue[i \in DOMAIN call.lines] ==
    /\ i > 1 /\ ~LooksLikeFlag(call.lines[i])
    /\ IsFlag(call.lines[i - 1]) /\ call.lines[i - 1].value = NoValue
    /\ ~IsValue[i - 1]
FlagLines == {i \in DOMAIN call.lines : ~IsValue[i] /\ ~Blank(call.lines[i])}
ValueOf(i) ==
    IF call.lines[i].value # NoValue THEN call.lines[i].value
    ELSE IF i < Len(call.lines) /\ IsValue[i + 1] THEN call.lines[i + 1].text ELSE ""
Keys == {call.lines[i].key : i \in FlagLines}
LastValue(k) == ValueOf(Max({i \in FlagLines : call.lines[i].key = k}))
Nested == IF Own \in Keys /\ call.nested.outcome = "ok" THEN call.nested.map ELSE << >>
NestedPanic == Own \in Keys /\ call.nested.outcome = "panic"

\* A flag that is set has what it takes of its last text in the file, whatever the order
\* of the map, or, if a flag file named in it has the flag too, of one of both.  Success
\* means that these are all the flags that there are of those in the files.  On failure
\* none is set, but if the other flag file makes the process panic.  A file without line
\* that is no flag does not fail unless it cannot be read.
FlagsDetermined ==
    /\ \A k \in DOMAIN flags :
         \/ k \in Keys \ {Own} /\ flags[k] = Taken(k, LastValue(k))
         \/ k \in DOMAIN Nested /\ flags[k] = Taken(k, Nested[k])
    /\ phase = "ok" => DOMAIN flags = ((Keys \ {Own}) \cup DOMAIN Nested) \cap Known
    /\ phase \in {"error", "panic"} =>
         \/ flags = << >> /\ (call.readFails \/ \E i \in FlagLines : ~IsFlag(call.lines[i]))
         \/ phase = "panic" /\ NestedPanic
=============================================================================
