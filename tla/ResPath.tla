------------------------------- MODULE ResPath -------------------------------
(***************************************************************************)
(* What the location of a resource file says of it: ParsePath of           *)
(* tools/ak/res/path.go and the tables of res/struct.go it looks into.     *)
(*                                                                         *)
(* A path is [dot, type, quals]: whether its base name starts with a dot,  *)
(* and its directory's name split at each "-".  A qualifier is             *)
(* [word, dpi, num]: the word, whether it ends in "dpi", and the number    *)
(* before that, -1 when there is none.                                     *)
(***************************************************************************)
EXTENDS Integers, Sequences, SequencesExt

NonValueTypes == {"anim", "animator", "drawable", "font", "interpolator", "layout",
                  "menu", "mipmap", "navigation", "raw", "transition", "xml"}
ValueTypes == {"array", "attr", "^attr-private", "bool", "configVarying", "dimen",
               "fraction", "id", "integer", "plurals", "string", "style", "styleable"}
AllTypes == NonValueTypes \cup ValueTypes \cup {"color"}

\* Where a resource of the type is declared.
Kind(t) == CASE t \in ValueTypes \cup {"values"} -> "Value"
             [] t \in NonValueTypes -> "NonValue"
             [] t = "color" -> "Both"
             [] OTHER -> "Unknown"

\* ParseType and ParseValueOrType fail for every other word.
IsType(s) == s \in AllTypes
IsValueOrType(s) == s = "values" \/ IsType(s)

strToDensity == [ldpi |-> 120, mdpi |-> 160, tvdpi |-> 213, hdpi |-> 240, xhdpi |-> 320,
                 xxhdpi |-> 480, xxxhdpi |-> 640, anydpi |-> 65534, nodpi |-> 65535]
UnspecifiedDensity == 0
Unparsable == -1

ParseDensity(q) ==
    IF q.word \in DOMAIN strToDensity THEN strToDensity[q.word]
    ELSE IF ~q.dpi THEN UnspecifiedDensity
    ELSE IF q.num \in 0..65535 THEN q.num ELSE Unparsable

\* Mutant of Density: an unspecified density ends the loop.
DensityOfFirst(quals) == IF quals = << >> THEN UnspecifiedDensity ELSE ParseDensity(quals[1])

\* The first qualifier that is a density, or looks like one, decides.
Density(quals) ==
    LET at == SelectInSeq(quals, LAMBDA q : ParseDensity(q) # UnspecifiedDensity)
    IN IF at = 0 THEN UnspecifiedDensity ELSE ParseDensity(quals[at])

\* The outcome of ParsePath: ErrSkipResPath, ErrNotResPath, another error, or the
\* type and the density of a PathInfo.
ParsePath(p) ==
    IF p.dot THEN [is |-> "skip"]
    ELSE IF ~IsValueOrType(p.type) THEN [is |-> "not"]
    ELSE IF Density(p.quals) = Unparsable THEN [is |-> "bad"]
    ELSE [is |-> "info", type |-> p.type, density |-> Density(p.quals)]
=============================================================================
