----------------------------- MODULE FinalRJar -----------------------------
(***************************************************************************)
(* The command finalrjar, tools/ak/finalrjar/finalrjar.go: one goroutine   *)
(* for each R.txt sends its lines on one channel, the main one groups them *)
(* by type, writes the R class of the package and a root R class, compiles *)
(* both and keeps the first.                                               *)
(*                                                                         *)
(* A line is [kind, type, id, var].  The kind is "res", "skipped" (fewer   *)
(* than three words, or an ID with a "$") or "long" (longer than what      *)
(* bufio.Scanner takes).  An ID is a number, "<" is "<" on their names.    *)
(***************************************************************************)
EXTENDS Naturals, Sequences, Functions

CONSTANTS
    RJarCalls,   \* the calls: records [files, reserved, hidden, ioFails]
    Types,       \* the types that the lines have
    resTypes     \* those of the list resTypes

VARIABLES
    call,        \* the call; "reserved": the package has a reserved word of Java;
                 \* "hidden": its path begins with that of the root package
    phase,       \* "idle", "start", "ids", "write", "compile", "filter",
                 \* "ok" or "error"
    at,          \* at[f]: the line the scanner of the file f is at
    open,        \* the files whose goroutine runs
    closed,      \* resC is closed
    resMap,      \* resMap[t]: the resources [id, var] of the type t
    rJava,       \* rJava[t]: the fields of the class for t; << >>: no class
    jar          \* the classes of the output, a set of <<package, class>>

vars == <<call, phase, at, open, closed, resMap, rJava, jar>>

NoCall == [files |-> << >>, reserved |-> FALSE, hidden |-> FALSE, ioFails |-> FALSE]
NoJar == [classes |-> {}, cut |-> FALSE]
Running == phase \notin {"idle", "ok", "error"}

TypeOK ==
    /\ call \in RJarCalls \cup {NoCall}
    /\ phase \in {"idle", "start", "ids", "write", "compile", "filter", "ok", "error"}
    /\ open \subseteq DOMAIN call.files /\ closed \in BOOLEAN
    /\ \A f \in DOMAIN at : at[f] \in 1..(Len(call.files[f]) + 1)
    /\ DOMAIN resMap = Types /\ DOMAIN rJava = resTypes

Init ==
    /\ call = NoCall /\ phase = "idle"
    /\ at = << >> /\ open = {} /\ closed = FALSE
    /\ resMap = [t \in Types |-> << >>] /\ rJava = [t \in resTypes |-> << >>]
    /\ jar = NoJar

Run ==
    /\ phase = "idle"
    /\ call' \in RJarCalls /\ phase' = "start"
    /\ UNCHANGED <<at, open, closed, resMap, rJava, jar>>

Go(from, to) == phase = from /\ phase' = to
-----------------------------------------------------------------------------
EmptyZip ==
    /\ call.reserved /\ Go("start", "ok")
    /\ jar' = NoJar
    /\ UNCHANGED <<call, at, open, closed, resMap, rJava>>

openRtxts ==
    /\ ~call.reserved /\ Go("start", "ids")
    /\ open' = DOMAIN call.files
    /\ at' = [f \in open' |-> 1]
    /\ UNCHANGED <<call, closed, resMap, rJava, jar>>

Line(f) == call.files[f][at[f]]
Scanning(f, kind) ==
    f \in open /\ at[f] <= Len(call.files[f]) /\ Line(f).kind = kind

Skip(f) ==
    /\ Scanning(f, "skipped")
    /\ at' = [at EXCEPT ![f] = @ + 1]
    /\ UNCHANGED <<call, phase, open, closed, resMap, rJava, jar>>

\* Mutant of groupResByType: IDs of different types are not told apart.
groupByID(m, l) ==
    IF \E t \in Types : \E i \in DOMAIN m[t] : m[t][i].id = l.id THEN m
    ELSE [m EXCEPT ![l.type] = Append(@, [id |-> l.id, var |-> l.var])]

\* The first line of a type and ID is kept.
groupResByType(m, l) ==
    IF \E i \in DOMAIN m[l.type] : m[l.type][i].id = l.id THEN m
    ELSE [m EXCEPT ![l.type] = Append(@, [id |-> l.id, var |-> l.var])]

\* resC is not buffered: a send is a receive of groupResByType.
Send(f) ==
    /\ Scanning(f, "res")
    /\ resMap' = groupResByType(resMap, Line(f))
    /\ at' = [at EXCEPT ![f] = @ + 1]
    /\ UNCHANGED <<call, phase, open, closed, rJava, jar>>

\* Scan returns false; the error of the scanner is not looked at.
ScanStops(f) ==
    /\ Scanning(f, "long")
    /\ at' = [at EXCEPT ![f] = Len(call.files[f]) + 1]
    /\ UNCHANGED <<call, phase, open, closed, resMap, rJava, jar>>

FileDone(f) ==
    /\ f \in open /\ at[f] > Len(call.files[f])
    /\ open' = open \ {f}
    /\ UNCHANGED <<call, phase, at, closed, resMap, rJava, jar>>

CloseResC ==
    /\ phase = "ids" /\ ~closed /\ open = {}
    /\ closed' = TRUE
    /\ UNCHANGED <<call, phase, at, open, resMap, rJava, jar>>

RangeEnds ==
    /\ closed /\ Go("ids", "write")
    /\ UNCHANGED <<call, at, open, closed, resMap, rJava, jar>>
-----------------------------------------------------------------------------
\* What sort.Slice may make of s.
Sorted(s) == {r \in {[i \in DOMAIN s |-> s[p[i]]] : p \in Bijection(DOMAIN s, DOMAIN s)} :
                 \A i, j \in DOMAIN r : i < j => r[i].id <= r[j].id}

\* The types of the list, each with its resources sorted by ID.
writeRJavas ==
    /\ Go("write", "compile")
    /\ rJava' \in [resTypes -> UNION {Sorted(resMap[t]) : t \in resTypes}]
    /\ \A t \in resTypes : rJava'[t] \in Sorted(resMap[t])
    /\ UNCHANGED <<call, at, open, closed, resMap, jar>>

\* The compiler; "^attr-private" is no name of a class.
compileRJar ==
    /\ rJava["^attr-private"] = << >> /\ Go("compile", "filter")
    /\ UNCHANGED <<call, at, open, closed, resMap, rJava, jar>>

Compiled == {"pkg", "root"} \X ({"R"} \cup {t \in resTypes : rJava[t] # << >>})

\* ignorePrefix: a class of the root package, or in a path that begins like its.
Ignored(class) == class[1] = "root" \/ call.hidden

filterZip ==
    /\ Go("filter", "ok")
    /\ jar' = [classes |-> {c \in Compiled : ~Ignored(c)}, cut |-> FALSE]
    /\ UNCHANGED <<call, at, open, closed, resMap, rJava>>

\* defer zipOut.Close(): its error is lost.
filterZipCut ==
    /\ call.ioFails /\ Go("filter", "ok")
    /\ jar' = [classes |-> {}, cut |-> TRUE]
    /\ UNCHANGED <<call, at, open, closed, resMap, rJava>>

Fails ==
    /\ \/ call.ioFails /\ phase \in {"start", "write", "compile", "filter"}
       \/ phase = "compile" /\ rJava["^attr-private"] # << >>
    /\ phase' = "error"
    /\ UNCHANGED <<call, at, open, closed, resMap, rJava, jar>>

getIds == \E f \in open : Skip(f) \/ Send(f) \/ ScanStops(f) \/ FileDone(f)

Next == \/ Run \/ EmptyZip \/ openRtxts \/ getIds \/ CloseResC \/ RangeEnds
        \/ writeRJavas \/ compileRJar \/ filterZip \/ filterZipCut \/ Fails
-----------------------------------------------------------------------------
(* Properties *)

\* The lines that a scanner gets to.
Scanned(f) ==
    LET ls == call.files[f]
    IN {ls[i] : i \in {i \in DOMAIN ls : /\ ls[i].kind = "res"
                                        /\ \A j \in 1..i : ls[j].kind # "long"}}
AllScanned == UNION {Scanned(f) : f \in DOMAIN call.files}
Of(t) == {l \in AllScanned : l.type = t}

\* The R class has one field for each type and ID of any file, sorted, whatever the
\* goroutines' order; its type is that of the lines, if these agree ("duplicates").
RComplete ==
    phase \in {"compile", "filter", "ok"} /\ ~call.reserved =>
        \A t \in resTypes :
            /\ rJava[t] \in Seq({[id |-> l.id, var |-> l.var] : l \in Of(t)})
            /\ \A i, j \in DOMAIN rJava[t] : i < j => rJava[t][i].id < rJava[t][j].id
            /\ {rJava[t][i].id : i \in DOMAIN rJava[t]} = {l.id : l \in Of(t)}

\* The jar has the class R and one for each type that has a resource in any file,
\* and none of the root package, unless the close of the jar failed, whose error is
\* lost, or the package's path begins with that of the root package.
JarRight ==
    phase = "ok" /\ ~call.reserved /\ ~jar.cut /\ ~call.hidden =>
        jar.classes = {"pkg"} \X ({"R"} \cup ({l.type : l \in AllScanned} \cap resTypes))
=============================================================================
