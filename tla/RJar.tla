-------------------------------- MODULE RJar --------------------------------
(***************************************************************************)
(* The command rjar, tools/ak/rjar/rjar.go: the first valid package of a   *)
(* list gets a copy of R.java, every other one an R class that extends the *)
(* first one's, and all of them are compiled into the R.jar.               *)
(*                                                                         *)
(* R.java is "missing", "empty" or "text", and a sequence of classes, with *)
(* "long" for a line that bufio.Scanner does not take.  A package is       *)
(* [name, kind]: "odd" (blank, or with one of "-$/"), "reserved" (a part   *)
(* is a reserved word of Java), "long" or "plain".                         *)
(***************************************************************************)
EXTENDS Naturals, Sequences, FiniteSets, SequencesExt

CONSTANT RJavaCalls      \* the calls: records [rjava, classes, pkgs, old, ioFails]

VARIABLES
    call,        \* old: whether there is a jar from before
    phase,       \* "idle", "start", "write", "compile", "ok" or "error"
    todo,        \* the packages not yet written
    srcs,        \* the sources: [pkg, base, classes, cut], base of the first its own name
    template,    \* the classes that the other packages extend
    jar          \* "none", "old", "cut", "empty" or "compiled"

vars == <<call, phase, todo, srcs, template, jar>>

NoCall == [rjava |-> "missing", classes |-> << >>, pkgs |-> << >>, old |-> FALSE,
           ioFails |-> FALSE]
Running == phase \in {"start", "write", "compile"}

TypeOK ==
    /\ call \in RJavaCalls \cup {NoCall}
    /\ phase \in {"idle", "start", "write", "compile", "ok", "error"}
    /\ Len(todo) + Len(srcs) <= Len(call.pkgs)
    /\ ToSet(template) \subseteq ToSet(call.classes)
    /\ \A i \in DOMAIN srcs : srcs[i].base = srcs[1].pkg

Init ==
    /\ call = NoCall /\ phase = "idle"
    /\ todo = << >> /\ srcs = << >> /\ template = << >> /\ jar = "none"

Run ==
    /\ phase = "idle" /\ phase' = "start"
    /\ call' \in RJavaCalls
    /\ jar' = IF call'.old THEN "old" ELSE "none"
    /\ UNCHANGED <<todo, srcs, template>>

\* There are no resources: an empty jar.
EmptyZip ==
    /\ phase = "start" /\ call.rjava # "text"
    /\ phase' = "ok" /\ jar' = "empty"
    /\ UNCHANGED <<call, todo, srcs, template>>

\* Mutant of getPkgs: a package that is listed twice is kept twice.
getPkgsTwice ==
    /\ phase = "start" /\ call.rjava = "text"
    /\ \A i \in DOMAIN call.pkgs : call.pkgs[i].kind # "long"
    /\ phase' = "write"
    /\ todo' = SelectSeq(call.pkgs, LAMBDA p : p.kind # "odd")
    /\ UNCHANGED <<call, srcs, template, jar>>

\* Of the first n packages those that are not odd, each once.
pkgs[n \in 0..Len(call.pkgs)] ==
    IF n = 0 THEN << >>
    ELSE LET p == call.pkgs[n] IN
         IF p.kind = "odd" \/ Contains(pkgs[n - 1], p) THEN pkgs[n - 1]
         ELSE Append(pkgs[n - 1], p)

getPkgs ==
    /\ phase = "start" /\ call.rjava = "text"
    /\ \A i \in DOMAIN call.pkgs : call.pkgs[i].kind # "long"
    /\ phase' = "write"
    /\ todo' = pkgs[Len(call.pkgs)]
    /\ UNCHANGED <<call, srcs, template, jar>>

\* The error of the scanner of the packages is looked at.
getPkgsFails ==
    /\ phase = "start" /\ call.rjava = "text"
    /\ \E i \in DOMAIN call.pkgs : call.pkgs[i].kind = "long"
    /\ phase' = "error"
    /\ UNCHANGED <<call, todo, srcs, template, jar>>

Writing == phase = "write" /\ todo # << >>
Pkg == todo[1]
hasInvalid == Pkg.kind = "reserved"

SkipReserved ==
    /\ Writing /\ hasInvalid
    /\ todo' = Tail(todo)
    /\ UNCHANGED <<call, phase, srcs, template, jar>>

\* The error of the scanner of R.java is not.
Scanned(classes) ==
    LET long == SelectInSeq(classes, LAMBDA c : c = "long")
    IN IF long = 0 THEN classes ELSE SubSeq(classes, 1, long - 1)

Source(base, classes, cut) ==
    [pkg |-> Pkg.name, base |-> base, classes |-> classes, cut |-> cut]

WriteFirst ==
    /\ Writing /\ ~hasInvalid /\ srcs = << >>
    /\ srcs' = <<Source(Pkg.name, call.classes, FALSE)>>
    /\ template' = Scanned(call.classes)
    /\ todo' = Tail(todo)
    /\ UNCHANGED <<call, phase, jar>>

\* The error of the write is ignored.
WriteSubclass ==
    /\ Writing /\ ~hasInvalid /\ srcs # << >>
    /\ \E cut \in {FALSE, call.ioFails} :
          srcs' = Append(srcs, Source(srcs[1].pkg, IF cut THEN << >> ELSE template, cut))
    /\ todo' = Tail(todo)
    /\ UNCHANGED <<call, phase, template, jar>>

removeOld ==
    /\ phase = "write" /\ todo = << >>
    /\ phase' = "compile" /\ jar' = "none"
    /\ UNCHANGED <<call, todo, srcs, template>>

compileRJar ==
    /\ phase = "compile"
    /\ phase' = "ok" /\ jar' = "compiled"
    /\ UNCHANGED <<call, todo, srcs, template>>

JarAfterFailure ==
    IF phase = "compile" \/ (phase = "start" /\ call.rjava # "text") THEN {jar, "cut"}
    ELSE IF phase = "write" /\ todo = << >> THEN {jar, "none"} ELSE {jar}

\* A call on a file, or the compiler, which may refuse a class that was cut off.
Fails ==
    /\ Running /\ (call.ioFails \/ phase = "compile")
    /\ phase' = "error"
    /\ jar' \in JarAfterFailure
    /\ UNCHANGED <<call, todo, srcs, template>>

Next == \/ Run \/ EmptyZip \/ getPkgs \/ getPkgsFails \/ SkipReserved \/ WriteFirst
        \/ WriteSubclass \/ removeOld \/ compileRJar \/ Fails
-----------------------------------------------------------------------------
(* Properties *)

Plain == {p \in ToSet(call.pkgs) : p.kind = "plain"}
\* The package that has the classes.
IsBase(name) == \E i \in DOMAIN call.pkgs :
    /\ call.pkgs[i].kind = "plain" /\ call.pkgs[i].name = name
    /\ \A j \in 1..(i - 1) : call.pkgs[j].kind # "plain"

\* Success means a new jar, empty without resources; else every valid package has one
\* R class in it, the first one's with all classes and each other extending it class
\* by class, unless a write failed unseen.  A line too long ends the classes of the
\* others, not of the first.  The jar of before is never taken for one of this call.
SubclassesRight ==
    /\ phase = "compile" => jar # "old"
    /\ phase = "ok" => jar = IF call.rjava = "text" THEN "compiled" ELSE "empty"
    /\ jar = "compiled" =>
         /\ Len(srcs) = Cardinality(Plain)
         /\ {s.pkg : s \in ToSet(srcs)} = {p.name : p \in Plain}
         /\ \A i \in DOMAIN srcs :
              /\ IsBase(srcs[i].base)
              /\ i = 1 => srcs[i].classes = call.classes
              /\ i > 1 /\ ~srcs[i].cut => srcs[i].classes = Scanned(srcs[1].classes)
              /\ srcs[i].cut => call.ioFails
=============================================================================
