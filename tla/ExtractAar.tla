----------------------------- MODULE ExtractAar -----------------------------
(***************************************************************************)
(* The command extractaar, tools/ak/extractaar: an AAR is unzipped, its    *)
(* files are grouped and validated, and if all are valid they are copied   *)
(* to the outputs.  An output directory is never left empty.               *)
(*                                                                         *)
(* A file of the AAR is [group, id]: "manifest", "res", "assets", or       *)
(* "other" if its path is none of these.                                   *)
(***************************************************************************)
EXTENDS Integers, Sequences, FiniteSets, SequencesExt

CONSTANT AarCalls        \* the calls: records [files, has, ioFails]

VARIABLES
    call,        \* has[g]: the attribute of g: 1 true, -1 false, else not set
    phase,       \* "idle", "start", "validate", "copy", "res", "assets", "ok"
                 \* or "error"
    todo,        \* the groups not yet validated
    toCopy,      \* the valid files, in the order they are copied
    errs,        \* the groups that are not valid, in the order they were found
    out          \* out[g]: the ids of the files in the output for g

vars == <<call, phase, todo, toCopy, errs, out>>

Groups == {"manifest", "res", "assets"}
NoCall == [files |-> << >>, has |-> [res |-> 0, assets |-> 0], ioFails |-> FALSE]
NoOutput == [g \in Groups |-> {}]
Placeholder == "placeholder"
Running == phase \notin {"idle", "ok", "error"}

TypeOK ==
    /\ call \in AarCalls \cup {NoCall}
    /\ phase \in {"idle", "start", "validate", "copy", "res", "assets", "ok", "error"}
    /\ todo \subseteq Groups /\ Range(errs) \subseteq Groups \ todo
    /\ \A i \in DOMAIN toCopy : toCopy[i].group \in Groups
    /\ DOMAIN out = Groups

Init ==
    /\ call = NoCall /\ phase = "idle"
    /\ todo = {} /\ toCopy = << >> /\ errs = << >> /\ out = NoOutput

Run ==
    /\ phase = "idle"
    /\ call' \in AarCalls /\ phase' = "start"
    /\ UNCHANGED <<todo, toCopy, errs, out>>

\* A call on a file or a directory; a copy that fails may leave its file behind.
Fails ==
    /\ call.ioFails /\ phase \in {"start", "copy", "res", "assets"}
    /\ phase' = "error"
    /\ out' \in {out} \cup
         (IF phase = "copy" /\ toCopy # << >>
          THEN {[out EXCEPT ![toCopy[1].group] = @ \cup {toCopy[1].id}]} ELSE {})
    /\ UNCHANGED <<call, todo, toCopy, errs>>

extractAAR ==
    /\ phase = "start" /\ phase' = "validate"
    /\ todo' = Groups
    /\ UNCHANGED <<call, toCopy, errs, out>>

\* The groups of the first n files: a loop that appends each to its group.
filesMap[n \in 0..Len(call.files)] ==
    IF n = 0 THEN [g \in Groups |-> << >>]
    ELSE LET file == call.files[n] IN
         IF file.group \in Groups
         THEN [filesMap[n - 1] EXCEPT ![file.group] = Append(@, file)]
         ELSE filesMap[n - 1]
groupAARFiles(g) == filesMap[Len(call.files)][g]

isSet(tristate) == tristate \in {1, -1}

\* The validators: one manifest; resources as the attribute says, if it is set.
Valid(g) ==
    LET n == Len(groupAARFiles(g)) IN
    IF g = "manifest" THEN n = 1
    ELSE isSet(call.has[g]) => ((n > 0) = (call.has[g] = 1))

\* Mutant of Validate: a group that is not valid is copied all the same.
ValidateCopies(g) ==
    /\ phase = "validate" /\ g \in todo
    /\ todo' = todo \ {g}
    /\ toCopy' = toCopy \o groupAARFiles(g)
    /\ errs' = IF Valid(g) THEN errs ELSE Append(errs, g)
    /\ phase' = IF todo' # {} THEN phase ELSE IF Len(errs') = 3 THEN "error" ELSE "copy"
    /\ UNCHANGED <<call, out>>

\* The groups are in the order of a map.
Validate(g) ==
    /\ phase = "validate" /\ g \in todo
    /\ todo' = todo \ {g}
    /\ toCopy' = IF Valid(g) THEN toCopy \o groupAARFiles(g) ELSE toCopy
    /\ errs' = IF Valid(g) THEN errs ELSE Append(errs, g)
    /\ phase' = IF todo' # {} THEN phase ELSE IF errs' # << >> THEN "error" ELSE "copy"
    /\ UNCHANGED <<call, out>>

copyFile ==
    /\ phase = "copy" /\ toCopy # << >>
    /\ out' = [out EXCEPT ![toCopy[1].group] = @ \cup {toCopy[1].id}]
    /\ toCopy' = Tail(toCopy)
    /\ UNCHANGED <<call, phase, todo, errs>>

Copied ==
    /\ phase = "copy" /\ toCopy = << >>
    /\ phase' = "res"
    /\ UNCHANGED <<call, todo, toCopy, errs, out>>

createIfEmpty(g, then) ==
    /\ phase = g
    /\ out' = IF out[g] = {} THEN [out EXCEPT ![g] = {Placeholder}] ELSE out
    /\ phase' = then
    /\ UNCHANGED <<call, todo, toCopy, errs>>

Next == \/ Run \/ Fails \/ extractAAR \/ (\E g \in Groups : Validate(g)) \/ copyFile
        \/ Copied \/ createIfEmpty("res", "assets") \/ createIfEmpty("assets", "ok")
-----------------------------------------------------------------------------
(* Properties *)

\* An AAR of which any group is not valid leaves no file in any output, whatever the
\* order of the groups.
AllOrNothing == (\E g \in Groups : ~Valid(g)) => out = NoOutput

\* Success means that the outputs have what the AAR has, one manifest, and never an
\* empty directory ("so that Bazel does not complain"); and the command succeeds
\* unless a call fails, there is not one manifest, or an attribute is set and wrong.
OutputsRight ==
    /\ phase = "ok" =>
         /\ Cardinality(out["manifest"]) = 1
         /\ \A g \in Groups :
              out[g] = IF groupAARFiles(g) = << >> THEN {Placeholder}
                       ELSE {f.id : f \in Range(groupAARFiles(g))}
    /\ phase = "error" /\ ~call.ioFails =>
         \/ Len(groupAARFiles("manifest")) # 1
         \/ \E g \in {"res", "assets"} :
               \/ call.has[g] = 1 /\ groupAARFiles(g) = << >>
               \/ call.has[g] = -1 /\ groupAARFiles(g) # << >>
=============================================================================
