------------------------------- MODULE PatchCmd -------------------------------
(***************************************************************************)
(* The command patch, tools/ak/patch/patch.go: attributes of a manifest    *)
(* are set, and for each split a stub manifest is written that has what    *)
(* the splits of an app must share.  The attributes to set are one map,    *)
(* changed from output to output.                                          *)
(***************************************************************************)
EXTENDS ManifestUtils

CONSTANT PatchCalls      \* the calls: records [in, doc, attr, pkg, oldApp, out, split, ioFails]

VARIABLES
    call,        \* split: sequences of parts, two for a good one: name and file
    phase,       \* "idle", "pkg", "oldapp", "out", "splits", "ok" or "error"
    elems,       \* what is to be patched
    todo,        \* the splits to write
    files,       \* files[name]: what was written there
    cut          \* the files that a failure cut off

vars == <<call, phase, elems, todo, files, cut>>

NoDoc == [elems |-> << >>, android |-> TRUE, broken |-> FALSE]
NoCall == [in |-> FALSE, doc |-> NoDoc, attr |-> << >>, pkg |-> FALSE, oldApp |-> FALSE,
           out |-> FALSE, split |-> << >>, ioFails |-> FALSE]

TypeOK ==
    /\ call \in PatchCalls \cup {NoCall}
    /\ phase \in {"idle", "pkg", "oldapp", "out", "splits", "ok", "error"}
    /\ todo = SubSeq(call.split, Len(call.split) - Len(todo) + 1, Len(call.split))
    /\ phase \in {"pkg", "oldapp", "out", "splits", "ok"} => ElemManifest \in DOMAIN elems

Init == call = NoCall /\ phase = "idle" /\ elems = << >> /\ todo = << >>
        /\ files = << >> /\ cut = {}

\* The attributes asked of the manifest itself are dropped.
Forget(patchElems) == Put(patchElems, ElemManifest, << >>)

Run ==
    /\ phase = "idle" /\ call' \in PatchCalls
    /\ IF call'.in /\ (call'.out \/ call'.split # << >>) /\ Arguments(call'.attr)
       THEN /\ phase' \in (IF call'.ioFails THEN {"pkg", "error"} ELSE {"pkg"})
            /\ elems' = Forget(CreatePatchElements(call'.attr))
            /\ todo' = call'.split
       ELSE phase' = "error" /\ UNCHANGED <<elems, todo>>
    /\ UNCHANGED <<files, cut>>

\* What Unmarshal, whose error is not looked at, leaves in the fields of Manifest.
Field(e, local) ==
    LET ns == {n \in DOMAIN e.attrs : n[2] = local}
    IN IF ns = {} THEN "" ELSE e.attrs[CHOOSE n \in ns : TRUE]

IsManifest == call.doc.elems # << >> /\ call.doc.elems[1].name = ElemManifest
Manifest(local) == IF IsManifest THEN Field(call.doc.elems[1], local) ELSE ""

\* Each <application> is read into the one field: the last that has a name stays.
Application ==
    LET key == <<NameSpace, "name">>
        named == {i \in DOMAIN call.doc.elems :
                     /\ call.doc.elems[i].name = "application"
                     /\ key \in DOMAIN call.doc.elems[i].attrs}
    IN IF IsManifest /\ named # {}
       THEN call.doc.elems[CHOOSE i \in named : \A j \in named : j <= i].attrs[key] ELSE ""

AppName == IF Application = "" THEN "android.app.Application" ELSE Application

WriteFile(asked, file, content) == files' = IF asked THEN Put(files, file, content) ELSE files

WritePkg ==
    /\ phase = "pkg" /\ phase' = "oldapp"
    /\ WriteFile(call.pkg, "pkg", Manifest("package"))
    /\ UNCHANGED <<call, elems, todo, cut>>

\* The fields that the stubs share.
Shared == {"package", "sharedUserId", "sharedUserLabel", "versionCode", "versionName"}

WriteOldApp ==
    /\ phase = "oldapp" /\ phase' = "out"
    /\ WriteFile(call.oldApp, "oldapp", AppName)
    /\ elems' = Put(elems, ElemManifest, [l \in {s \in Shared : Manifest(s) # ""} |->
                    [space |-> SpaceOf(ElemManifest, l), value |-> Manifest(l)]])
    /\ UNCHANGED <<call, todo, cut>>

\* The decoder fails on a document that is cut off, after what was read is written.
WriteOut ==
    /\ phase = "out"
    /\ phase' = IF call.out /\ call.doc.broken THEN "error" ELSE "splits"
    /\ WriteFile(call.out, "out", Patch(call.doc, elems))
    /\ UNCHANGED <<call, elems, todo, cut>>

stubManifest ==
    [elems |-> <<[name |-> ElemManifest, attrs |-> << >>],
                 [name |-> "application", attrs |-> << >>]>>,
     android |-> TRUE, broken |-> FALSE]

Splitting == phase = "splits" /\ todo # << >>

\* Mutant of SetSplit: the first name stays.
SetFirstSplit(name) ==
    IF "split" \in DOMAIN elems[ElemManifest] THEN elems
    ELSE Set(elems, ElemManifest, "split", "", name)

SetSplit(name) == Set(elems, ElemManifest, "split", "", name)

WriteSplit ==
    /\ Splitting /\ Len(todo[1]) = 2
    /\ elems' = SetSplit(todo[1][1])
    /\ files' = Put(files, todo[1][2], Patch(stubManifest, elems'))
    /\ todo' = Tail(todo)
    /\ UNCHANGED <<call, phase, cut>>

\* The file that the next step writes, if it writes one.
Target ==
    {f \in {"pkg"} : phase = "pkg" /\ call.pkg}
    \cup {f \in {"oldapp"} : phase = "oldapp" /\ call.oldApp}
    \cup {f \in {"out"} : phase = "out" /\ call.out}
    \cup (IF Splitting /\ Len(todo[1]) = 2 THEN {todo[1][2]} ELSE {})

\* A split without its two parts, or a call on a file, which may be cut off then.
Fails ==
    /\ \/ Splitting /\ Len(todo[1]) # 2 /\ UNCHANGED cut
       \/ call.ioFails /\ \E f \in Target : cut' \in {cut, cut \cup {f}}
    /\ phase' = "error"
    /\ UNCHANGED <<call, elems, todo, files>>

Done ==
    /\ phase = "splits" /\ todo = << >> /\ phase' = "ok"
    /\ UNCHANGED <<call, elems, todo, files, cut>>

Next == Run \/ WritePkg \/ WriteOldApp \/ WriteOut \/ WriteSplit \/ Fails \/ Done
-----------------------------------------------------------------------------
(* Properties *)

IsElement(e, name, expected) ==
    e.name = name /\ e.attrs = expected /\ (e.start \/ ~call.doc.android)

\* What a split named name has in its manifest.
SplitManifest(name) ==
    LET shared == {<<SpaceOf(ElemManifest, l), l>> : l \in {l \in Shared : Manifest(l) # ""}}
    IN [n \in shared \cup {<<"", "split">>} |-> IF n \in shared THEN Manifest(n[2]) ELSE name]

\* The outputs do not disturb each other although they share the map: "out" is the
\* document with the attributes set in every element of the name but the manifest, which
\* is as it was, without what was asked for it and without a name of a split; each split
\* has what the manifest shares, its own name, and the attributes of the application; the
\* package and the application are those of before.  A file is cut off only by a failure.
PatchRight ==
    /\ phase = "ok" =>
         /\ call.pkg => files["pkg"] = Manifest("package")
         /\ call.oldApp => files["oldapp"] = AppName
         /\ call.out =>
              /\ ~call.doc.broken /\ Len(files["out"]) = Len(call.doc.elems)
              /\ \A i \in DOMAIN files["out"] : LET e == call.doc.elems[i] IN
                    IsElement(files["out"][i], e.name,
                        IF e.name = ElemManifest THEN e.attrs
                        ELSE WithAsked(call.attr, e.name, e.attrs))
         /\ \A i \in DOMAIN call.split :
              LET s == files[call.split[i][2]]
              IN (\A j \in DOMAIN call.split : call.split[j][2] = call.split[i][2] => j <= i) =>
                 /\ s[1].attrs = SplitManifest(call.split[i][1])
                 /\ IsElement(s[2], "application", WithAsked(call.attr, "application", << >>))
    /\ cut # {} => phase = "error"

\* "(optional) attr(s) to set. {element}:{attr}:{value}."
AttrsSet ==
    phase = "ok" /\ call.out /\ call.doc.android =>
        \A i \in DOMAIN call.doc.elems : LET e == call.doc.elems[i].name IN
            \A l \in LocalsAsked(call.attr, e) :
                /\ <<SpaceOf(e, l), l>> \in DOMAIN files["out"][i].attrs
                /\ files["out"][i].attrs[<<SpaceOf(e, l), l>>] = ValueAsked(call.attr, e, l)
=============================================================================
