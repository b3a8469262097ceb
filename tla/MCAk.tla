-------------------------------- MODULE MCAk --------------------------------
(***************************************************************************)
(* Calls of the commands of ak that reach each of their branches; and what *)
(* is checked of the rules, the functions of MinSdk and Pipeline, over     *)
(* small inputs.                                                           *)
(***************************************************************************)
EXTENDS Ak, SequencesExt, FiniteSets, ResName

\* Two types of the list, the one that is no name of a class, and an unknown one.
MCTypes == {"string", "styleable", "^attr-private", "macro"}
MCResTypes == {"string", "styleable", "^attr-private"}

Res(t, id, var) == [kind |-> "res", type |-> t, id |-> id, var |-> var]
Odd(kind) == [kind |-> kind, type |-> "string", id |-> 9, var |-> "int"]

\* Three files with common lines, an ID of two types, and two types of one ID.
SharedFiles == << <<Res("string", 2, "int"), Res("styleable", 1, "int[]")>>,
                  <<Res("string", 1, "int"), Odd("skipped"), Res("string", 2, "int")>>,
                  <<Res("styleable", 1, "int"), Res("macro", 1, "int")>> >>
LongLine == << <<Res("string", 1, "int"), Odd("long"), Res("string", 2, "int")>>,
               <<Res("styleable", 2, "int[]")>> >>
PrivateAttr == << <<Res("^attr-private", 1, "int")>> >>

FinalRJarCall(files, reserved, hidden, ioFails) ==
    [files |-> files, reserved |-> reserved, hidden |-> hidden, ioFails |-> ioFails]
MCRJarCalls == {FinalRJarCall(SharedFiles, FALSE, FALSE, FALSE), FinalRJarCall(LongLine, FALSE, FALSE, TRUE),
                FinalRJarCall(LongLine, FALSE, TRUE, FALSE), FinalRJarCall(LongLine, TRUE, FALSE, FALSE),
                FinalRJarCall(PrivateAttr, FALSE, FALSE, FALSE)}

Values == {[kind |-> "bad", v |-> 7], [kind |-> "placeholder", v |-> 0],
           [kind |-> "value", v |-> 3], [kind |-> "value", v |-> 21]}
MCManifestCalls ==
    [manifests : {<< >>} \cup [1..3 -> Values], minSdk : {14}, ioFails : {FALSE}]
    \cup [manifests : [1..1 -> Values], minSdk : {14}, ioFails : {TRUE}]

\* A class, two inner ones, a synthetic, and a class with a longer name.
File(name) == [name |-> name, dex |-> TRUE, regular |-> TRUE]
Dexed == << File(<<"A", "$", "B">>), File(<<"A">>), [File(<<"A">>) EXCEPT !.regular = FALSE],
            File(<<"A", "-", "$", "S">>), File(<<"A", "B">>), File(<<"A", "$", "$", "S">>) >>
WithText == Append(SubSeq(Dexed, 1, 2), [File(<<"T">>) EXCEPT !.dex = FALSE])
MCDexCalls ==
    [sc : 1..3, badFlags : {FALSE}, code : BOOLEAN, desugar : BOOLEAN,
     dexed : {Dexed, WithText}, ioFails : BOOLEAN]
    \cup {[sc |-> 1, badFlags |-> TRUE, code |-> TRUE, desugar |-> TRUE, dexed |-> << >>,
           ioFails |-> FALSE]}

\* The length and the number of "-" count.
MCFNV(name, n) == (Len(name) + Len(SelectSeq(name, LAMBDA c : c = "-"))) % n

AarFile(group, id) == [group |-> group, id |-> id]
MCAars == {<< >>, <<AarFile("manifest", 1)>>,
           <<AarFile("res", 2), AarFile("manifest", 1), AarFile("other", 3)>>,
           <<AarFile("manifest", 1), AarFile("assets", 4), AarFile("res", 2),
             AarFile("res", 5)>>,
           <<AarFile("manifest", 1), AarFile("manifest", 6), AarFile("assets", 4)>>}
MCAarCalls ==
    [files : MCAars, has : [res : {-1, 0, 1}, assets : {-1, 0, 1}], ioFails : BOOLEAN]

\* Names in both a directory and an archive, directories, and names that match;
\* the second archive is empty.
Entry(name, dir, match, body) ==
    [name |-> name, dir |-> dir, match |-> match, body |-> body]
Dirs == << <<Entry(".", TRUE, FALSE, 0), Entry("a", FALSE, FALSE, 1),
             Entry("R", FALSE, TRUE, 2)>> >>
Zips == << <<Entry("R", FALSE, TRUE, 3), Entry("b", FALSE, FALSE, 4)>>, << >>,
           <<Entry("b", FALSE, FALSE, 5), Entry("S", FALSE, TRUE, 6),
             Entry("a", FALSE, FALSE, 7), Entry("d", TRUE, FALSE, 0)>> >>
MCRepackCalls ==
    [dirs : {Dirs, << >>}, zips : {Zips}, removeDirs : BOOLEAN, filtered : BOOLEAN,
     badFlags : {FALSE}, ioFails : BOOLEAN]
    \cup {[dirs |-> << >>, zips |-> << >>, removeDirs |-> TRUE, filtered |-> TRUE,
           badFlags |-> TRUE, ioFails |-> FALSE]}

RRes(classes, pkgs, ioFails) ==
    [rjava |-> "text", classes |-> classes, pkgs |-> pkgs, old |-> ioFails, ioFails |-> ioFails]
Pkg(name, kind) == [name |-> name, kind |-> kind]
MCPkgs == <<Pkg("new.a", "reserved"), Pkg("", "odd"), Pkg("a", "plain"), Pkg("b", "plain"),
            Pkg("a", "plain"), Pkg("c", "plain")>>
MCRJavaCalls ==
    [rjava : {"missing", "empty"}, classes : {<< >>}, pkgs : {MCPkgs}, old : BOOLEAN,
     ioFails : BOOLEAN]
    \cup {RRes(<<"id", "string">>, MCPkgs, FALSE), RRes(<<"id", "string">>, MCPkgs, TRUE),
          RRes(<<"id", "long", "string">>, MCPkgs, FALSE),
          RRes(<<"id">>, Append(MCPkgs, Pkg("d", "long")), FALSE)}

\* One library in two archives, under one path or another, and one given that is the
\* same by name only; architectures that are renamed.
Lib(arch, base, body) == [arch |-> arch, base |-> base, body |-> body]
ZipLib(path, arch, base, body) == [path |-> path, arch |-> arch, base |-> base, body |-> body]
LibZips == << <<ZipLib("x86/a.so", "x86", "a", "1"), ZipLib("armv7a/b.so", "armv7a", "b", "2")>>,
              <<ZipLib("x86/a.so", "x86", "a", "3"), ZipLib("v/x86/a.so", "x86", "a", "4")>> >>
MCLibCalls ==
    [libs : {<< >>, <<Lib("x86", "c", "5"), Lib("armeabi-v7a", "b", "6"), Lib("x86", "a", "7")>>},
     zips : {<< >>, LibZips, Reverse(LibZips)}, ioFails : BOOLEAN]
    \cup {[libs |-> <<Lib("x86", "a", "7"), Lib("", "a", "8")>>, zips |-> << >>, ioFails |-> FALSE]}

NameOrder == <<"AndroidManifest.xml", "META-INF/MANIFEST.MF", "a", "armeabi-v7a", "b", "c",
               "classes.dex", "x86">>
NameAt(n) == SelectInSeq(NameOrder, LAMBDA m : m = n)
MCNameBefore(a, b) == NameAt(a) < NameAt(b)
MCPathBefore(p, q) == MCNameBefore(p[1], q[1]) \/ (p[1] = q[1] /\ MCNameBefore(p[2], q[2]))

\* Java resources with files of the command; a manifest in every archive.
E(name, body, match) == [name |-> name, body |-> body, match |-> match]
AnyManifest(n) == E("AndroidManifest.xml", n, TRUE)
Apk(dexes, java, libs, linked, ioFails) ==
    [dexes |-> dexes, javaRes |-> java, libs |-> libs, linked |-> linked, arsc |-> linked,
     resZip |-> <<AnyManifest("r"), E("res/a", "2", FALSE)>>, ioFails |-> ioFails]
OneDex == <<E("classes.dex", "d", TRUE), E("other", "o", FALSE)>>
Java == << <<AnyManifest("j"), E("a", "3", FALSE)>>,
           <<E("a", "4", FALSE), E("META-INF/MANIFEST.MF", "5", FALSE)>> >>
Libs == <<E("lib/x.so", "6", TRUE), E("readme", "7", FALSE), E("lib/y.so", "8", TRUE)>>
MCApkCalls ==
    {Apk(OneDex, Java, Libs, TRUE, FALSE), Apk(OneDex, Java, Libs, FALSE, TRUE),
     Apk(OneDex, <<Java[2], <<E("classes.dex", "9", TRUE)>> >>, << >>, FALSE, FALSE),
     Apk(Append(OneDex, E("classes2.dex", "d2", TRUE)), << >>, << >>, FALSE, FALSE),
     Apk(Tail(OneDex), << >>, << >>, FALSE, FALSE)}

\* A manifest with two activities of which one has a label, and attributes for both,
\* for the manifest and for an element that there is not.
El(name, attrs) == [name |-> name, attrs |-> attrs]
MCDoc(android, broken) ==
    [elems |-> << El("manifest", (<<"", "package">> :> "p") @@
                       (IF android THEN <<"android", "versionCode">> :> "1" ELSE << >>)),
                  El("application", IF android THEN <<"android", "name">> :> "App" ELSE << >>),
                  El("activity", <<"tools", "label">> :> "t"),
                  El("activity", IF android THEN <<"android", "label">> :> "l" ELSE << >>) >>,
     android |-> android, broken |-> broken]
TwoApplications ==
    [elems |-> <<El("manifest", << >>), El("application", <<"android", "name">> :> "A"),
                 El("application", <<"android", "name">> :> "B")>>,
     android |-> TRUE, broken |-> FALSE]
NoElements == [elems |-> << >>, android |-> FALSE, broken |-> TRUE]
AppAttrs == <<<<"application", "name", "New">>, <<"activity", "label", "m">>,
              <<"service", "name", "s">>, <<"activity", "label", "n", "more">> >>
ManifestAttrs == <<<<"manifest", "package", "q">>, <<"manifest", "versionCode", "2">> >>
Splits == <<<<"s1", "f1">>, <<"s2", "f2">>, <<"s3", "f1">> >>
PatchCall(doc, attr, split, ioFails) ==
    [in |-> TRUE, doc |-> doc, attr |-> attr, pkg |-> TRUE, oldApp |-> TRUE, out |-> TRUE,
     split |-> split, ioFails |-> ioFails]
MCPatchCalls ==
    {PatchCall(MCDoc(TRUE, FALSE), AppAttrs, Splits, b) : b \in BOOLEAN}
    \cup {PatchCall(MCDoc(a, FALSE), AppAttrs \o ManifestAttrs, << >>, FALSE) : a \in BOOLEAN}
    \cup {PatchCall(MCDoc(TRUE, TRUE), << >>, Splits, FALSE),
          PatchCall(MCDoc(TRUE, FALSE), <<<<"application", "name">> >>, Splits, FALSE),
          PatchCall(TwoApplications, << >>, << >>, FALSE),
          PatchCall(MCDoc(TRUE, FALSE), << >>, Append(Splits, <<"s4">>), FALSE)}
    \cup {[PatchCall(d, AppAttrs, Splits, FALSE) EXCEPT !.out = FALSE, !.pkg = b] :
             d \in {MCDoc(TRUE, TRUE), NoElements}, b \in BOOLEAN}
    \cup {[PatchCall(MCDoc(TRUE, FALSE), << >>, << >>, FALSE) EXCEPT !.out = FALSE]}

MCCompileManifestCalls ==
    [flags : {TRUE}, attr : {<< >>, AppAttrs \o ManifestAttrs, <<<<"manifest">> >>},
     doc : {MCDoc(TRUE, FALSE), MCDoc(FALSE, FALSE), MCDoc(TRUE, TRUE)},
     ioFails : BOOLEAN, aapt : {"fails", "writes", "out"}]
    \cup {[flags |-> FALSE, attr |-> << >>, doc |-> NoElements, ioFails |-> FALSE,
           aapt |-> "fails"]}

\* Two directories to rename, one of which may be there under its new name.
Bucket == (<<"values", "es-419">> :> {1, 2}) @@ (<<"values", "sr-rLatn">> :> {1})
             @@ (<<"values", "">> :> {1, 3}) @@ (<<"raw", "es-419">> :> {4})
MCCompileCalls ==
    [in : {"none", "dir", "zip", "file"}, ioFails : BOOLEAN, aaptFails : BOOLEAN,
     bucket : {Bucket, Bucket @@ (<<"values", "b+es+419">> :> {2, 5}),
               Bucket @@ (<<"raw", "b+es+419">> :> {})}]

MCLinkCalls ==
    [flags : {TRUE}, seen : {<<"b", "a", "c", "a", "x86", "b">>},
     ioFails : BOOLEAN, aaptFails : BOOLEAN,
     rjava : {<< >>, ("c" :> "2") @@ ("a" :> "1")}]
    \cup {[flags |-> FALSE, seen |-> << >>, ioFails |-> FALSE, aaptFails |-> FALSE,
           rjava |-> << >>]}

\* Every sequence of three lines, before a last one that sets a flag again.
Line(text, dashes, indent, quote, key, value) ==
    [text |-> text, dashes |-> dashes, indent |-> indent, quote |-> quote, key |-> key,
     value |-> value]
Lines == {Line("", 0, FALSE, "none", "", NoValue), Line("t", 0, FALSE, "none", "t", NoValue),
          Line("--a=1", 2, FALSE, "none", "a", "1"), Line("-b", 1, FALSE, "none", "b", NoValue),
          Line("'--b'", 2, FALSE, "both", "b", NoValue), Line("-c", 1, TRUE, "none", "c", NoValue),
          Line("'-b", 1, FALSE, "one", "b", NoValue), Line("'", 0, FALSE, "lone", "'", NoValue),
          Line("---b", 3, FALSE, "none", "b", NoValue), Line("--no=5", 2, FALSE, "none", "no", "5"),
          Line("--flagfile=f", 2, FALSE, "none", "flagfile", "f")}
MCFlagFiles ==
    [lines : {Append(l, Line("-a=2", 1, FALSE, "none", "a", "2")) : l \in [1..3 -> Lines]},
     nested : {[outcome |-> "ok", map |-> ("a" :> "3") @@ ("c" :> "4") @@ ("x" :> "5")]},
     readFails : {FALSE}]
    \cup {[lines |-> <<Line("--flagfile=f", 2, FALSE, "none", "flagfile", "f"),
                       Line("--a=1", 2, FALSE, "none", "a", "1")>>,
           nested |-> [outcome |-> o, map |-> << >>], readFails |-> b] :
             o \in {"bad", "panic"}, b \in BOOLEAN}

\* The flag b is a bool.
MCTaken(flag, text) ==
    IF flag # "b" THEN text ELSE IF text = "t" THEN "true" ELSE "false"

\* Outputs of two types in turn; the others are refused.
MCOutputs == <<"drawable", "string", "drawable", "string">>
MCBucketizeCalls ==
    [typedOutputs : {MCOutputs}, resFiles : {<<"ok", "dot">>}, ioFails : BOOLEAN]
    \cup {[typedOutputs |-> t, resFiles |-> f, ioFails |-> FALSE] :
             t \in {MCOutputs, << >>, Append(MCOutputs, "unknown"), <<"string", "malformed">>},
             f \in {<<"ok", "bad">>, << >>}}

\* Files 1 and 2 are drawables of one directory that is listed as a whole, 3 is a
\* values file of a directory listed before it, 4 one that is not listed at all and 8
\* a dot file; 5 to 7 have a name or a shard that no archive takes.
P(dot, ok, type, name, entry) ==
    [dot |-> dot, ok |-> ok, type |-> type, name |-> name, entry |-> entry]
MCPath == <<P(FALSE, TRUE, "drawable", 3, "d1"), P(FALSE, TRUE, "drawable", 5, "d2"),
            P(FALSE, TRUE, "string", 7, "v"), P(FALSE, TRUE, "string", 8, "v"),
            P(FALSE, FALSE, "drawable", 9, "d5"), P(FALSE, TRUE, "drawable", 90, "d6"),
            P(FALSE, TRUE, "drawable", 91, "d7"), P(TRUE, TRUE, "drawable", 2, "d8")>>
\* Their directories, which are numbers too.
MCDirOf == <<101, 101, 102, 103, 101, 101, 101, 101>>

\* Names from 90 on have a shard that does not exist: one, or two, too high.
MCShard(n, count) == IF n >= 90 THEN count + (n - 90) ELSE n % count


MCOrder == (101 :> 2) @@ (102 :> 1) @@ (8 :> 3)

Vals(n) == (<<3, "string">> :> (1 :> 11 @@ 2 :> 12 @@ 3 :> 13 @@ n :> 14))
             @@ (<<3, "drawable">> :> (4 :> 15)) @@ (<<4, "string">> :> (1 :> 16))

Session(paths, vals, ioFails) ==
    [typedOutput |-> [drawable |-> 2, string |-> 2], paths |-> paths, vals |-> vals, ras |-> (3 :> <<"a1", "a2">>), order |-> MCOrder,
     ioFails |-> ioFails]

MCSessions == {Session({1, 2, 8}, Vals(3), FALSE), Session({1, 2}, Vals(3), TRUE),
               Session({1, 5}, Vals(3), TRUE), Session({1, 6}, Vals(3), FALSE),
               Session({2, 7}, Vals(3), FALSE), Session({2}, Vals(90), FALSE)}

\* Everything that String, ParseName and the names made for Java have to keep of names
\* of up to five tokens.
Names == UNION {[1..n -> {"style", "android", ":", "/", "@", "."}] : n \in 1..5}
ASSUME RoundTripHolds ==
    \A unparsed \in Names : \A t, u \in {"values", "style", "unknown"} : RoundTrip(unparsed, t, u)
ASSUME SanitizedHolds ==
    \A unparsed \in Names : \A t \in {"values", "style", "unknown"} : Sanitized(unparsed, t)
-----------------------------------------------------------------------------
(* The rules *)

Sdk == INSTANCE MinSdk
SdkVersions == {[kind |-> "none", n |-> 0], [kind |-> "name", n |-> 0]}
                 \union {Sdk!Number(n) : n \in 0..3}
SdkManifests == UNION {[1..k -> SdkVersions] : k \in 0..2}

\* bump, set_default and validate of the minimal SDK version agree, for manifests of up
\* to two uses-sdk elements and floors of -1 to 3.
ASSUME MinSdkHolds ==
    \A m \in SdkManifests, f \in -1..3, g \in -1..3, v \in SdkVersions :
        /\ Sdk!BumpsTheInvalid(m, f)
        /\ Sdk!BumpedValidates(m, f)
        /\ Sdk!BumpsToTheHigher(m, f, g)
        /\ Sdk!DefaultValidates(m, v, f)
-----------------------------------------------------------------------------
Pipe == INSTANCE Pipeline
Processors == {[needs |-> needs, gives |-> gives,
                providers |-> IF gives = "None" THEN << >> ELSE <<gives>>] :
                   needs \in SUBSET {"a"}, gives \in {"a", "b", "providers", "None"}}
Dicts(n) == {Pipe!Dict(items) : items \in UNION {[1..k -> {"x", "y"} \X Processors] : k \in 0..n}}

\* Pipelines of up to two processors: which of them run, and that they still do with one
\* more in front, behind or in the place of another.
ASSUME PipelinesHold ==
    \A old \in Dicts(2), new \in Dicts(1), finalize \in SUBSET {"a"} :
        LET pipeline == [processors |-> old, finalize |-> finalize] IN
        /\ Pipe!RunsInOrder(pipeline)
        /\ Pipe!NoneLost(pipeline, new)
        /\ Pipe!StillRuns(pipeline, new)

\* The two pipelines of the rules run, and each of the providers is there.
ASSUME RulesRun ==
    \A pipeline \in {Pipe!android_library, Pipe!android_binary} :
        /\ Pipe!run(pipeline).ok
        /\ Pipe!RunsInOrder(pipeline)
        /\ \A new \in Dicts(1) : Pipe!NoneLost(pipeline, new) /\ Pipe!StillRuns(pipeline, new)
=============================================================================
