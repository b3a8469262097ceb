------------------------------ MODULE ShellApk ------------------------------
(***************************************************************************)
(* The command shellapk, tools/ak/shellapk/shellapk.go: a dex file, Java   *)
(* resources and the manifest are laid out in a directory, and the files   *)
(* of the directory, of the resource archive and of the native libraries   *)
(* are written to the APK with a few more.                                 *)
(*                                                                         *)
(* The entries of archives are [name, body, match]: whether the name has   *)
(* the suffix that the command looks for (".dex", "AndroidManifest.xml",   *)
(* ".so").  Bodies that the command supplies are named by their entry.     *)
(***************************************************************************)
EXTENDS Naturals, Sequences, Functions

CONSTANTS
    ApkCalls,            \* the calls: records [dexes, javaRes, resZip, libs, linked,
                         \* arsc, ioFails]
    NameBefore(_, _)     \* "<" on names

VARIABLES
    call,
    phase,       \* "idle", "dex", "java", "manifest", "write", "close", "ok" or "error"
    dir,         \* dir[name]: the files laid out
    javaRes,     \* the archives of Java resources to unzip
    todo,        \* the entries to write: [name, body, lossy]
    out,         \* the entries of the APK
    created,     \* the APK was created
    lost         \* an error was not looked at

vars == <<call, phase, dir, javaRes, todo, out, created, lost>>

Z == INSTANCE ZipUtils

Dex == "classes.dex"
Manifest == "AndroidManifest.xml"
JarManifest == "META-INF/MANIFEST.MF"
NoCall == [dexes |-> << >>, javaRes |-> << >>, resZip |-> << >>, libs |-> << >>,
           linked |-> FALSE, arsc |-> FALSE, ioFails |-> FALSE]

TypeOK ==
    /\ call \in ApkCalls \cup {NoCall}
    /\ phase \in {"idle", "dex", "java", "manifest", "write", "close", "ok", "error"}
    /\ Len(javaRes) <= Len(call.javaRes)
    /\ phase \in {"java", "manifest", "write", "close", "ok"} => Dex \in DOMAIN dir
    /\ lost => call.ioFails

Init ==
    /\ call = NoCall /\ phase = "idle" /\ dir = << >> /\ javaRes = << >> /\ todo = << >>
    /\ out = << >> /\ created = FALSE /\ lost = FALSE

Run ==
    /\ phase = "idle" /\ phase' = "dex"
    /\ call' \in ApkCalls
    /\ UNCHANGED <<dir, javaRes, todo, out, created, lost>>

DexFiles == {i \in DOMAIN call.dexes : call.dexes[i].match}

\* The one dex file of the archive; the error of its copy is ignored.
extractDexes ==
    /\ phase = "dex"
    /\ \E i \in DexFiles, cut \in {FALSE, call.ioFails} :
          /\ DexFiles = {i}
          /\ dir' = Z!Put(dir, Dex, IF cut THEN "cut" ELSE call.dexes[i].body)
          /\ lost' = cut
    /\ phase' = "java" /\ javaRes' = call.javaRes
    /\ UNCHANGED <<call, todo, out, created>>

UnzipJavaRes ==
    /\ phase = "java" /\ javaRes # << >>
    /\ dir' = Z!Unzip(dir, javaRes[1])
    /\ javaRes' = Tail(javaRes)
    /\ UNCHANGED <<call, phase, todo, out, created, lost>>

\* Mutant of CopyManifest: before the Java resources, as the comments have it after
\* the dex file; one of theirs stays.
CopyManifestFirst ==
    /\ phase = "java" /\ javaRes = << >>
    /\ dir' = [n \in DOMAIN dir \cup {Manifest} |->
                  IF n \in DOMAIN dir THEN dir[n] ELSE Manifest]
    /\ phase' = "manifest"
    /\ UNCHANGED <<call, javaRes, todo, out, created, lost>>

CopyManifest ==
    /\ phase = "java" /\ javaRes = << >>
    /\ dir' = Z!Put(dir, Manifest, Manifest)
    /\ phase' = "manifest"
    /\ UNCHANGED <<call, javaRes, todo, out, created, lost>>

Entries(zip, lossy) ==
    [i \in DOMAIN zip |-> [name |-> zip[i].name, body |-> zip[i].body, lossy |-> lossy]]
Own(name) == [name |-> name, body |-> name, lossy |-> FALSE]

OwnFiles ==
    <<Own(JarManifest), Own("package_name.txt"), Own("app_name.txt")>>
    \o (IF call.linked THEN <<Own("nativedeps")>> ELSE << >>)
    \o (IF call.arsc THEN <<Own("resources.arsc")>> ELSE << >>)

\* The entries that match, or those that do not.
Matching(zip, m) ==
    LET kept[n \in 0..Len(zip)] == IF n = 0 THEN << >>
                                   ELSE IF zip[n].match = m THEN Append(kept[n - 1], zip[n])
                                   ELSE kept[n - 1]
    IN kept[Len(zip)]

\* What is written: the directory without the MANIFEST.MF of a Java resource, the
\* resources without their manifest, the libraries, and the files of the command.
Laid == Z!ZipDir(Restrict(dir, DOMAIN dir \ {JarManifest}))
ToWrite ==
    Entries(Laid, FALSE) \o Entries(Matching(call.resZip, FALSE), FALSE)
    \o Entries(Matching(call.libs, TRUE), TRUE) \o OwnFiles

Create ==
    /\ phase = "manifest" /\ phase' = "write"
    /\ created' = TRUE /\ todo' = ToWrite
    /\ UNCHANGED <<call, dir, javaRes, out, lost>>

Writing == phase = "write" /\ todo # << >>
Write(e) == out' = Append(out, [name |-> e.name, body |-> e.body])

WriteEntry ==
    /\ Writing /\ Write(todo[1])
    /\ todo' = Tail(todo)
    /\ UNCHANGED <<call, phase, dir, javaRes, created, lost>>

\* The error of WriteReader is not looked at; the header may be written by then.
WriteLibFails ==
    /\ Writing /\ todo[1].lossy /\ call.ioFails
    /\ UNCHANGED out \/ Write([todo[1] EXCEPT !.body = "cut"])
    /\ todo' = Tail(todo) /\ lost' = TRUE
    /\ UNCHANGED <<call, phase, dir, javaRes, created>>

\* Not one dex file, or a call that fails, the open of a library among them; of an
\* entry the header may be written.
Fails ==
    /\ \/ phase = "dex" /\ \A i \in DexFiles : DexFiles # {i}
       \/ call.ioFails /\ (phase \in {"dex", "java", "manifest"} \/ Writing)
    /\ phase' = "error"
    /\ UNCHANGED out \/ (Writing /\ ~todo[1].lossy /\ Write([todo[1] EXCEPT !.body = "cut"]))
    /\ UNCHANGED <<call, dir, javaRes, todo, created, lost>>

Written ==
    /\ phase = "write" /\ todo = << >>
    /\ phase' = "close"
    /\ UNCHANGED <<call, dir, javaRes, todo, out, created, lost>>

\* The deferred closes, whose errors are lost.
Close ==
    /\ phase = "close" /\ phase' = "ok"
    /\ lost' \in {lost, lost \/ call.ioFails}
    /\ UNCHANGED <<call, dir, javaRes, todo, out, created>>

Next == \/ Run \/ extractDexes \/ UnzipJavaRes \/ CopyManifest \/ Create \/ WriteEntry
        \/ WriteLibFails \/ Fails \/ Written \/ Close
-----------------------------------------------------------------------------
(* Properties *)

Named(name) == {i \in DOMAIN out : out[i].name = name}
NamesIn(zips) == UNION {{zip[i].name : i \in DOMAIN zip} : zip \in Range(zips)}
JavaNames == NamesIn(call.javaRes)

\* An APK that was written has the one manifest that was given and no other, for all
\* that Java resources and the resource archive may bring one; the dex file unless a
\* Java resource replaces it; the MANIFEST.MF of the command as the last one; each
\* Java resource and resource; and each native library, unless an error was lost.
ApkRight ==
    /\ phase = "ok" =>
         /\ \E i \in DOMAIN out : Named(Manifest) = {i} /\ out[i].body = Manifest
         /\ \E i \in DOMAIN out :
              /\ Named(Dex) = {i}
              /\ ~lost /\ Dex \notin JavaNames =>
                    \A d \in DexFiles : out[i].body = call.dexes[d].body
         /\ \E i \in Named(JarManifest) :
              out[i].body = JarManifest /\ \A j \in Named(JarManifest) : j <= i
         /\ \A name \in JavaNames \ {JarManifest} : Named(name) # {}
         /\ \A e \in Range(call.resZip) :
              ~e.match => \E i \in Named(e.name) : out[i].body = e.body
         /\ ~lost => \A e \in Range(call.libs) :
              e.match => \E i \in Named(e.name) : out[i].body = e.body
    /\ phase = "error" => ~created \/ call.ioFails
=============================================================================
