------------------------------ MODULE NativeLib ------------------------------
(***************************************************************************)
(* The command nativelib, tools/ak/nativelib/nativelib.go: libraries, given *)
(* each with its architecture or found in archives, are copied into one    *)
(* directory by architecture and base name and written to one archive.     *)
(*                                                                         *)
(* A library of the flags is [arch, base, body], with arch "" if there is  *)
(* no ":"; an entry of an archive is [path, arch, base, body], where arch  *)
(* is the last directory of its path and base its last part.               *)
(***************************************************************************)
EXTENDS Naturals, Sequences, Functions

CONSTANTS
    LibCalls,            \* the calls: records [libs, zips, ioFails]
    PathBefore(_, _)     \* "<" on the paths <<arch, base>> of the copies

VARIABLES
    call,
    phase,       \* "idle", "zips", "copy", "write", "ok" or "error"
    todo,        \* the archives to extract
    extracted,   \* extracted[path]: the file there
    libs,        \* the libraries to copy: [arch, base, body, path], path "" if given
    paths,       \* the copies made, in order
    copied,      \* copied[<<arch, base>>]: the body of the copy
    out,         \* the entries [name, body] of the archive, or << >>
    created,     \* the output file was created
    lost         \* an error of the archive was not looked at

vars == <<call, phase, todo, extracted, libs, paths, copied, out, created, lost>>

Z == INSTANCE ZipUtils WITH NameBefore <- PathBefore

None == ""           \* no architecture, no path

NoCall == [libs |-> << >>, zips |-> << >>, ioFails |-> FALSE]

TypeOK ==
    /\ call \in LibCalls \cup {NoCall}
    /\ phase \in {"idle", "zips", "copy", "write", "ok", "error"}
    /\ Len(todo) <= Len(call.zips)
    /\ Range(paths) \subseteq DOMAIN copied
    /\ lost => call.ioFails /\ created

Init ==
    /\ call = NoCall /\ phase = "idle" /\ todo = << >> /\ extracted = << >>
    /\ libs = << >> /\ paths = << >> /\ copied = << >> /\ out = << >>
    /\ created = FALSE /\ lost = FALSE

Given(l) == [arch |-> l.arch, base |-> l.base, body |-> l.body, path |-> None]

Run ==
    /\ phase = "idle" /\ phase' = "zips"
    /\ call' \in LibCalls
    /\ todo' = call'.zips
    /\ libs' = [i \in DOMAIN call'.libs |-> Given(call'.libs[i])]
    /\ UNCHANGED <<extracted, paths, copied, out, created, lost>>

\* One archive after another into one directory.
extractLibs ==
    /\ phase = "zips" /\ todo # << >>
    /\ LET zip == todo[1] IN
        /\ libs' = libs \o [i \in DOMAIN zip |-> [zip[i] EXCEPT !.body = "extracted"]]
        /\ extracted' = Z!Unzip(extracted, [i \in DOMAIN zip |->
                                    [name |-> zip[i].path, body |-> zip[i].body]])
    /\ todo' = Tail(todo)
    /\ UNCHANGED <<call, phase, paths, copied, out, created, lost>>

Extracted ==
    /\ phase = "zips" /\ todo = << >>
    /\ phase' = "copy"
    /\ UNCHANGED <<call, todo, extracted, libs, paths, copied, out, created, lost>>

Copying == phase = "copy" /\ libs # << >>
Lib == libs[1]
Arch == IF Lib.arch = "armv7a" THEN "armeabi-v7a" ELSE Lib.arch
Body == IF Lib.path = None THEN Lib.body ELSE extracted[Lib.path]

\* Mutant of Overwrite: a copy that is there already stays.
KeepCopy(dest) == copied' = IF dest \in DOMAIN copied THEN copied
                            ELSE Z!Put(copied, dest, Body)

\* fileutils.Copy.
Overwrite(dest) == copied' = Z!Put(copied, dest, Body)

copyNativeLib ==
    /\ Copying /\ Lib.arch # None
    /\ Overwrite(<<Arch, Lib.base>>)
    /\ paths' = Append(paths, <<Arch, Lib.base>>)
    /\ libs' = Tail(libs)
    /\ UNCHANGED <<call, phase, todo, extracted, out, created, lost>>

\* A library without architecture, or a file that cannot be read or written.
Fails ==
    /\ \/ Copying /\ Lib.arch = None
       \/ call.ioFails /\ phase \in {"zips", "copy"}
    /\ phase' = "error"
    /\ UNCHANGED <<call, todo, extracted, libs, paths, copied, out, created, lost>>

\* What sort.Strings may make of s: paths that are equal are one as good as the other.
Sortings(s) ==
    {p \in Bijection(DOMAIN s, DOMAIN s) :
        \A i, j \in DOMAIN s : i < j => ~PathBefore(s[p[j]], s[p[i]])}

Create ==
    /\ phase = "copy" /\ libs = << >>
    /\ phase' = "write" /\ created' = TRUE
    /\ \E p \in Sortings(paths) : paths' = [i \in DOMAIN paths |-> paths[p[i]]]
    /\ UNCHANGED <<call, todo, extracted, libs, copied, out, lost>>

Entry(body) == [name |-> paths[1], body |-> body]
Writing == phase = "write" /\ paths # << >>

WriteFile ==
    /\ Writing
    /\ out' = Append(out, Entry(copied[paths[1]]))
    /\ paths' = Tail(paths)
    /\ UNCHANGED <<call, phase, todo, extracted, libs, copied, created, lost>>

\* Its error is not looked at; the header may be written by then.
WriteFileFails ==
    /\ Writing /\ call.ioFails
    /\ out' \in {out, Append(out, Entry("cut"))}
    /\ paths' = Tail(paths) /\ lost' = TRUE
    /\ UNCHANGED <<call, phase, todo, extracted, libs, copied, created>>

\* Nor is that of the close.
Close ==
    /\ phase = "write" /\ paths = << >>
    /\ phase' = "ok"
    /\ lost' \in {lost, lost \/ call.ioFails}
    /\ UNCHANGED <<call, todo, extracted, libs, paths, copied, out, created>>

Next == \/ Run \/ extractLibs \/ Extracted \/ copyNativeLib \/ Fails \/ Create
        \/ WriteFile \/ WriteFileFails \/ Close
-----------------------------------------------------------------------------
(* Properties *)

\* All libraries in the order of the flags and then of the archives, each with its
\* destination.
All ==
    LET given == [i \in DOMAIN call.libs |-> Given(call.libs[i])]
        all[n \in 0..Len(call.zips)] == IF n = 0 THEN given ELSE all[n - 1] \o call.zips[n]
    IN all[Len(call.zips)]
Dest(l) == <<IF l.arch = "armv7a" THEN "armeabi-v7a" ELSE l.arch, l.base>>
Latest(S) == CHOOSE i \in S : \A j \in S : j <= i

\* The body that the library i has when it is copied: of archives that have one path
\* the last one's; and the body that its copy has in the end.
BodyOf(i) ==
    IF All[i].path = None THEN All[i].body
    ELSE All[Latest({j \in DOMAIN All : All[j].path = All[i].path})].body
CopyOf(i) == BodyOf(Latest({j \in DOMAIN All : Dest(All[j]) = Dest(All[i])}))

\* On success there is an entry for each library, sorted; where two have one
\* architecture and base name there are two entries, and both are the library that
\* was copied last.  Errors before the output is created are errors of the command,
\* and leave no output; every later one is lost.
NativeLibsRight ==
    /\ phase = "error" => ~created
    /\ phase = "ok" /\ ~lost =>
         /\ \E p \in Bijection(DOMAIN out, DOMAIN All) : \A i \in DOMAIN out :
              out[i] = [name |-> Dest(All[p[i]]), body |-> CopyOf(p[i])]
         /\ \A i, j \in DOMAIN out : i < j => ~PathBefore(out[j].name, out[i].name)
=============================================================================
