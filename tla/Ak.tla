--------------------------------- MODULE Ak ---------------------------------
(***************************************************************************)
(* The command line tool ak (tools/ak/ak.go): it runs one of its commands  *)
(* and ends with it.  Here are the commands that are small programs of     *)
(* their own, bucketize with the close of its session, and the flag        *)
(* -flagfile that each of them takes.                                      *)
(***************************************************************************)
EXTENDS Integers, Sequences, FiniteSets

CONSTANTS
    RJarCalls, Types, resTypes,              \* of FinalRJar
    ManifestCalls,                           \* of GenerateManifest
    DexCalls, FNV(_, _),                     \* of Dex
    AarCalls,                                \* of ExtractAar
    RepackCalls,                             \* of Repack
    RJavaCalls,                              \* of RJar
    LibCalls, PathBefore(_, _),              \* of NativeLib
    ApkCalls, NameBefore(_, _),              \* of ShellApk, and Link
    PatchCalls,                              \* of PatchCmd
    CompileManifestCalls,                    \* of ManifestCmd
    CompileCalls, LinkCalls,                 \* of Compile and Link
    FlagFiles, Known, NoValue, Taken(_, _),  \* of FlagFile
    BucketizeCalls,                          \* of BucketizeCmd
    Path, DirOf, Sessions, Shard(_, _)       \* of PartitionClose

\* What the types of the code say of the calls.
ASSUME RJarCallsAssumption ==
    /\ resTypes \subseteq Types
    /\ \A c \in RJarCalls :
          /\ c.files \in Seq(Seq([kind : {"res", "skipped", "long"}, type : Types,
                                  id : Nat, var : STRING]))
          /\ {c.reserved, c.hidden, c.ioFails} \subseteq BOOLEAN
ASSUME ManifestCallsAssumption ==
    \A c \in ManifestCalls :
        /\ c.manifests \in Seq([kind : {"bad", "placeholder", "value"}, v : Int])
        /\ c.minSdk \in Int
ASSUME RepackCallsAssumption ==
    \A c \in RepackCalls :
        /\ \A sources \in {c.dirs, c.zips} :
              sources \in Seq(Seq([name : STRING, dir : BOOLEAN, match : BOOLEAN, body : Nat]))
        /\ {c.removeDirs, c.filtered, c.badFlags, c.ioFails} \subseteq BOOLEAN
\* There is an output, and a hash is a number of one.
ASSUME DexCallsAssumption ==
    \A c \in DexCalls :
        /\ c.sc \in Nat \ {0} /\ {c.badFlags, c.code, c.desugar, c.ioFails} \subseteq BOOLEAN
        /\ c.dexed \in Seq([name : Seq(STRING), dex : BOOLEAN, regular : BOOLEAN])
        /\ \A i \in DOMAIN c.dexed : \A n \in 0..Len(c.dexed[i].name) :
              FNV(SubSeq(c.dexed[i].name, 1, n), c.sc) \in 0..(c.sc - 1)
ASSUME AarCallsAssumption ==
    \A c \in AarCalls : c.files \in Seq([group : STRING, id : Nat]) /\ c.ioFails \in BOOLEAN
ASSUME RJavaCallsAssumption ==
    \A c \in RJavaCalls :
        /\ c.pkgs \in Seq([name : STRING, kind : {"odd", "reserved", "long", "plain"}])
        /\ c.rjava \in {"missing", "empty", "text"} /\ c.ioFails \in BOOLEAN
        /\ c.classes \in Seq(STRING)
\* filepath.Walk goes through the names in an order.
ASSUME LinkCallsAssumption ==
    \A c \in LinkCalls :
        /\ c.seen \in Seq(STRING) /\ IsFiniteSet(DOMAIN c.rjava)
        /\ \A m, n \in DOMAIN c.rjava :
              /\ ~NameBefore(n, n)
              /\ m # n => NameBefore(m, n) \/ NameBefore(n, m)
              /\ \A l \in DOMAIN c.rjava :
                    NameBefore(l, m) /\ NameBefore(m, n) => NameBefore(l, n)
\* An attribute has a space and a local name.
ASSUME ManifestDocsAssumption ==
    \A c \in CompileManifestCalls \cup PatchCalls :
        /\ c.attr \in Seq(Seq(STRING))
        /\ Len(c.doc.elems) \in Nat /\ DOMAIN c.doc.elems = 1..Len(c.doc.elems)
        /\ \A i \in DOMAIN c.doc.elems : LET attrs == c.doc.elems[i].attrs IN
              DOMAIN attrs \subseteq STRING \X STRING /\ attrs \in [DOMAIN attrs -> STRING]
\* A line of white space has no dashes and no quotation marks.
ASSUME FlagFilesAssumption ==
    \A c \in FlagFiles :
        /\ Len(c.lines) \in Nat /\ DOMAIN c.lines = 1..Len(c.lines)
        /\ \A i \in DOMAIN c.lines :
              c.lines[i].text = "" => c.lines[i].dashes = 0 /\ c.lines[i].quote = "none"
        /\ c.nested.outcome \in {"ok", "bad", "panic"} /\ c.readFails \in BOOLEAN

ASSUME BucketizeCallsAssumption == \A c \in BucketizeCalls : c.typedOutputs \in Seq(STRING)
\* What is collected is of types that have an output; a source file is a number, and so
\* are names and payloads.
ASSUME SessionsAssumption ==
    \A s \in Sessions :
        /\ s.typedOutput \in [DOMAIN s.typedOutput -> Nat] /\ "none" \notin DOMAIN s.typedOutput
        /\ IsFiniteSet(s.paths) /\ s.paths \subseteq Nat
        /\ \A f \in s.paths : LET p == Path[f] IN
              /\ p.entry \in STRING /\ p.dot \in BOOLEAN /\ p.ok \in BOOLEAN
              /\ p.type \in DOMAIN s.typedOutput
              /\ Shard(p.name, s.typedOutput[p.type]) \in Nat
        /\ IsFiniteSet(DOMAIN s.vals) /\ DOMAIN s.vals \subseteq Nat \X DOMAIN s.typedOutput
        /\ \A k \in DOMAIN s.vals :
              /\ IsFiniteSet(DOMAIN s.vals[k]) /\ DOMAIN s.vals[k] \subseteq Nat
              /\ s.vals[k] \in [DOMAIN s.vals[k] -> Nat]
              /\ \A n \in DOMAIN s.vals[k] : Shard(n, s.typedOutput[k[2]]) \in Nat
              /\ Path[k[1]].entry \in STRING
        /\ s.order \in [DOMAIN s.order -> Nat]
        /\ s.ras \in [DOMAIN s.ras -> Seq(STRING)]

VARIABLES
    cmd,                           \* the command, or "none"
    frCall, frPhase, frAt, frOpen, frClosed, frMap, frJava, frJar,
    gmCall, gmPhase, gmAt, gmResults, gmWritten,
    dxCall, dxPhase, dxNext, dxOuts, dxFailed,
    eaCall, eaPhase, eaTodo, eaCopy, eaErrs, eaOut,
    rpCall, rpPhase, rpTodo, rpSeen, rpOut, rpFiltered, rpLost,
    rjCall, rjPhase, rjTodo, rjSrcs, rjTemplate, rjJar,
    nlCall, nlPhase, nlTodo, nlExtracted, nlLibs, nlPaths, nlCopied, nlOut, nlCreated,
    nlLost,
    saCall, saPhase, saDir, saJava, saTodo, saOut, saCreated, saLost,
    ptCall, ptPhase, ptElems, ptTodo, ptFiles, ptCut,
    mfCall, mfPhase, mfPatched, mfOut,
    cpCall, cpPhase, cpDirs, cpTodo, cpCompiled,
    lkCall, lkPhase, lkArgs, lkJar,
    ffCall, ffPhase, ffAt, ffMap, ffTodo, ffFlags,
    bkCall, bkPhase, bkTodo, bkPartitions,
    psSession, psPhase, psTodo, psKey, psWs, psNames, psFooters, psArch, psClosed,
    psOpened

frVars == <<frCall, frPhase, frAt, frOpen, frClosed, frMap, frJava, frJar>>
gmVars == <<gmCall, gmPhase, gmAt, gmResults, gmWritten>>
dxVars == <<dxCall, dxPhase, dxNext, dxOuts, dxFailed>>
eaVars == <<eaCall, eaPhase, eaTodo, eaCopy, eaErrs, eaOut>>
rpVars == <<rpCall, rpPhase, rpTodo, rpSeen, rpOut, rpFiltered, rpLost>>
rjVars == <<rjCall, rjPhase, rjTodo, rjSrcs, rjTemplate, rjJar>>
nlVars == <<nlCall, nlPhase, nlTodo, nlExtracted, nlLibs, nlPaths, nlCopied, nlOut,
           nlCreated, nlLost>>
saVars == <<saCall, saPhase, saDir, saJava, saTodo, saOut, saCreated, saLost>>
ptVars == <<ptCall, ptPhase, ptElems, ptTodo, ptFiles, ptCut>>
mfVars == <<mfCall, mfPhase, mfPatched, mfOut>>
cpVars == <<cpCall, cpPhase, cpDirs, cpTodo, cpCompiled>>
lkVars == <<lkCall, lkPhase, lkArgs, lkJar>>
ffVars == <<ffCall, ffPhase, ffAt, ffMap, ffTodo, ffFlags>>
bkVars == <<bkCall, bkPhase, bkTodo, bkPartitions>>
psVars == <<psSession, psPhase, psTodo, psKey, psWs, psNames, psFooters, psArch,
           psClosed, psOpened>>
vars == <<cmd, frVars, gmVars, dxVars, eaVars, rpVars, rjVars, nlVars, saVars, ptVars,
          mfVars, cpVars, lkVars, ffVars, bkVars, psVars>>

finalrjar == INSTANCE FinalRJar WITH
    call <- frCall, phase <- frPhase, at <- frAt, open <- frOpen, closed <- frClosed,
    resMap <- frMap, rJava <- frJava, jar <- frJar
generatemanifest == INSTANCE GenerateManifest WITH
    call <- gmCall, phase <- gmPhase, at <- gmAt, results <- gmResults,
    written <- gmWritten
dex == INSTANCE Dex WITH
    call <- dxCall, phase <- dxPhase, next <- dxNext, outs <- dxOuts,
    failed <- dxFailed
extractaar == INSTANCE ExtractAar WITH
    call <- eaCall, phase <- eaPhase, todo <- eaTodo, toCopy <- eaCopy, errs <- eaErrs,
    out <- eaOut
repack == INSTANCE Repack WITH
    call <- rpCall, phase <- rpPhase, todo <- rpTodo, seen <- rpSeen, out <- rpOut,
    filteredOut <- rpFiltered, lost <- rpLost
rjar == INSTANCE RJar WITH
    call <- rjCall, phase <- rjPhase, todo <- rjTodo, srcs <- rjSrcs,
    template <- rjTemplate, jar <- rjJar
nativelib == INSTANCE NativeLib WITH
    call <- nlCall, phase <- nlPhase, todo <- nlTodo, extracted <- nlExtracted,
    libs <- nlLibs, paths <- nlPaths, copied <- nlCopied, out <- nlOut,
    created <- nlCreated, lost <- nlLost
shellapk == INSTANCE ShellApk WITH
    call <- saCall, phase <- saPhase, dir <- saDir, javaRes <- saJava, todo <- saTodo,
    out <- saOut, created <- saCreated, lost <- saLost
patch == INSTANCE PatchCmd WITH
    call <- ptCall, phase <- ptPhase, elems <- ptElems, todo <- ptTodo,
    files <- ptFiles, cut <- ptCut
manifest == INSTANCE ManifestCmd WITH
    call <- mfCall, phase <- mfPhase, patched <- mfPatched, out <- mfOut
compile == INSTANCE Compile WITH
    call <- cpCall, phase <- cpPhase, dirs <- cpDirs, todo <- cpTodo,
    compiled <- cpCompiled
link == INSTANCE Link WITH
    call <- lkCall, phase <- lkPhase, args <- lkArgs, srcJar <- lkJar
flagfile == INSTANCE FlagFile WITH
    call <- ffCall, phase <- ffPhase, at <- ffAt, fMap <- ffMap, todo <- ffTodo,
    flags <- ffFlags
bucketize == INSTANCE BucketizeCmd WITH
    call <- bkCall, phase <- bkPhase, todo <- bkTodo, partitions <- bkPartitions
session == INSTANCE PartitionClose WITH
    session <- psSession, phase <- psPhase, todo <- psTodo, key <- psKey, ws <- psWs,
    names <- psNames, footers <- psFooters, arch <- psArch, closed <- psClosed,
    opened <- psOpened

\* The manifest of an app: the first element, with the attributes that the splits share
\* in their namespaces; and a split is written to a file that no other output has.
ASSUME PatchCallsAssumption ==
    \A c \in PatchCalls :
        /\ \A i \in DOMAIN c.doc.elems : c.doc.elems[i].name = patch!ElemManifest =>
              /\ i = 1
              /\ \A n \in DOMAIN c.doc.elems[i].attrs :
                    n[2] \in patch!Shared => n[1] = patch!SpaceOf(patch!ElemManifest, n[2])
        /\ c.split \in Seq(Seq(STRING))
        /\ \A i \in DOMAIN c.split :
              Len(c.split[i]) = 2 => c.split[i][2] \notin {"pkg", "oldapp", "out"}
\* A library that was found has a path.
ASSUME LibCallsAssumption ==
    \A c \in LibCalls :
        /\ c.libs \in Seq([arch : STRING, base : STRING, body : STRING])
        /\ c.zips \in Seq(Seq([path : STRING, arch : STRING, base : STRING, body : STRING]))
        /\ \A z \in DOMAIN c.zips : \A i \in DOMAIN c.zips[z] :
              c.zips[z][i].path # nativelib!None
\* filepath.Walk goes through the names in an order.  A manifest has the suffix of one,
\* a library the suffix ".so"; the archive of the resources has no dex file.
ASSUME ApkCallsAssumption ==
    \A c \in ApkCalls :
        /\ \A zip \in {c.dexes, c.resZip, c.libs} :
              zip \in Seq([name : STRING, body : STRING, match : BOOLEAN])
        /\ c.javaRes \in Seq(Seq([name : STRING, body : STRING, match : BOOLEAN]))
        /\ {c.linked, c.arsc, c.ioFails} \subseteq BOOLEAN
        /\ \A i \in DOMAIN c.resZip :
              /\ c.resZip[i].name = shellapk!Manifest => c.resZip[i].match
              /\ c.resZip[i].name # shellapk!Dex
        /\ \A i \in DOMAIN c.libs :
              c.libs[i].match => c.libs[i].name \notin {shellapk!Manifest, shellapk!Dex}
        /\ LET names == {shellapk!Manifest, shellapk!Dex} \cup shellapk!NamesIn(c.javaRes) IN
              \A m, n \in names :
                 /\ ~NameBefore(n, n)
                 /\ m # n => NameBefore(m, n) \/ NameBefore(n, m)
                 /\ \A l \in names : NameBefore(l, m) /\ NameBefore(m, n) => NameBefore(l, n)

Cmds == {"finalrjar", "generatemanifest", "dex", "extractaar", "repack", "rjar",
         "nativelib", "shellapk", "patch", "manifest", "compile", "link", "flagfile",
         "bucketize"}

TypeOK ==
    /\ cmd \in Cmds \cup {"none"}
    /\ finalrjar!TypeOK /\ generatemanifest!TypeOK /\ dex!TypeOK /\ extractaar!TypeOK
    /\ repack!TypeOK /\ rjar!TypeOK /\ nativelib!TypeOK /\ shellapk!TypeOK
    /\ patch!TypeOK /\ manifest!TypeOK /\ compile!TypeOK /\ link!TypeOK
    /\ flagfile!TypeOK /\ bucketize!TypeOK /\ session!TypeOK

Init ==
    /\ cmd = "none"
    /\ finalrjar!Init /\ generatemanifest!Init /\ dex!Init /\ extractaar!Init
    /\ repack!Init /\ rjar!Init /\ nativelib!Init /\ shellapk!Init
    /\ patch!Init /\ manifest!Init /\ compile!Init /\ link!Init
    /\ flagfile!Init /\ bucketize!Init /\ session!Init

runCmd ==
    /\ cmd = "none" /\ cmd' \in Cmds
    /\ UNCHANGED <<frVars, gmVars, dxVars, eaVars, rpVars, rjVars, nlVars, saVars,
                   ptVars, mfVars, cpVars, lkVars, ffVars, bkVars, psVars>>

RunFinalrjar ==
    /\ cmd = "finalrjar" /\ finalrjar!Next
    /\ UNCHANGED <<cmd, gmVars, dxVars, eaVars, rpVars, rjVars, nlVars, saVars, ptVars,
                   mfVars, cpVars, lkVars, ffVars, bkVars, psVars>>
RunGeneratemanifest ==
    /\ cmd = "generatemanifest" /\ generatemanifest!Next
    /\ UNCHANGED <<cmd, frVars, dxVars, eaVars, rpVars, rjVars, nlVars, saVars, ptVars,
                   mfVars, cpVars, lkVars, ffVars, bkVars, psVars>>
RunDex ==
    /\ cmd = "dex" /\ dex!Next
    /\ UNCHANGED <<cmd, frVars, gmVars, eaVars, rpVars, rjVars, nlVars, saVars, ptVars,
                   mfVars, cpVars, lkVars, ffVars, bkVars, psVars>>
RunExtractaar ==
    /\ cmd = "extractaar" /\ extractaar!Next
    /\ UNCHANGED <<cmd, frVars, gmVars, dxVars, rpVars, rjVars, nlVars, saVars, ptVars,
                   mfVars, cpVars, lkVars, ffVars, bkVars, psVars>>
RunRepack ==
    /\ cmd = "repack" /\ repack!Next
    /\ UNCHANGED <<cmd, frVars, gmVars, dxVars, eaVars, rjVars, nlVars, saVars, ptVars,
                   mfVars, cpVars, lkVars, ffVars, bkVars, psVars>>
RunRjar ==
    /\ cmd = "rjar" /\ rjar!Next
    /\ UNCHANGED <<cmd, frVars, gmVars, dxVars, eaVars, rpVars, nlVars, saVars, ptVars,
                   mfVars, cpVars, lkVars, ffVars, bkVars, psVars>>
RunNativelib ==
    /\ cmd = "nativelib" /\ nativelib!Next
    /\ UNCHANGED <<cmd, frVars, gmVars, dxVars, eaVars, rpVars, rjVars, saVars, ptVars,
                   mfVars, cpVars, lkVars, ffVars, bkVars, psVars>>
RunShellapk ==
    /\ cmd = "shellapk" /\ shellapk!Next
    /\ UNCHANGED <<cmd, frVars, gmVars, dxVars, eaVars, rpVars, rjVars, nlVars, ptVars,
                   mfVars, cpVars, lkVars, ffVars, bkVars, psVars>>
RunPatch ==
    /\ cmd = "patch" /\ patch!Next
    /\ UNCHANGED <<cmd, frVars, gmVars, dxVars, eaVars, rpVars, rjVars, nlVars, saVars,
                   mfVars, cpVars, lkVars, ffVars, bkVars, psVars>>
RunManifest ==
    /\ cmd = "manifest" /\ manifest!Next
    /\ UNCHANGED <<cmd, frVars, gmVars, dxVars, eaVars, rpVars, rjVars, nlVars, saVars,
                   ptVars, cpVars, lkVars, ffVars, bkVars, psVars>>
RunCompile ==
    /\ cmd = "compile" /\ compile!Next
    /\ UNCHANGED <<cmd, frVars, gmVars, dxVars, eaVars, rpVars, rjVars, nlVars, saVars,
                   ptVars, mfVars, lkVars, ffVars, bkVars, psVars>>
RunLink ==
    /\ cmd = "link" /\ link!Next
    /\ UNCHANGED <<cmd, frVars, gmVars, dxVars, eaVars, rpVars, rjVars, nlVars, saVars,
                   ptVars, mfVars, cpVars, ffVars, bkVars, psVars>>
RunFlagfile ==
    /\ cmd = "flagfile" /\ flagfile!Next
    /\ UNCHANGED <<cmd, frVars, gmVars, dxVars, eaVars, rpVars, rjVars, nlVars, saVars,
                   ptVars, mfVars, cpVars, lkVars, bkVars, psVars>>

\* Archive is in a module of its own, Bucketize; here it comes to the close of a session
\* for the partitions that were created, and returns what that returns.
RunBucketize ==
    /\ cmd = "bucketize" /\ bucketize!Next /\ psPhase = "idle"
    /\ UNCHANGED <<cmd, psVars, frVars, gmVars, dxVars, eaVars, rpVars, rjVars, nlVars, saVars,
                   ptVars, mfVars, cpVars, lkVars, ffVars>>
RunSession ==
    /\ cmd = "bucketize" /\ bkPhase = "archive" /\ session!Next
    /\ psSession'.typedOutput = bkPartitions /\ psSession'.ioFails = bkCall.ioFails
    /\ UNCHANGED <<cmd, bkVars, frVars, gmVars, dxVars, eaVars, rpVars, rjVars, nlVars, saVars,
                   ptVars, mfVars, cpVars, lkVars, ffVars>>
ArchiveReturns ==
    /\ cmd = "bucketize" /\ bucketize!ArchiveReturns(psPhase)
    /\ UNCHANGED <<cmd, psVars, frVars, gmVars, dxVars, eaVars, rpVars, rjVars, nlVars, saVars,
                   ptVars, mfVars, cpVars, lkVars, ffVars>>

Next == \/ runCmd \/ RunFinalrjar \/ RunGeneratemanifest \/ RunDex \/ RunExtractaar
        \/ RunRepack \/ RunRjar \/ RunNativelib \/ RunShellapk \/ RunPatch
        \/ RunManifest \/ RunCompile \/ RunLink \/ RunFlagfile \/ RunBucketize
        \/ RunSession \/ ArchiveReturns

\* The process goes on as long as one of its goroutines can.
FairSpec == Init /\ [][Next]_vars /\ WF_vars(Next)
-----------------------------------------------------------------------------
(* Properties *)

Ended == {"ok", "error", "panic"}

\* Every command ends: no goroutine waits for a receiver, a WaitGroup or a range
\* that does not come, and no list of the work that is left stays as it is.
Returns ==
    <>CASE cmd = "finalrjar" -> frPhase \in Ended
        [] cmd = "generatemanifest" -> gmPhase \in Ended
        [] cmd = "dex" -> dxPhase \in Ended
        [] cmd = "extractaar" -> eaPhase \in Ended
        [] cmd = "repack" -> rpPhase \in Ended
        [] cmd = "rjar" -> rjPhase \in Ended
        [] cmd = "nativelib" -> nlPhase \in Ended
        [] cmd = "shellapk" -> saPhase \in Ended
        [] cmd = "patch" -> ptPhase \in Ended
        [] cmd = "manifest" -> mfPhase \in Ended
        [] cmd = "compile" -> cpPhase \in Ended
        [] cmd = "link" -> lkPhase \in Ended
        [] cmd = "flagfile" -> ffPhase \in Ended
        [] cmd = "bucketize" -> bkPhase \in Ended \/ psPhase = "panic"
        [] OTHER -> FALSE

\* finalrjar writes a field for each resource of any file, whatever the order of its goroutines.
RJarRight == finalrjar!RComplete /\ finalrjar!JarRight

\* generatemanifest writes the maximum of all manifests, whatever the order of its goroutines.
MaxWritten == generatemanifest!MaxWritten

\* dex puts each file into one output, and a class with its inner classes.
Partitioned == dex!Partitioned /\ dex!InnerTogether

\* The outputs of extractaar have what a valid AAR has, and nothing of another.
OutputsRight == extractaar!OutputsRight /\ extractaar!AllOrNothing

\* rjar gives each package its R class.
SubclassesRight == rjar!SubclassesRight

\* repack packs the first of each name, and nothing else is lost.
Repacked == repack!FirstWins /\ repack!NothingLost

\* nativelib writes an entry for each library, armv7a as armeabi-v7a; libraries of one
\* architecture and base name have an entry each, all of them the one copied last.
NativeLibsRight == nativelib!NativeLibsRight

\* shellapk packs what it was given, under names that a reader finds it by.
ApkRight == shellapk!ApkRight

\* patch writes each output on its own, although they share one map of attributes; what is
\* asked for the manifest element itself is dropped.
PatchRight == patch!PatchRight

\* The flag attr of patch says what it sets in the output.
AttrsSet == patch!AttrsSet

\* compile, link and manifest give aapt2 all that they were given, and in order.
AaptRight == compile!CompileRight /\ link!LinkRight /\ manifest!ManifestRight

\* The flags have the last values of their file, whatever the order of the map.
FlagsDetermined == flagfile!FlagsDetermined

\* The archives of bucketize are at every moment what they are to be, cut off in the last entry.
InOrder == session!InOrder

\* An archive that was closed is complete, and bucketize succeeds only with every output
\* that it was given closed.
ClosedComplete ==
    /\ session!ClosedComplete
    /\ bkPhase = "ok" => psClosed = session!Archives
                         /\ Cardinality(psClosed) = Len(bkCall.typedOutputs)
=============================================================================
