--------------------------- MODULE PartitionClose ---------------------------
(***************************************************************************)
(* PartitionSession.Close of bucketize/partitioner.go: the flush of the    *)
(* collected paths and of the collected values into the archives, and the  *)
(* close of each archive, with the failure of every call on a file or a    *)
(* zip writer.                                                             *)
(*                                                                         *)
(* A source file is a number; "<" on them is "<" on their paths.  A path   *)
(* record is [dot, ok, type, name, entry]: whether the base name starts    *)
(* with a dot, whether ParseName accepts it, its resource type and name    *)
(* and what pathResSuffix leaves of it.  Names and payloads are numbers.   *)
(* An archive <<t, i>> is a sequence of entries [name, attrs, body, done]. *)
(***************************************************************************)
EXTENDS Naturals, Sequences, FiniteSets, SequencesExt

CONSTANTS
    Path,             \* Path[f]: the path record of the file f
    DirOf,            \* DirOf[f]: the part of its path that ends in "/res"
    Sessions,         \* the sessions to close: records [typedOutput, paths, vals, ras,
                      \* order, ioFails]
    Shard(_, _)       \* the sharder

VARIABLES
    session,          \* the outputs and what was collected
    phase,            \* "idle", "paths", "vals", "close", "ok", "error" or "panic"
    todo,             \* the keys of the map that are not yet flushed
    key,              \* the key being flushed
    ws,               \* the writers of its entries: <<archive, entry>>, by shard
    names,            \* the names of its values not yet written
    footers,          \* how many footers were written
    arch,             \* the entries of each archive
    closed,           \* the archives whose directory is written
    opened            \* the source files open

IOFails == session.ioFails   \* calls on files and archives may fail
\* typedOutput[t]: the number of archives of type t.
typedOutput == session.typedOutput
Archives == UNION {{t} \X (0..(typedOutput[t] - 1)) : t \in DOMAIN typedOutput}
NoSession == [typedOutput |-> << >>, paths |-> {}, vals |-> << >>, ras |-> << >>,
              order |-> << >>, ioFails |-> FALSE]

keyVars == <<key, ws, names, footers>>
vars == <<session, phase, todo, keyVars, arch, closed, opened>>

None == <<0, "none">>

PathKeys == session.paths \X {"path"}

\* One source file is open at most, and none once the paths are flushed.
TypeOK ==
    /\ session \in Sessions \cup {NoSession}
    /\ phase \in {"idle", "paths", "vals", "close", "ok", "error", "panic"}
    /\ todo \subseteq (DOMAIN session.vals \cup PathKeys)
    /\ key \in DOMAIN session.vals \cup PathKeys \cup {None}
    /\ ws \in Seq(Archives \X Nat) /\ footers \in 0..Len(ws)
    /\ DOMAIN arch = Archives /\ closed \subseteq Archives
    /\ opened \subseteq session.paths /\ Cardinality(opened) <= 1
    /\ phase \in {"vals", "close", "ok"} => opened = {}

Init ==
    /\ session = NoSession /\ phase = "idle" /\ todo = {}
    /\ key = None /\ ws = << >> /\ names = {} /\ footers = 0
    /\ arch = << >> /\ closed = {} /\ opened = {}

\* Close is called; its session was made with empty archives.  The keys: <<f, "path">>
\* for the collected path f, <<f, t>> for the values of type t of the file f.
CallClose ==
    /\ phase = "idle" /\ phase' = "paths"
    /\ session' \in Sessions
    /\ todo' = session'.paths \X {"path"}
    /\ arch' = [a \in Archives' |-> << >>]
    /\ UNCHANGED <<keyVars, closed, opened>>
-----------------------------------------------------------------------------
(* The order of the keys *)

\* The index of the file, or of the directory listed in its place, or 0.
pathIdx(f) == LET order == session.order IN
    IF f \in DOMAIN order THEN order[f]
    ELSE IF DirOf[f] \in DOMAIN order THEN order[DirOf[f]] ELSE 0

\* Mutant of Less: the paths of one index are not compared.
LessByIndex(j, k) == pathIdx(j[1]) < pathIdx(k[1])

\* byPathIndex.Less and byValueKeyIndex.Less.
Less(j, k) == IF pathIdx(j[1]) = pathIdx(k[1]) THEN j[1] < k[1]
              ELSE pathIdx(j[1]) < pathIdx(k[1])

\* The keys that sort.Sort may put first: the map gives them in any order, and
\* keys of which neither is Less stay so.
First == {k \in todo : \A j \in todo : ~Less(j, k)}

Fail == phase' = "error" /\ UNCHANGED <<keyVars, todo, arch, closed, opened, session>>
-----------------------------------------------------------------------------
(* flushCollectedPaths and storePathResource *)

OpenPath ==
    /\ phase = "paths" /\ key = None
    /\ \E k \in First :
          /\ key' = k /\ todo' = todo \ {k}
          /\ opened' = opened \cup {k[1]}
    /\ UNCHANGED <<session, phase, ws, names, footers, arch, closed>>

OpenPathFails ==
    /\ phase = "paths" /\ key = None /\ todo # {}
    /\ IOFails /\ Fail

\* Mutant of PathStored: f.Close() is missing.
PathStoredOpen ==
    /\ key' = None
    /\ UNCHANGED <<session, phase, todo, ws, names, footers, closed, opened>>

\* storePathResource returned nil, and f.Close().
PathStored ==
    /\ key' = None /\ opened' = opened \ {key[1]}
    /\ UNCHANGED <<session, phase, todo, ws, names, footers, closed>>

OfPath == phase = "paths" /\ key # None
pi == Path[key[1]]

SkipDotFile == OfPath /\ pi.dot /\ PathStored /\ UNCHANGED arch

BadPathName == OfPath /\ ~pi.dot /\ ~pi.ok /\ Fail

\* archiveFor lets the shard be the number of archives, and indexes with it.
ShardOfPath == Shard(pi.name, typedOutput[pi.type])
BadShard == OfPath /\ ~pi.dot /\ pi.ok /\ ShardOfPath > typedOutput[pi.type] /\ Fail
Panic ==
    /\ OfPath /\ ~pi.dot /\ pi.ok /\ ShardOfPath = typedOutput[pi.type]
    /\ phase' = "panic"
    /\ UNCHANGED <<session, todo, keyVars, arch, closed, opened>>

PathEntry(done) == [name |-> pi.entry, attrs |-> << >>,
                    body |-> IF done THEN <<key[1]>> ELSE << >>, done |-> done]
ToArchive(done) == arch' = [arch EXCEPT ![<<pi.type, ShardOfPath>>] =
                                Append(@, PathEntry(done))]
CanStore == OfPath /\ ~pi.dot /\ pi.ok /\ ShardOfPath < typedOutput[pi.type]

\* arch.Create and io.Copy.
StorePath == CanStore /\ ToArchive(TRUE) /\ PathStored

StorePathFails ==
    /\ CanStore /\ IOFails
    /\ UNCHANGED arch \/ ToArchive(FALSE)
    /\ phase' = "error"
    /\ UNCHANGED <<session, todo, keyVars, closed, opened>>

PathsDone ==
    /\ phase = "paths" /\ key = None /\ todo = {}
    /\ phase' = "vals" /\ todo' = DOMAIN session.vals
    /\ UNCHANGED <<session, keyVars, arch, closed, opened>>
-----------------------------------------------------------------------------
(* flushCollectedVals *)

TakeKey ==
    /\ phase = "vals" /\ key = None
    /\ \E k \in First : /\ key' = k /\ todo' = todo \ {k}
                        /\ names' = DOMAIN session.vals[k]
    /\ ws' = << >> /\ footers' = 0
    /\ UNCHANGED <<session, phase, arch, closed, opened>>

OfVals == phase = "vals" /\ key # None
Writers == typedOutput[key[2]]

\* The attributes collected of the <resources> tag of the file.
RAs(f) == IF f \in DOMAIN session.ras THEN session.ras[f] ELSE << >>

ValsEntry == [name |-> Path[key[1]].entry, attrs |-> RAs(key[1]), body |-> << >>,
              done |-> FALSE]

\* An entry in each archive of the type: a.Create, the header and the tag.
CreateEntry ==
    /\ OfVals /\ Len(ws) < Writers
    /\ LET a == <<key[2], Len(ws)>> IN
        /\ arch' = [arch EXCEPT ![a] = Append(@, ValsEntry)]
        /\ ws' = Append(ws, <<a, Len(arch[a]) + 1>>)
    /\ UNCHANGED <<session, phase, todo, key, names, footers, closed, opened>>

CreateEntryFails ==
    /\ OfVals /\ Len(ws) < Writers /\ IOFails
    /\ \/ UNCHANGED arch
       \/ arch' = [arch EXCEPT ![<<key[2], Len(ws)>>] = Append(@, ValsEntry)]
    /\ phase' = "error"
    /\ UNCHANGED <<session, todo, keyVars, closed, opened>>

Append1(w, x) == arch' = [arch EXCEPT ![w[1]][w[2]].body = Append(@, x)]

Writing == OfVals /\ Len(ws) >= Writers /\ names # {}
NextName == Min(names)
ShardOfName == Shard(NextName, Len(ws))

\* The next name in the order of sort.Strings goes to its shard.
WriteValue ==
    /\ Writing /\ ShardOfName < Len(ws)
    /\ Append1(ws[ShardOfName + 1], session.vals[key][NextName])
    /\ names' = names \ {NextName}
    /\ UNCHANGED <<session, phase, todo, key, ws, footers, closed, opened>>

BadShardOfValue == Writing /\ ShardOfName >= Len(ws) /\ Fail
WriteValueFails == Writing /\ ShardOfName < Len(ws) /\ IOFails /\ Fail

Ending == OfVals /\ Len(ws) >= Writers /\ names = {}

WriteFooter ==
    /\ Ending /\ footers < Len(ws)
    /\ LET w == ws[footers + 1] IN arch' = [arch EXCEPT ![w[1]][w[2]].done = TRUE]
    /\ footers' = footers + 1
    /\ UNCHANGED <<session, phase, todo, key, ws, names, closed, opened>>

\* Mutant of WriteFooterFails: the error is not looked at.
WriteFooterFailsUnseen ==
    /\ Ending /\ footers < Len(ws) /\ IOFails
    /\ footers' = footers + 1
    /\ UNCHANGED <<session, phase, todo, key, ws, names, arch, closed, opened>>

WriteFooterFails == Ending /\ footers < Len(ws) /\ IOFails /\ Fail

KeyDone ==
    /\ Ending /\ footers = Len(ws)
    /\ key' = None
    /\ UNCHANGED <<session, phase, todo, ws, names, footers, arch, closed, opened>>

ValsDone ==
    /\ phase = "vals" /\ key = None /\ todo = {}
    /\ phase' = "close"
    /\ UNCHANGED <<session, todo, keyVars, arch, closed, opened>>
-----------------------------------------------------------------------------
(* Close *)

\* The archives of one type after another, the types in the order of the map.
CloseArchive(a) ==
    /\ phase = "close" /\ a \notin closed
    /\ \A b \in Archives : b[1] = a[1] => (b[2] < a[2] <=> b \in closed)
    /\ \A b \in closed : b[1] # a[1] => \A c \in Archives : c[1] = b[1] => c \in closed
    /\ closed' = closed \cup {a}
    /\ UNCHANGED <<session, phase, todo, keyVars, arch, opened>>

CloseFails == phase = "close" /\ closed # Archives /\ IOFails /\ Fail

CloseReturns ==
    /\ phase = "close" /\ closed = Archives
    /\ phase' = "ok"
    /\ UNCHANGED <<session, todo, keyVars, arch, closed, opened>>

flushCollectedPaths == \/ OpenPath \/ OpenPathFails \/ SkipDotFile \/ BadPathName
                       \/ BadShard \/ Panic \/ StorePath \/ StorePathFails
                       \/ PathsDone
flushCollectedVals == \/ TakeKey \/ CreateEntry \/ CreateEntryFails \/ WriteValue
                      \/ BadShardOfValue \/ WriteValueFails \/ WriteFooter
                      \/ WriteFooterFails \/ KeyDone \/ ValsDone
Close == (\E a \in Archives : CloseArchive(a)) \/ CloseFails \/ CloseReturns

Next == CallClose \/ flushCollectedPaths \/ flushCollectedVals \/ Close
-----------------------------------------------------------------------------
(* What the archives are to hold, without any loop. *)

\* The paths and the files with values that are for an archive, in the order of their
\* files' declaration, the paths first.
PathsOf(a) == {k \in PathKeys : LET p == Path[k[1]] IN
    p.type = a[1] /\ ~p.dot /\ p.ok /\ Shard(p.name, typedOutput[a[1]]) = a[2]}
ValsOf(a) == {k \in DOMAIN session.vals : k[2] = a[1]}
Entries(a) == ({"path"} \X PathsOf(a)) \cup ({"vals"} \X ValsOf(a))
Earlier(j, k) == \/ pathIdx(j[1]) < pathIdx(k[1])
                 \/ pathIdx(j[1]) = pathIdx(k[1]) /\ j[1] < k[1]
Precedes(d, e) == IF d[1] = e[1] THEN Earlier(d[2], e[2]) ELSE d[1] = "path"
Place(e, a) == Cardinality({d \in Entries(a) : Precedes(d, e)}) + 1

\* The names of a file that are for an archive, and the place of each.
NamesOf(k, a) == {n \in DOMAIN session.vals[k] : Shard(n, typedOutput[a[1]]) = a[2]}
Rank(n, k, a) == Cardinality({m \in NamesOf(k, a) : m < n}) + 1

\* x is the beginning of the entry e of the archive a, or the whole of it.
Begins(x, e, a) ==
    /\ x.name = Path[e[2][1]].entry
    /\ IF e[1] = "path" THEN x.attrs = << >> /\ x.body \in {<< >>, <<e[2][1]>>}
       ELSE /\ x.attrs = RAs(e[2][1]) /\ Len(x.body) <= Cardinality(NamesOf(e[2], a))
            /\ \A n \in NamesOf(e[2], a) : LET r == Rank(n, e[2], a) IN
                  r <= Len(x.body) => x.body[r] = session.vals[e[2]][n]
IsWhole(x, e, a) ==
    /\ Begins(x, e, a) /\ x.done
    /\ Len(x.body) = IF e[1] = "path" THEN 1 ELSE Cardinality(NamesOf(e[2], a))
-----------------------------------------------------------------------------
(* Properties *)

\* At every moment, a failure included, an archive is the expected one cut off: all
\* entries but the last are as they are to be, in the order of declaration and each
\* value in the order of the names, whatever the order of the maps ("sort keys so that
\* data is written to the archives in a deterministic order").
InOrder == \A a \in Archives :
    LET n == Len(arch[a]) IN
    /\ n <= Cardinality(Entries(a))
    /\ \A e \in Entries(a) : LET p == Place(e, a) IN
          /\ p <= n => Begins(arch[a][p], e, a)
          /\ p < n => IsWhole(arch[a][p], e, a)

\* An archive that got its directory is complete and well formed: each value of
\* each file in the one shard of its name, sorted, between tag and footer, also
\* when the close of another archive fails.
ClosedComplete == \A a \in closed :
    /\ Len(arch[a]) = Cardinality(Entries(a))
    /\ \A e \in Entries(a) : IsWhole(arch[a][Place(e, a)], e, a)
=============================================================================
