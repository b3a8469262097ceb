------------------------------- MODULE Repack -------------------------------
(***************************************************************************)
(* The command repack, tools/ak/repack/repack.go: the files of directories *)
(* and of zip archives are packed into one archive, each name once, and    *)
(* those that a filter matches into another one or nowhere.                *)
(*                                                                         *)
(* A source is a sequence of entries [name, dir, match, body]: whether it  *)
(* is a directory, whether the filter matches its name.  A body is a      *)
(* number.                                                                 *)
(***************************************************************************)
EXTENDS Integers, Sequences, SequencesExt

CONSTANT RepackCalls     \* the calls: records [dirs, zips, removeDirs, filtered,
                         \* badFlags, ioFails], the sources in two sequences

VARIABLES
    call,        \* filtered: whether there is an output for the filtered files
    phase,       \* "idle", "start", "pack", "close", "ok" or "error"
    todo,        \* the sources to pack, the first one from its next entry on
    seen,        \* the names seen
    out, filteredOut,    \* the entries of the two outputs
    lost         \* an error of the filtered output was not looked at

vars == <<call, phase, todo, seen, out, filteredOut, lost>>

NoCall == [dirs |-> << >>, zips |-> << >>, removeDirs |-> FALSE, filtered |-> FALSE,
           badFlags |-> FALSE, ioFails |-> FALSE]

TypeOK ==
    /\ call \in RepackCalls \cup {NoCall}
    /\ phase \in {"idle", "start", "pack", "close", "ok", "error"}
    /\ Len(todo) <= Len(call.dirs) + Len(call.zips)
    /\ \A e \in Range(out) \cup Range(filteredOut) : e.name \in seen
    /\ lost => call.ioFails

Init ==
    /\ call = NoCall /\ phase = "idle" /\ todo = << >> /\ seen = {}
    /\ out = << >> /\ filteredOut = << >> /\ lost = FALSE

Start ==
    /\ phase = "idle"
    /\ call' \in RepackCalls /\ phase' = "start"
    /\ UNCHANGED <<todo, seen, out, filteredOut, lost>>

\* log.Fatal: the deferred calls are not made.
Fatal ==
    /\ \/ phase = "start" /\ call.badFlags
       \/ phase \in {"start", "pack"} /\ call.ioFails
    /\ phase' = "error"
    /\ UNCHANGED <<call, todo, seen, out, filteredOut, lost>>

\* Mutant of Run: the archives before the directories.
RunZipsFirst ==
    /\ phase = "start" /\ ~call.badFlags
    /\ phase' = "pack" /\ todo' = call.zips \o call.dirs
    /\ UNCHANGED <<call, seen, out, filteredOut, lost>>

Run ==
    /\ phase = "start" /\ ~call.badFlags
    /\ phase' = "pack" /\ todo' = call.dirs \o call.zips
    /\ UNCHANGED <<call, seen, out, filteredOut, lost>>

SourceDone ==
    /\ phase = "pack" /\ todo # << >> /\ todo[1] = << >>
    /\ todo' = Tail(todo)
    /\ UNCHANGED <<call, phase, seen, out, filteredOut, lost>>

Packing == phase = "pack" /\ todo # << >> /\ todo[1] # << >>
Entry == Head(todo[1])
Step == todo' = [todo EXCEPT ![1] = Tail(@)] /\ UNCHANGED <<call, phase>>

\* A directory that is not kept, or a name that was seen.
Skip ==
    /\ Packing /\ ((Entry.dir /\ call.removeDirs) \/ Entry.name \in seen)
    /\ Step /\ UNCHANGED <<seen, out, filteredOut, lost>>

Fresh == Packing /\ ~(Entry.dir /\ call.removeDirs) /\ Entry.name \notin seen

See == seen' = seen \cup {Entry.name}

Write ==
    /\ Fresh /\ ~Entry.match /\ See
    /\ out' = Append(out, Entry)
    /\ Step /\ UNCHANGED <<filteredOut, lost>>

WriteFiltered ==
    /\ Fresh /\ Entry.match /\ See
    /\ filteredOut' = IF call.filtered THEN Append(filteredOut, Entry) ELSE filteredOut
    /\ Step /\ UNCHANGED <<out, lost>>

\* An entry whose header was written and whose body was not, or not to its end.
Cut(e) == [name |-> e.name, dir |-> e.dir, match |-> e.match, body |-> -1]

\* The error of the write to the filtered output is lost, and what was written of the
\* entry stays; the packing goes on.
WriteFilteredFails ==
    /\ Fresh /\ Entry.match /\ call.filtered /\ call.ioFails /\ See
    /\ lost' = TRUE
    /\ filteredOut' \in {filteredOut, Append(filteredOut, Cut(Entry))}
    /\ Step /\ UNCHANGED out

Packed ==
    /\ phase = "pack" /\ todo = << >>
    /\ phase' = "close"
    /\ UNCHANGED <<call, todo, seen, out, filteredOut, lost>>

\* The deferred closes, whose errors are lost too.
Close ==
    /\ phase = "close" /\ phase' = "ok"
    /\ lost' \in {lost, lost \/ call.ioFails}
    /\ UNCHANGED <<call, todo, seen, out, filteredOut>>

Next == \/ Start \/ Fatal \/ Run \/ SourceDone \/ Skip \/ Write \/ WriteFiltered
        \/ WriteFilteredFails \/ Packed \/ Close
-----------------------------------------------------------------------------
(* Properties *)

Sources == call.dirs \o call.zips
\* The entries by their source and their place in it.
Places == UNION {{s} \X DOMAIN Sources[s] : s \in DOMAIN Sources}
EntryAt(p) == Sources[p[1]][p[2]]
Before(p, q) == p[1] < q[1] \/ (p[1] = q[1] /\ p[2] < q[2])
Kept == {p \in Places : ~(EntryAt(p).dir /\ call.removeDirs)}
Firsts == {p \in Kept : \A q \in Kept : Before(q, p) => EntryAt(q).name # EntryAt(p).name}
\* What is for the one output or the other.
Outputs(match) == {EntryAt(p) : p \in {p \in Firsts : EntryAt(p).match = match}}

\* An output has a name once, with the body of the first source that has it; the
\* directories are before the archives.  In the filtered output a body may be cut, but only
\* if an error of that output was lost.
FirstWins ==
    /\ Range(out) \subseteq Outputs(FALSE)
    /\ \A e \in Range(filteredOut) :
          e \in Outputs(TRUE) \/ (lost /\ \E o \in Outputs(TRUE) : e = Cut(o))
    /\ \A o \in {out, filteredOut} :
          \A i, j \in DOMAIN o : o[i].name = o[j].name => i = j

\* Success means that every name is in the one output for it; only of the filtered
\* files some may be missing or cut, if an error of their output was lost.
NothingLost ==
    phase = "ok" =>
        /\ Range(out) = Outputs(FALSE)
        /\ call.filtered /\ ~lost => Range(filteredOut) = Outputs(TRUE)
=============================================================================
