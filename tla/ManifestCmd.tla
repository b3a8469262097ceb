----------------------------- MODULE ManifestCmd -----------------------------
(***************************************************************************)
(* The command manifest, tools/ak/manifest/manifest.go: attributes of a    *)
(* manifest are set, aapt2 compiles it, and the compiled manifest is taken *)
(* out of the archive that aapt2 wrote.                                    *)
(***************************************************************************)
EXTENDS ManifestUtils

CONSTANT CompileManifestCalls  \* the calls: records [flags, doc, attr, ioFails, aapt]

VARIABLES
    call,        \* aapt: "fails", "writes" the manifest, or leaves it "out"
    phase,       \* "idle", "patch", "aapt2", "copy", "ok" or "error"
    patched,     \* the manifest that aapt2 is given: start tags
    out          \* "none", "cut" or "compiled"

vars == <<call, phase, patched, out>>

NoCall == [flags |-> FALSE, doc |-> [elems |-> << >>, android |-> TRUE, broken |-> FALSE],
           attr |-> << >>, ioFails |-> FALSE, aapt |-> "fails"]

TypeOK ==
    /\ call \in CompileManifestCalls \cup {NoCall}
    /\ phase \in {"idle", "patch", "aapt2", "copy", "ok", "error"}
    /\ Len(patched) \in {0, Len(call.doc.elems)}
    /\ out \in {"none", "cut", "compiled"}

Init == call = NoCall /\ phase = "idle" /\ patched = << >> /\ out = "none"

Run ==
    /\ phase = "idle" /\ call' \in CompileManifestCalls
    /\ phase' = IF call'.flags THEN "patch" ELSE "error"
    /\ UNCHANGED <<patched, out>>

\* The temporary files are created, and the manifest is patched if there is need to.
patchManifest ==
    /\ phase = "patch"
    /\ call.attr # << >> => Arguments(call.attr) /\ ~call.doc.broken
    /\ patched' = Patch(call.doc, CreatePatchElements(call.attr))
    /\ phase' = "aapt2"
    /\ UNCHANGED <<call, out>>

patchManifestFails ==
    /\ phase = "patch"
    /\ call.ioFails \/ (call.attr # << >> /\ (~Arguments(call.attr) \/ call.doc.broken))
    /\ phase' = "error"
    /\ UNCHANGED <<call, patched, out>>

\* What aapt2 makes of a manifest that is not well formed is its own: an error.
aapt2 ==
    /\ phase = "aapt2"
    /\ phase' = IF call.aapt = "fails" \/ call.doc.broken \/ \E i \in DOMAIN patched : ~patched[i].start
                THEN "error" ELSE "copy"
    /\ UNCHANGED <<call, patched, out>>

Copy ==
    /\ phase = "copy" /\ phase' = "ok"
    /\ out' = IF call.aapt = "writes" THEN "compiled" ELSE out
    /\ UNCHANGED <<call, patched>>

CopyFails ==
    /\ phase = "copy" /\ call.ioFails
    /\ phase' = "error"
    /\ out' \in {out} \cup (IF call.aapt = "writes" THEN {"cut"} ELSE {})
    /\ UNCHANGED <<call, patched>>

Next == Run \/ patchManifest \/ patchManifestFails \/ aapt2 \/ Copy \/ CopyFails
-----------------------------------------------------------------------------
(* Properties *)

\* What is compiled has, in each element of the document, every attribute asked for
\* with the last value that was given, all others as they were and no more; an
\* attribute that cannot be written with its prefix is no success.  Only an archive
\* without manifest lets the command succeed without an output.
ManifestRight ==
    /\ phase = "ok" =>
         /\ (out = "compiled") = (call.aapt = "writes")
         /\ DOMAIN patched = DOMAIN call.doc.elems
         /\ \A i \in DOMAIN patched : LET e == call.doc.elems[i] IN
              /\ patched[i].name = e.name /\ patched[i].start
              /\ patched[i].attrs = WithAsked(call.attr, e.name, e.attrs)
    /\ phase = "error" => out # "compiled"
=============================================================================
