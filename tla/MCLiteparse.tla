----------------------------- MODULE MCLiteparse -----------------------------
(***************************************************************************)
(* Values files, a layout, a file without an extension and a file whose    *)
(* name starts with a dot; the contents come from the cfg.                 *)
(***************************************************************************)
EXTENDS Liteparse, TLC

CONSTANTS vf, lf, df, nf, mf, rf, p1, p2

Xml(emits, torn) == [header |-> "xml", emits |-> emits, torn |-> torn]
Short == [header |-> "short", emits |-> << >>, torn |-> FALSE]
Other == [header |-> "other", emits |-> << >>, torn |-> FALSE]

ValuesPath == [dot |-> FALSE, type |-> "values", ext |-> "xml", asRes |-> "none"]
LayoutPath == [dot |-> FALSE, type |-> "layout", ext |-> "xml", asRes |-> "res"]
DotPath    == [dot |-> TRUE, type |-> "raw", ext |-> "", asRes |-> "res"]
RawPath    == [dot |-> FALSE, type |-> "raw", ext |-> "png", asRes |-> "res"]
\* No extension, and a base name that is no resource name.
BarePath   == [dot |-> FALSE, type |-> "drawable", ext |-> "", asRes |-> "bad"]

MCPath == (vf :> ValuesPath) @@ (lf :> LayoutPath) @@ (df :> DotPath) @@ (nf :> BarePath)
          @@ (mf :> ValuesPath) @@ (rf :> RawPath)
MCParsers == {p1, p2}

Of(v, l, n) == (vf :> v) @@ (lf :> l) @@ (df :> Other) @@ (nf :> n)
                 @@ (mf :> Xml(<<"res">>, FALSE)) @@ (rf :> Other)
TwoRes == Xml(<<"res", "res">>, FALSE)
OneRes == Xml(<<"res">>, FALSE)

MCCall(names, contents_, unreadable, memory, cancels) ==
    [paths |-> names, Contents |-> contents_, unreadable |-> unreadable,
     memory |-> memory, cancels |-> cancels]

\* A dot file, a values file and a layout.
DotCall(memory) == MCCall(<<df, vf, lf>>, Of(TwoRes, OneRes, Other), {}, memory, FALSE)
\* Two errors of one file, of which only the first is read, a bare path that is no
\* resource name, and a layout that may not open.
ErrorCall == MCCall(<<vf, nf, lf>>, Of(Xml(<<"err", "err">>, FALSE), OneRes, Other),
                    {lf}, FALSE, FALSE)
\* More XML files than parsers and a caller that cancels.
CancelCall == MCCall(<<vf, mf, vf>>, Of(OneRes, OneRes, Other), {}, TRUE, TRUE)
\* No file to parse, and a caller that cancels.
RawCall == MCCall(<<rf, rf>>, Of(OneRes, OneRes, Other), {}, FALSE, TRUE)
\* A file of four bytes.
ShortCall == MCCall(<<lf, nf>>, Of(OneRes, OneRes, Short), {}, TRUE, FALSE)
TornCall == MCCall(<<vf, lf>>, Of(Xml(<<"res">>, TRUE), OneRes, Other), {}, FALSE, FALSE)

AllCalls == {DotCall(FALSE), ErrorCall, CancelCall, RawCall, ShortCall}
TornCalls == {TornCall}
PairingCalls == {DotCall(TRUE)}
=============================================================================
