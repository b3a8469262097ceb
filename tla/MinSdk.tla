-------------------------------- MODULE MinSdk --------------------------------
(***************************************************************************)
(* The minimal SDK version of a manifest: the tool                         *)
(* enforce_min_sdk_floor.py, and the functions of rules/resources.bzl that *)
(* run it as build actions.                                                *)
(*                                                                         *)
(* A manifest is the sequence of its uses-sdk elements, each as its        *)
(* attribute minSdkVersion: "none", a "name" that int() does not take, or  *)
(* a "number" n.                                                           *)
(***************************************************************************)
EXTENDS Integers, Sequences

Versions == [kind : {"none", "name", "number"}, n : Int]
Number(n) == [kind |-> "number", n |-> n]

\* root.find(USES_SDK) finds the first one.
HasVersion(m) == m # << >> /\ m[1].kind # "none"
IsBelow(m, floor) == m[1].kind = "number" /\ m[1].n < floor

\* uses_sdk.set, or SubElement where there is no such element.
SetMinSdk(m, v) == IF m = << >> THEN <<v>> ELSE [m EXCEPT ![1] = v]

\* A floor of 0 is none.
BumpMinSdk(m, floor) ==
    IF floor # 0 /\ (~HasVersion(m) \/ IsBelow(m, floor)) THEN SetMinSdk(m, Number(floor))
    ELSE m

\* Whether MinSdkError is raised.
ValidateRaises(m, floor) == floor # 0 /\ (~HasVersion(m) \/ IsBelow(m, floor))

\* The default is a version, or "none" where none is given.
SetDefaultMinSdk(m, default) ==
    IF default.kind # "none" /\ ~HasVersion(m) THEN SetMinSdk(m, default) ELSE m

\* What the tool leaves: its exit, and the manifest and the log that it wrote.  With
\* no log it ends without one.
Nothing == << >>
Main(action, m, floor, default, log) ==
    LET Written(out) == [ok |-> TRUE, out |-> <<out>>, log |-> log]
    IN CASE action = "bump" -> Written(BumpMinSdk(m, floor))
         [] action = "set_default" -> Written(SetDefaultMinSdk(m, default))
         [] action = "validate" ->
              [ok |-> ~ValidateRaises(m, floor), out |-> Nothing,
               log |-> log /\ ~ValidateRaises(m, floor)]
         [] OTHER -> [ok |-> FALSE, out |-> Nothing, log |-> FALSE]

\* _bump_min_sdk, _set_default_min_sdk and _validate_min_sdk: no action is registered
\* where there is nothing to do, and the manifest stays.
bump_min_sdk(m, floor) ==
    IF floor <= 0 THEN m ELSE Main("bump", m, floor, Number(0), TRUE).out[1]
set_default_min_sdk(m, default) ==
    IF default.kind = "none" THEN m ELSE Main("set_default", m, 0, default, TRUE).out[1]
validate_min_sdk(m, floor) ==
    floor <= 0 \/ Main("validate", m, floor, Number(0), TRUE).ok
-----------------------------------------------------------------------------
(* What holds of every manifest *)

\* A manifest is valid if and only if the tool leaves it as it is when it bumps it.
BumpsTheInvalid(m, floor) == ValidateRaises(m, floor) <=> BumpMinSdk(m, floor) # m

\* What the action bump wrote passes the action validate of the same floor.
BumpedValidates(m, floor) == validate_min_sdk(bump_min_sdk(m, floor), floor)

\* A library's floor and then that of a binary do what the higher one does.
BumpsToTheHigher(m, f, g) ==
    bump_min_sdk(bump_min_sdk(m, f), g) = bump_min_sdk(m, IF f > g THEN f ELSE g)

\* A default that is not below the floor leaves the validation to fail only where the
\* manifest has a version, too low, of its own; and it changes no version.
DefaultValidates(m, default, floor) ==
    LET d == set_default_min_sdk(m, default) IN
    /\ HasVersion(m) => d = m
    /\ HasVersion(<<default>>) /\ ~IsBelow(<<default>>, floor) /\ ~validate_min_sdk(d, floor)
          => HasVersion(m) /\ IsBelow(m, floor)
=============================================================================
