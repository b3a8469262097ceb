------------------------------- MODULE Pipeline -------------------------------
(***************************************************************************)
(* rules/processing_pipeline.bzl: the processors of which the rules        *)
(* android_library and android_binary are made, and the two pipelines.     *)
(*                                                                         *)
(* A dict of Starlark is its keys, in the order in which they came, and    *)
(* what is at each.  A processor is the contexts it takes by name, the one *)
(* that it returns ("None" for none) and the providers in it.              *)
(***************************************************************************)
EXTENDS TLC, SequencesExt

EmptyDict == [keys |-> << >>, at |-> << >>]
Set(dict, key, value) ==
    [keys |-> IF key \in ToSet(dict.keys) THEN dict.keys ELSE Append(dict.keys, key),
     at |-> (key :> value) @@ dict.at]
Update(dict, new) == FoldLeft(LAMBDA d, key : Set(d, key, new.at[key]), dict, new.keys)

\* The new processors first; one whose name was taken gives way to the old one, which
\* moves to its place.
prepend(processors, new) == Update(Update(EmptyDict, new), processors)
append(processors, new) == Update(processors, new)

\* fail() where a name is not in processors.
replace(processors, new) ==
    IF ToSet(new.keys) \subseteq ToSet(processors.keys)
    THEN [ok |-> TRUE, processors |-> Update(processors, new)]
    ELSE [ok |-> FALSE, processors |-> EmptyDict]

\* What every processor is given.  A name that target_ctx has is registered.
TargetCtx == {"java_package", "providers", "validation_outputs", "runfiles"}

\* A call of a processor fails where an argument that it names is missing.
Execute(target, p) ==
    IF ~target.ok \/ ~(p.needs \subseteq target.ctx) THEN [target EXCEPT !.ok = FALSE]
    ELSE IF p.gives = "None" THEN target
    ELSE IF p.gives \in target.ctx THEN [target EXCEPT !.ok = FALSE]
    ELSE [ok |-> TRUE, ctx |-> target.ctx \union {p.gives},
          providers |-> target.providers \o p.providers]

\* finalize is called last, in the same way.
run(pipeline) ==
    LET Target == FoldLeft(LAMBDA t, name : Execute(t, pipeline.processors.at[name]),
                           [ok |-> TRUE, ctx |-> TargetCtx, providers |-> << >>],
                           pipeline.processors.keys)
    IN [Target EXCEPT !.ok = @ /\ pipeline.finalize \subseteq Target.ctx]
-----------------------------------------------------------------------------
(* The pipelines of the rules.  A processor without providers has << >>;   *)
(* the provider of another one stands for all that it has.                 *)

P(name, needs, gives, providers) ==
    <<name, [needs |-> needs, gives |-> gives, providers |-> providers]>>
Dict(items) == FoldLeft(LAMBDA d, item : Set(d, item[1], item[2]), EmptyDict, items)

android_library ==
    [processors |-> Dict(<<
        P("ExceptionsProcessor", {}, "exceptions_ctx", << >>),
        P("ManifestProcessor", {}, "manifest_ctx", << >>),
        P("ResourceProcessor", {"java_package", "manifest_ctx"}, "resources_ctx", <<"resources">>),
        P("IdlProcessor", {}, "idl_ctx", <<"idl">>),
        P("DataBindingProcessor", {"java_package", "resources_ctx"}, "db_ctx", <<"db">>),
        P("JvmProcessor", {"exceptions_ctx", "resources_ctx", "idl_ctx", "db_ctx"}, "jvm_ctx",
          <<"jvm">>),
        P("ProguardProcessor", {"idl_ctx"}, "proguard_ctx", <<"proguard">>),
        P("AarProcessor", {"java_package", "resources_ctx", "proguard_ctx"}, "aar_ctx", <<"aar">>),
        P("NativeProcessor", {"idl_ctx"}, "native_ctx", <<"native">>),
        P("IntelliJProcessor",
          {"java_package", "manifest_ctx", "resources_ctx", "idl_ctx", "jvm_ctx"},
          "intellij_ctx", <<"intellij">>),
        P("CoverageProcessor", {}, "coverage_ctx", <<"coverage">>),
        P("BaselineProfilesProcessor", {}, "bp_ctx", <<"bp">>)>>),
     finalize |-> {"resources_ctx", "intellij_ctx", "jvm_ctx", "proguard_ctx", "providers",
                   "validation_outputs"}]

android_binary ==
    [processors |-> Dict(<<
        P("ManifestProcessor", {}, "manifest_ctx", << >>),
        P("StampProcessor", {}, "stamp_ctx", << >>),
        P("ResourceProcessor", {"manifest_ctx", "java_package"}, "packaged_resources_ctx",
          <<"resources">>),
        P("ValidateManifestProcessor", {"packaged_resources_ctx"}, "manifest_validation_ctx",
          << >>),
        P("NativeLibsProcessor", {}, "native_libs_ctx", <<"native">>),
        P("DataBindingProcessor", {"java_package", "packaged_resources_ctx"}, "db_ctx", <<"db">>),
        P("JvmProcessor", {"db_ctx", "packaged_resources_ctx", "stamp_ctx"}, "jvm_ctx", <<"jvm">>),
        P("BuildInfoProcessor", {}, "build_info_ctx", << >>),
        P("DeployJarProcessor",
          {"stamp_ctx", "packaged_resources_ctx", "jvm_ctx", "build_info_ctx"}, "deploy_ctx",
          << >>),
        P("DexProcessor", {"stamp_ctx", "packaged_resources_ctx", "jvm_ctx", "deploy_ctx"},
          "dex_ctx", <<"dex">>),
        P("BaselineProfilesProcessor", {"dex_ctx"}, "bp_ctx", <<"bp">>)>>),
     finalize |-> {"providers", "validation_outputs"}]
-----------------------------------------------------------------------------
(* What holds of every pipeline *)

\* The contexts that the processors before the ith one return.
Given(dict, i) == {dict.at[dict.keys[j]].gives : j \in 1..(i - 1)} \ {"None"}

\* A pipeline runs if and only if each processor, and finalize, comes after those whose
\* contexts it takes, and no context is returned twice.
RunsInOrder(pipeline) ==
    LET dict == pipeline.processors
        AfterNeeds(i) == dict.at[dict.keys[i]].needs \subseteq TargetCtx \union Given(dict, i)
        New(i) == dict.at[dict.keys[i]].gives \notin TargetCtx \union Given(dict, i)
    IN run(pipeline).ok
         <=> /\ \A i \in DOMAIN dict.keys : AfterNeeds(i) /\ New(i)
             /\ pipeline.finalize \subseteq TargetCtx \union Given(dict, Len(dict.keys) + 1)

\* No processor gets lost: each name of either side is there once, and the providers of
\* a pipeline that runs are those of its processors, in the order of their names.
NoneLost(pipeline, new) ==
    LET old == pipeline.processors IN
    /\ \A d \in {prepend(old, new), append(old, new)} :
            /\ ToSet(d.keys) = ToSet(old.keys) \union ToSet(new.keys)
            /\ Len(d.keys) = Cardinality(ToSet(d.keys))
    /\ run(pipeline).ok
          => run(pipeline).providers = FoldLeft(LAMBDA s, key : s \o old.at[key].providers,
                                                << >>, old.keys)

\* A pipeline that runs still runs with new processors in front or behind that have other
\* names and contexts and run on their own; and with ones that replace a processor, need
\* no more than it and return the same.
StillRuns(pipeline, new) ==
    LET old == pipeline.processors
        With(d) == [pipeline EXCEPT !.processors = d]
        Alone == run([processors |-> new, finalize |-> {}])
        Other == /\ ToSet(old.keys) \intersect ToSet(new.keys) = {}
                 /\ Alone.ctx \intersect Given(old, Len(old.keys) + 1) = {}
        Same == \A key \in ToSet(new.keys) \intersect ToSet(old.keys) :
                    /\ new.at[key].gives = old.at[key].gives
                    /\ new.at[key].needs \subseteq old.at[key].needs
    IN /\ run(pipeline).ok /\ Alone.ok /\ Other
             => /\ run(With(prepend(old, new))).ok
                /\ run(With(append(old, new))).ok
                /\ run(With(prepend(old, new))).providers
                       = Alone.providers \o run(pipeline).providers
       /\ replace(old, new).ok /\ run(pipeline).ok /\ Same
             => run(With(replace(old, new).processors)).ok
=============================================================================
