--------------------------- MODULE MCShadowEncoder ---------------------------
(***************************************************************************)
(* Three URIs.  Two of them have the same prefix, so that a tag can hide   *)
(* the declaration of another, and one of these has a second one.          *)
(***************************************************************************)
EXTENDS ShadowEncoder

au == <<"a", "u">>
av == <<"a", "v">>
bv == <<"b", "v">>
cw == <<"c", "w">>

OfResources == {<< >>, <<au>>, <<bv, cw>>}
OfTags == {<< >>, <<av>>, <<bv, au>>}
=============================================================================
