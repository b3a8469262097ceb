---------------------------- MODULE MCValuesParse ----------------------------
(* Documents that nest every kind of tag in every other, one per run. *)
EXTENDS ValuesParse

Tok(t, tg, name) == [t |-> t, tag |-> tg, name |-> name]
S(tg, name) == Tok("start", tg, name)
E(tg) == Tok("end", tg, "none")
Text == Tok("text", "", "none")

MCTypes == {"string", "attr", "declare-styleable"}

\* Two <resources>, strings in a string, an unknown tag around a string, and an
\* <attr> with an enum.
CleanDoc ==
    <<S("resources", "none"),
        S("string", "ok"), S("string", "ok"), Text, E("string"),
          S("string", "ok"), E("string"), E("string"),
        S("public", "ok"), S("string", "ok"), E("string"), E("public"),
      E("resources"), Text,
      S("resources", "none"),
        S("attr", "ok"), S("enum", "ok"), E("enum"), E("attr"),
        S("item", "ok"), E("item"),
      E("resources")>>

Styleable(children) ==
    <<S("declare-styleable", "ok")>> \o children \o <<E("declare-styleable")>>
AttrWith(enum) == <<S("attr", "ok"), S("enum", enum), E("enum"), E("attr")>>
Resources(children) == <<S("resources", "none")>> \o children \o <<E("resources")>>

\* A bad enum in the first attr of a styleable, and attrs and tags behind it.
BadEnumDoc ==
    Resources(Styleable(AttrWith("bad") \o AttrWith("ok"))
              \o Styleable(<<S("attr", "ok"), E("attr")>>))

\* A bad enum and then a bad attr in a styleable, and a tag behind them.
BadAttrDoc ==
    Resources(Styleable(AttrWith("bad") \o <<S("attr", "bad"), E("attr")>>)
              \o <<S("item", "ok"), E("item")>>)

\* A styleable with an attr that has a flag, one of android whose enum is then
\* read as an attr, and one more; and the same cut off inside the first attr.
StyleableDoc ==
    Resources(Styleable(<<S("attr", "ok"), S("flag", "ok"), E("flag"), E("attr"),
                          S("attr", "android"), S("enum", "ok"), E("enum"), E("attr"),
                          S("attr", "ok"), E("attr")>>)
              \o <<S("item", "ok"), E("item")>>)
TornDoc == SubSeq(StyleableDoc, 1, 4)

\* Not a values file: the @+id attributes of nested views.
IdsDoc == LET row == <<S("Row", "none"), S("View", "ok"), E("View"),
                       S("View", "bad"), E("View"), E("Row"), Text>>
          IN <<S("Grid", "ok")>> \o row \o row \o row \o row \o <<E("Grid")>>

File(tokens, cut, values) == [doc |-> tokens, torn |-> cut, isValues |-> values]
AllInputs == {File(CleanDoc, FALSE, TRUE), File(StyleableDoc, FALSE, TRUE),
              File(BadEnumDoc, FALSE, TRUE), File(BadAttrDoc, FALSE, TRUE),
              File(TornDoc, TRUE, TRUE), File(IdsDoc, FALSE, FALSE)}
BadEnumInput == {File(BadEnumDoc, FALSE, TRUE)}
=============================================================================
