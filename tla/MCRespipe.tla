------------------------------ MODULE MCRespipe ------------------------------
(***************************************************************************)
(* Three senders, two with two elements and one with none, so that a       *)
(* forwarder also ends without ever holding an element; two directories    *)
(* with a file of every outcome; records that fail at every place of the   *)
(* pipe, with a buffer that is flushed within a record.                    *)
(***************************************************************************)
EXTENDS Respipe, Integers, TLC

CONSTANTS i1, i2, i3, d1, d2

MCInputs == {i1, i2, i3}
MCCount == (i1 :> 2) @@ (i2 :> 2) @@ (i3 :> 0)

MCDirs == {d1, d2}

Q(word, dpi, num) == [word |-> word, dpi |-> dpi, num |-> num]
Path(dot, type, quals) == [dot |-> dot, type |-> type, quals |-> quals]
Dir(dir, under) == [what |-> "dir", path |-> Path(FALSE, "", << >>), dir |-> dir,
                    under |-> under]
File(path, dir) == [what |-> "file", path |-> path, dir |-> dir, under |-> {"res", dir}]
NoDpi == Q("v21", FALSE, -1)
Zero == Q("0dpi", TRUE, 0)
Mid == Q("mdpi", TRUE, -1)
Odd == Q("fordpi", TRUE, -1)

MCTree ==
    (d1 :> << Dir("", {}), Dir("res", {"res"}),
              File(Path(FALSE, "drawable", <<NoDpi, Zero, Mid, Odd>>), "a"),
              File(Path(TRUE, "drawable", << >>), "a"),
              File(Path(FALSE, "drawable", <<Q("70000dpi", TRUE, 70000)>>), "a"),
              File(Path(FALSE, "drawable", << >>), "a"),
              File(Path(FALSE, "values", <<Q("300dpi", TRUE, 300)>>), "b") >>)
    @@ (d2 :> << File(Path(FALSE, "src", << >>), "c"),
                 File(Path(FALSE, "xml", <<Zero, Odd>>), "d"),
                 [Dir("d", {"res", "d"}) EXCEPT !.what = "error"],
                 File(Path(FALSE, "xml", << >>), "e") >>)

\* The density is that of the first qualifier that has one.
ASSUME \A d \in MCDirs : \A k \in DOMAIN MCTree[d] : LET p == MCTree[d][k].path IN
    emitter!R!ParsePath(p).is = "info" =>
        emitter!R!ParsePath(p).density = IF Mid \in {p.quals[i] : i \in DOMAIN p.quals}
                                         THEN 160
                                         ELSE IF Len(p.quals) = 1 THEN p.quals[1].num
                                         ELSE 0

In(recs, direct, stops, writeFails) ==
    [recs |-> recs, direct |-> direct, stops |-> stops, writeFails |-> writeFails]
Three == <<"ok", "ok", "ok">>
MCResInputs ==
    {In(Three, direct, stops, writeFails) :
        <<direct, stops, writeFails>> \in {<<TRUE, TRUE, TRUE>>, <<FALSE, TRUE, TRUE>>,
                                           <<FALSE, FALSE, TRUE>>, <<FALSE, FALSE, FALSE>>}}
    \cup {In(<<"ok", "unencodable", "ok">>, TRUE, TRUE, FALSE)}
    \cup {In(<<"ok", bad>>, FALSE, stops, TRUE) :
             bad \in {"tornLen", "tornData", "badProto"}, stops \in BOOLEAN}
=============================================================================
