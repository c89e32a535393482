--------------------------- MODULE MCWorksheetRewrite ---------------------------
(***************************************************************************)
(* The sheets and the patches WorksheetRewrite is checked with.            *)
(***************************************************************************)
EXTENDS WorksheetRewrite

Open(name, ref) == Piece("open", name, ref, 1)
Close(name) == Piece("close", name, NoRef, 1)
Self(name, ref) == Piece("self", name, ref, 1)
Text(bytes) == Piece("text", "words", NoRef, bytes)

Sheet(head, body) ==
    <<Open("worksheet", NoRef)>> \o head
    \o <<Open("sheetData", NoRef)>> \o body \o <<Close("sheetData"), Close("worksheet")>>

Row(row, cells) == <<Open("row", Ref(row, 0))>> \o cells \o <<Close("row")>>
Cell(ref) == <<Open("c", ref), Close("c")>>
Valued(ref, bytes) ==
    <<Open("c", ref), Open("v", NoRef), Text(bytes), Close("v"), Close("c")>>

A1 == Ref(1, 1)
B1 == Ref(1, 2)
C1 == Ref(1, 3)
B2 == Ref(2, 2)
A3 == Ref(3, 1)
B3 == Ref(3, 2)

NoDimension == << >>
DimensionTag == <<Self("dimension", NoRef)>>
DimensionPair == <<Open("dimension", NoRef), Text(1), Close("dimension")>>

FirstRows == {<< >>, Row(1, Cell(A1)), Row(1, Cell(A1) \o Cell(C1)), Row(1, <<Self("c", B1)>>),
              <<Self("row", Ref(1, 0))>>}
LastRows == {<< >>, Row(3, Cell(B3)), Row(3, Valued(A3, 2))}

(* Sheets in order, with and without a dimension.                          *)
Ordered ==
    {Sheet(head, first \o last) :
        head \in {NoDimension, DimensionTag, DimensionPair}, first \in FirstRows,
        last \in LastRows}

(* Sheets a producer may write that the patch has to live with.            *)
Unusual ==
    {<<Self("worksheet", NoRef)>>,
     <<Open("worksheet", NoRef), Self("sheetData", NoRef), Close("worksheet")>>,
     <<Open("worksheet", NoRef), Close("worksheet")>>,
     Sheet(DimensionTag, Row(3, Cell(B3)) \o Row(1, Cell(A1))),
     Sheet(DimensionTag, Row(1, Cell(A1) \o Cell(A1))),
     Sheet(DimensionTag, Row(1, Cell(LowerRef(1, 1)))),
     Sheet(DimensionTag, <<Open("row", NoRef)>> \o Cell(A1) \o Cell(C1) \o <<Close("row")>>
                         \o Row(3, Cell(B3))),
     Sheet(DimensionTag, Row(1, Cell(NoRef) \o Cell(C1))),
     Sheet(DimensionTag, Row(1, Cell(A1) \o <<Self("rowExt", NoRef)>>)),
     Sheet(DimensionTag, Row(1, Cell(BadRef))),
     Sheet(DimensionTag, <<Open("row", BadRef)>> \o Cell(A1) \o <<Close("row")>>)}

(* Markup neither reader accepts.                                          *)
Malformed ==
    {<< >>,
     <<Open("worksheet", NoRef)>>,
     <<Text(1), Open("worksheet", NoRef), Close("worksheet")>>,
     <<Open("worksheet", NoRef), Close("worksheet"), Piece("comment", "", NoRef, 1)>>,
     <<Open("worksheet", NoRef), Piece("decl", "", NoRef, 1), Close("worksheet")>>,
     <<Open("worksheet", NoRef)>> \o Row(1, Cell(A1)) \o <<Close("worksheet")>>,
     Sheet(DimensionTag, Row(1, <<Open("c", A1), Open("v", NoRef), Close("t"), Close("c")>>)),
     Sheet(DimensionTag, Row(1, <<Open("c", A1)>> \o Cell(B1) \o <<Close("c")>>)),
     <<Open("worksheet", NoRef), Self("dimension", NoRef), Open("sheetData", NoRef)>>
        \o Row(1, Cell(A1)) \o <<Piece("cut", "row", NoRef, 1)>>,
     Sheet(<<Open("dimension", NoRef)>>, Row(1, Cell(A1)))}

(* Pieces as large as the window and larger, in chunks of every size.      *)
Chunked ==
    {<<Piece("decl", "", NoRef, 3)>>
        \o Sheet(<<Piece("self", "dimension", NoRef, 3)>>, Row(1, Valued(A1, 2))),
     Sheet(DimensionTag, Row(1, Valued(A1, 3))),
     Sheet(DimensionTag, Row(1, <<Piece("open", "c", A1, 4), Close("c")>>)),
     <<Open("worksheet", NoRef), Piece("cut", "sheetData", NoRef, 4)>>,
     Sheet(DimensionTag, <<Piece("text", "blank", NoRef, 2)>> \o Row(1, Cell(A1) \o Cell(B1)))
        \o <<Piece("text", "blank", NoRef, 1)>>}

Payload(ref) == <<Self("c", ref)>>
Target(ref) == [ref |-> ref, payload |-> Payload(ref)]
With(payload) == <<[Target(A1) EXCEPT !.payload = payload]>>

(* Payloads that are one cell.                                             *)
Payloads ==
    {<<Open("c", A1), Open("v", NoRef), Text(1), Close("v"), Close("c")>>,
     <<Piece("text", "blank", NoRef, 1), Open("c", A1), Piece("markup", "cdata", NoRef, 1),
       Self("v", NoRef), Close("c"), Piece("comment", "", NoRef, 1)>>}

(* Payloads that are refused, each for one reason.                         *)
BadPayloads ==
    {<< >>, Payload(B1), Payload(NoRef), <<Self("row", A1)>>, <<Open("c", A1)>>,
     <<Text(1), Self("c", A1)>>, <<Self("c", A1), Self("c", A1)>>,
     <<Self("c", A1), Text(1)>>, <<Open("c", A1), Close("v")>>,
     <<Open("c", A1), Open("v", NoRef), Close("c"), Close("v")>>,
     <<Self("c", A1), Close("c")>>, <<Open("c", A1), Piece("cut", "v", NoRef, 1)>>,
     <<Self("c", A1), Piece("markup", "cdata", NoRef, 1)>>,
     <<Open("c", A1), Piece("markup", "doctype", NoRef, 1), Close("c")>>,
     <<Open("c", A1), Text(9), Close("c")>>}

TargetLists ==
    {<<Target(A1)>>, <<Target(B3), Target(B1)>>, <<Target(B2), Target(A1)>>,
     <<Target(A3), Target(B1), Target(B2)>>}

BadTargets ==
    {<< >>, <<Target(A1), Target(LowerRef(1, 1))>>, <<Target(BadRef)>>}
    \cup {With(payload) : payload \in BadPayloads}

Bytes(pieces) == FoldLeft(LAMBDA n, piece : n + piece.bytes, 0, pieces)

Request(source_, targets, upsert, entry) ==
    [source |-> source_, size |-> Bytes(source_), targets |-> targets, upsert |-> upsert, entry |-> entry,
     related |-> FALSE, linked |-> "preserve", sizes |-> {}]

MCRequests ==
    {Request(s, t, upsert, entry) : s \in Ordered \cup Unusual, t \in TargetLists,
        upsert \in BOOLEAN, entry \in {"stored", "planned"}}
    \cup {Request(s, <<Target(A1)>>, upsert, entry) : s \in Malformed,
            upsert \in BOOLEAN, entry \in {"stored", "deflated"}}
    \cup {[Request(s, <<Target(A1)>>, FALSE, entry) EXCEPT !.sizes = {1, 2}] :
            s \in Chunked, entry \in {"stored", "planned"}}
    \cup {[Request(s, <<Target(LowerRef(1, 1))>>, upsert, "deflated") EXCEPT !.linked = linked] :
            s \in {Sheet(DimensionTag, Row(1, Cell(A1)))}, upsert \in BOOLEAN,
            linked \in {"fail", "preserve"}}
    \cup {[Request(Sheet(DimensionTag, Row(1, Cell(A1))), t, FALSE, "stored") EXCEPT
             !.related = TRUE] : t \in BadTargets \cup {With(payload) : payload \in Payloads}}

=============================================================================
