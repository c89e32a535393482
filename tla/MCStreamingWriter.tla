------------------------- MODULE MCStreamingWriter -------------------------
(* Instances of WriterParts for TLC: two sheets of two rows at most, rows that
   repeat texts within and across sheets, leave columns out or are empty; or
   fewer rows with calls that record parts. *)
EXTENDS WriterParts

CONSTANTS data, other, t, u, site, place, t1, t2, x, y, red, bold, italic

MCNames == {data, other}
MCCaseKey == [n \in MCNames |-> n]
MCTexts == {t, u}
MCRows == {<<>>, <<<<1, t>>>>, <<<<1, t>>, <<3, u>>>>, <<<<2, u>>, <<3, Formula>>>>}

\* Three rows, or four other calls, or one row and two.
MCMixes == ((0 .. 3) \X {0}) \cup ({0} \X (0 .. 4)) \cup ({1} \X (0 .. 2))

\* Two tables of one column side by side, with and without a totals row, and one
\* that would overlap them and whose columns are one but for the case.
Table(name, top, bottom, left, right, columns, functions) ==
    [name |-> name, top |-> top, bottom |-> bottom, left |-> left, right |-> right,
     columns |-> columns, functions |-> functions, totals |-> functions # <<>>]
MCTables == {Table(t1, 1, 2, 1, 1, <<x>>, <<>>), Table(t2, 1, 3, 2, 2, <<x>>, <<"sum">>),
             Table(t2, 1, 2, 1, 2, <<x, y>>, <<>>)}
MCTableKey == [n \in {t1, t2, x, y} |-> IF n = y THEN x ELSE n]

MCImages == {[format |-> "png", bytes |-> 1, url |-> site],
             [format |-> "jpg", bytes |-> 2, url |-> None]}

MCScales == {[lower |-> "min", middle |-> "number", upper |-> "max"],
             [lower |-> "max", middle |-> None, upper |-> "max"]}
MCBars == {[lower |-> "min", upper |-> "max"]}
MCIcons == {[thresholds |-> <<0, 33, 67>>], [thresholds |-> <<0, 67, 33>>]}
MCValidations ==
    {[type |-> "whole", operator |-> "between", formula1 |-> TRUE, formula2 |-> TRUE,
      hides_arrow |-> FALSE],
     [type |-> "list", operator |-> None, formula1 |-> TRUE, formula2 |-> TRUE,
      hides_arrow |-> TRUE]}

Style(format, font, fill, alignment) ==
    [format |-> format, font |-> font, fill |-> fill, alignment |-> alignment]
MCStyles == {Style("0.00", bold, None, None), Style("0.00", Plain, red, None),
             Style(None, bold, red, "wrap"), Style("0%", italic, None, "wrap"),
             Style("0.00", None, red, None), Style(None, Plain, None, None)}
=============================================================================
