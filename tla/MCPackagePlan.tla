--------------------------- MODULE MCPackagePlan ---------------------------
(* Packages to open: a complete one with calcChain and linked media, one   *)
(* without document properties whose calcChain override and relationship   *)
(* dangle, one with a foreign core-properties relationship and calcChain   *)
(* relationships of its own, and two that cannot be opened.                *)
EXTENDS PackagePlan

Office == <<Package, "office", Workbook>>
Catalog == {Office, <<Workbook, "sheet", Sheet>>, <<Workbook, "calc", CalcChain>>}
Props == {<<Package, "core", Core>>, <<Package, "app", App>>}

Package1(parts, overrides, types, links) ==
    [parts |-> parts, overrides |-> overrides, types |-> types, links |-> links]

Complete ==
    Package1(Parts, Parts \ {Media}, TRUE, Catalog \cup Props \cup {<<Sheet, "other", Media>>})
Dangling ==
    Package1({Workbook, Sheet}, {Workbook, Sheet, CalcChain}, TRUE, Catalog)
Foreign ==
    Package1(Parts, Parts \ {Media, CalcChain}, TRUE,
             Catalog \cup {<<Package, "core", Media>>, <<CalcChain, "other", Media>>})
Orphan ==
    Package1({Workbook}, {Workbook}, TRUE, Catalog \cup {<<Sheet, "other", Media>>})
Untyped == Package1({Workbook, Sheet}, {Workbook, Sheet}, FALSE, Catalog)

AnySource == {Complete, Dangling, Foreign, Orphan, Untyped}
=============================================================================
