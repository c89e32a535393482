--------------------------- MODULE MCPackageSave ---------------------------
(* Instances of PackageSave for TLC: one entry of each kind, each with the
   three outcomes of a change behind the writer's back. *)
EXTENDS PackageSave

ThreeEntries == {"sheet", "styles", "patched"}
ThreeKinds == [e \in ThreeEntries |->
    CASE e = "sheet" -> "checked" [] e = "styles" -> "extracted" [] OTHER -> "unchecked"]
TwoEntries == {"styles", "patched"}
TwoKinds == [e \in TwoEntries |-> IF e = "styles" THEN "extracted" ELSE "unchecked"]

\* A failing last flush of the stored backend is not reported.
NoFlush == {"inspect", "write", "rename", "restore", "remove", "crash"}
Survived == {"inspect", "write", "flush", "rename"}
=============================================================================
