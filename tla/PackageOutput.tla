--------------------------- MODULE PackageOutput ---------------------------
(***************************************************************************)
(* What a sequence of save_as calls promises about one output path, read   *)
(* off the commit of src/src/package_editor.cpp: whatever goes wrong, the  *)
(* package last put under the path is never lost before the next one is    *)
(* complete, a call that fails has replaced nothing, and a call that       *)
(* returns has replaced it by the package it was asked to write.           *)
(***************************************************************************)
EXTENDS Naturals

CONSTANTS Complete(_, _),  \* Complete(c, n): c is what the n-th call was to write
          Packages         \* everything a file may hold

VARIABLES call,      \* "idle", "running" (nothing replaced yet), "replaced"
          saves,     \* calls begun so far
          outcome,   \* how the last call ended
          content    \* the package to be found under the path or beside it

vars == <<call, saves, outcome, content>>

Init == /\ call = "idle"
        /\ saves = 0
        /\ outcome = "none"
        /\ content \in Packages

\* A call begins.
Begin == /\ call = "idle"
         /\ call' = "running"
         /\ saves' = saves + 1
         /\ UNCHANGED <<outcome, content>>

\* The old package gives way to the complete new one, in one step.
Replace == /\ call = "running"
           /\ call' = "replaced"
           /\ content' \in Packages
           /\ Complete(content', saves)
           /\ UNCHANGED <<saves, outcome>>

\* The call returns, and only if it has replaced the package.
Return == /\ call = "replaced"
          /\ call' = "idle"
          /\ outcome' = "saved"
          /\ UNCHANGED <<saves, content>>

\* The call throws, and only if it has not.
Throw == /\ call = "running"
         /\ call' = "idle"
         /\ outcome' = "failed"
         /\ UNCHANGED <<saves, content>>

\* The process ends during the call; either package may be there.
Die == /\ call # "idle"
       /\ call' = "idle"
       /\ outcome' = "crashed"
       /\ UNCHANGED <<saves, content>>

Next == Begin \/ Replace \/ Return \/ Throw \/ Die

Spec == Init /\ [][Next]_vars
=============================================================================
