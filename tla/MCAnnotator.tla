------------------------------ MODULE MCAnnotator ------------------------------
(* Notifications for TLC: an update of the firmware, whose second message ends *)
(* one region and would begin the next, and a scan with another tag.           *)
EXTENDS Annotator, TLC

CONSTANTS h1, h2, Download, Update, Updated, Scan

MCHandlers == {h1, h2}
MCNotes == {Download, Update, Updated, Scan}
MCStartsOf == [n \in MCNotes |-> CASE n = Update -> <<Download>>
                                   [] n = Updated -> <<Update>>
                                   [] OTHER -> <<>>]
MCTagOf == [n \in MCNotes |-> IF n = Scan THEN "scan" ELSE "firmware"]
Symmetry == Permutations(MCHandlers)
===============================================================================
