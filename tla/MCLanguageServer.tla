--------------------------- MODULE MCLanguageServer ---------------------------
(* Two documents and two handlers beside the worker; one document and every *)
(* kind of handler; three documents and the worker alone.                   *)
EXTENDS LanguageServer, TLC

CONSTANTS a, b, c, k1, k2

MCUris == {a, b}
MCOneUri == {a}
MCThreeUris == {a, b, c}

MCCommands == {k1, k2}
MCNoCommands == {}

MCSymmetry == Permutations(MCCommands)

MCNoKinds == {}
MCStop == {"stop"}
MCStopStart == {"stop", "start"}
MCStopCheck == {"stop", "check"}
MCCheck == {"check"}

MCVersion == {1}
MCVersions == {1, 2}

(* An answer reports nothing, or something about one document.              *)
MCNoReports == {{}}
MCReportsB == {{}, {b}}
MCReportsC == {{}, {c}}
===============================================================================
