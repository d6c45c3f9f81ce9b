--------------------------- MODULE MCBridgeSession ---------------------------
(* Two documents, one of them with two versions.                             *)
EXTENDS BridgeSession

CONSTANTS a, b

MCUris == {a, b}
MCVersions == {1, 2}

Line(types, uris, versions) == [type: types, uri: uris, version: versions]

(* Pushes that replace each other, one of another document, a check. *)
MCPushes ==
    Line({"push"}, {a}, {1, 2}) \cup Line({"push"}, {b}, {1})
    \cup Line({"check"}, {a}, {1})

(* One push, sent often enough to close the circle around it. *)
MCPush == Line({"push"}, {a}, {1})

MCMarkup == Line({"markup"}, {a}, {1})
=============================================================================
