------------------------------- MODULE MCLaunch -------------------------------
(* Bridge scenes: one or two worktrees with sockets of their own or one     *)
(* that they share.  Native scenes: one worktree with every ROOT file of    *)
(* two of the lines below, or of three of the most telling ones.            *)
EXTENDS Launch

MCWorktrees == {"1", "2"}

Own(w) == DefaultBridgeSocket(w)

MCPaths == {DefaultSocket, Own("1"), Own("2")}

Unset == [v \in {} |-> ""]
Runs(path) == CommandVar :> path

Bare == [mode |-> NoValue, socket |-> NoValue, session |-> NoValue, logic |-> NoValue,
         noBuild |-> FALSE, dirs |-> <<>>, extra |-> <<>>, program |-> NoValue,
         arguments |-> NoValue, overrides |-> Unset, shell |-> Unset, path |-> "/work",
         root |-> NoValue, roots |-> NoValue, others |-> [d \in {"sub", "lib"} |-> NoValue]]

BridgeMode == [Bare EXCEPT !.mode = "bridge"]

(* Every worktree shares the socket named in the settings, and the command. *)
Shared == [BridgeMode EXCEPT !.socket = DefaultSocket, !.shell = Runs(DefaultSocket)]

OneWorktree ==
    {[BridgeMode EXCEPT !.shell = Runs(c)] :
        c \in {Own("1"), DefaultSocket, "", Unreadable}}
    \cup {[BridgeMode EXCEPT !.overrides = Runs(Own("1"))],
          [BridgeMode EXCEPT !.overrides = Runs(Own("2")) @@ (SocketVar :> Own("1")),
                             !.shell = Runs(Own("1"))],
          [BridgeMode EXCEPT !.socket = Own("2"), !.arguments = <<"-v">>,
                             !.shell = Runs(Own("1")) @@ (SocketVar :> Own("1"))],
          [Bare EXCEPT !.program = "isabelle-zed-lsp", !.shell = Runs(DefaultSocket)]}

At(p, n) == [q \in MCPaths |-> IF q = p THEN n ELSE Nothing]

BridgeScenes ==
    {[projects |-> "1" :> x, files |-> At(p, n), byHand |-> {}] :
        x \in OneWorktree, p \in {Own("1"), DefaultSocket},
        n \in {Nothing, OrdinaryFile, DeadSocket}}
    \cup {[projects |-> [w \in MCWorktrees |-> Shared], files |-> At(DefaultSocket, n),
           byHand |-> {}] : n \in {Nothing, DeadSocket}}
    \cup {[projects |-> "1" :> Shared, files |-> At(DefaultSocket, n),
           byHand |-> {DefaultSocket}] : n \in {OrdinaryFile, DeadSocket}}

Session(name, parent) == <<<<"session">>, <<name>>, <<"=">>, <<parent>>, <<"+">>>>

(* Isabelle reads the second as it reads the first; the extension does not. *)
Tight(name, parent) == <<<<"session">>, <<name, "=", parent>>, <<"+">>>>

Lines == {Session("A", "HOL"), Session("B", "HOL"), Session("A", "B"), Tight("A", "HOL"),
          <<<<"theories">>, <<"A">>>>, <<<<"session">>, <<"C">>>>, <<<<"=">>, <<"HOL">>>>,
          <<<<"<comment">>>>, <<<<"comment>">>>>,
          <<<<"<comment">>, <<"session">>, <<"C">>, <<"comment>">>>>}

(* A heading, and what may stand around one. *)
Around == {Session("A", "HOL"), Session("B", "HOL"), <<<<"theories">>, <<"A", "=", "B">>>>,
           <<<<"<comment", "A">>>>, <<<<"A">>, <<"comment>">>>>}

Texts == {NoValue} \cup BoundedSeq(Lines, 2) \cup [1..3 -> Around]

Elsewhere ==
    {<<NoValue, NoValue, NoValue>>,
     <<<<"#", "sub", "">>, <<Session("B", "HOL")>>, <<Session("A", "HOL")>>>>,
     <<<<"sub", "lib">>, <<Session("A", "HOL")>>, <<Session("A", "HOL"), Session("D", "B")>>>>,
     <<<<"lib">>, NoValue, NoValue>>}

NativeScenes ==
    {[projects |-> "1" :> [Bare EXCEPT !.root = text, !.roots = e[1], !.dirs = dirs,
                                       !.others = [sub |-> e[2], lib |-> e[3]]],
      files |-> At(DefaultSocket, Nothing), byHand |-> {}] :
        text \in Texts, e \in Elsewhere, dirs \in {<<>>, <<"/work">>}}

MCScenes == BridgeScenes \cup NativeScenes
===============================================================================
