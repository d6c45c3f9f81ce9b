----------------------------- MODULE LaunchProofs -----------------------------
(***************************************************************************)
(* What holds of servers and bridges starting on socket paths, for every   *)
(* set of worktrees, every scene to start from, and any number of launches *)
(* and kills.                                                              *)
(***************************************************************************)
EXTENDS Launch, ExtensionSettingsProofs, SequenceTheorems, TLAPS

-----------------------------------------------------------------------------
(* The variables have their shapes, what the records hold is left open; and *)
(* whoever is about to remove what is at a path is not about to remove an   *)
(* ordinary file: since the look, only sockets can have come.               *)
IsServer(s) == DOMAIN s = {"at", "path", "command", "found", "child"}

IsBridge(b) == DOMAIN b = {"at", "path", "parent"}

Harmless(s) == s.at = "unlink" /\ s.path \in Paths => node[s.path] # OrdinaryFile

Servers ==
    /\ DOMAIN scene \subseteq Worktrees
    /\ server = [w \in Worktrees |-> server[w]]
    /\ \A w \in Worktrees : IsServer(server[w]) /\ Harmless(server[w])

Elements(seq) == {seq[i] : i \in DOMAIN seq}

Bridges ==
    /\ bridges \in Seq(Elements(bridges))
    /\ \A b \in DOMAIN bridges : IsBridge(bridges[b]) /\ Harmless(bridges[b])

Inv == Servers /\ Bridges

(* A step on one path: it leaves the others alone, and an ordinary file     *)
(* neither comes nor goes.                                                  *)
KeepsFiles ==
    /\ DOMAIN node' = DOMAIN node
    /\ \A p \in DOMAIN node : node'[p] = OrdinaryFile <=> node[p] = OrdinaryFile

LEMMA OwnElements ==
    ASSUME NEW S, NEW s \in Seq(S)
    PROVE  s \in Seq(Elements(s))
BY DEF Elements

LEMMA ReplaceElement ==
    ASSUME NEW S, NEW s \in Seq(S), NEW i \in DOMAIN s, NEW e, NEW t,
           t = [s EXCEPT ![i] = e]
    PROVE  /\ t \in Seq(Elements(t)) /\ DOMAIN t = DOMAIN s
           /\ t[i] = e /\ \A j \in DOMAIN s \ {i} : t[j] = s[j]
<1>1. s \in Seq(S \cup {e})
  BY SeqMonotonic
<1>2. t \in Seq(S \cup {e})
  BY <1>1, ExceptSeq
<1> QED
  BY <1>2, OwnElements

LEMMA InitInv == Init => Inv
<1> SUFFICES ASSUME Init PROVE Inv
  OBVIOUS
<1>1. PICK s \in Scenes :
        /\ scene = s.projects
        /\ server = [w \in Worktrees |-> Closed] /\ bridges = <<>>
  BY DEF Init
<1>2. DOMAIN scene \subseteq Worktrees
  BY <1>1, LaunchAssumption
<1> QED
  BY <1>1, <1>2 DEF Inv, Servers, Bridges, IsServer, Harmless, Closed

-----------------------------------------------------------------------------
(* How a step may change the servers, *)
LEMMA ServersStay ==
    ASSUME Servers, KeepsFiles, UNCHANGED <<scene, server>>
    PROVE  Servers'
BY DEF Servers, Harmless, KeepsFiles, Paths

LEMMA ServerMoves ==
    ASSUME Servers, KeepsFiles, UNCHANGED scene, NEW w \in Worktrees, NEW s,
           server' = [server EXCEPT ![w] = s], IsServer(s), Harmless(s)
    PROVE  Servers'
<1> USE DEF Servers, Harmless, KeepsFiles, Paths
<1>1. server' = [v \in Worktrees |-> server'[v]]
  OBVIOUS
<1>2. ASSUME NEW v \in Worktrees
      PROVE  IsServer(server'[v]) /\ Harmless(server[v])'
  OBVIOUS
<1> QED
  BY <1>1, <1>2

(* and how the bridges. *)
LEMMA BridgesStay ==
    ASSUME Bridges, KeepsFiles, UNCHANGED bridges
    PROVE  Bridges'
BY DEF Bridges, Harmless, KeepsFiles, Paths

LEMMA BridgeMoves ==
    ASSUME Bridges, KeepsFiles, NEW b \in DOMAIN bridges, NEW to,
           bridges' = [bridges EXCEPT ![b].at = to],
           Harmless([bridges[b] EXCEPT !.at = to])
    PROVE  Bridges'
<1> DEFINE new == [bridges[b] EXCEPT !.at = to]
           S   == Elements(bridges)
           t   == bridges'
<1>1. IsBridge(new)
  BY DEF Bridges, IsBridge
<1>2. Harmless(new)
  OBVIOUS
<1>3. bridges \in Seq(S) /\ t = [bridges EXCEPT ![b] = new]
  BY DEF Bridges
<1> HIDE DEF S, t, new
<1>4. t \in Seq(Elements(t)) /\ DOMAIN t = DOMAIN bridges
      /\ t[b] = new /\ \A c \in DOMAIN bridges \ {b} : t[c] = bridges[c]
  BY <1>3, ReplaceElement
<1>5. ASSUME NEW c \in DOMAIN bridges'
      PROVE  IsBridge(bridges'[c]) /\ Harmless(bridges[c])'
  BY <1>1, <1>2, <1>4 DEF t, Bridges, Harmless, KeepsFiles, Paths
<1> QED
  BY <1>4, <1>5 DEF t, Bridges

LEMMA BridgeAdded ==
    ASSUME Bridges, KeepsFiles, NEW p, NEW parent,
           bridges' = Append(bridges, NewBridge(p, parent))
    PROVE  Bridges'
<1> DEFINE new == NewBridge(p, parent)
           S   == Elements(bridges)
           t   == bridges'
<1>1. IsBridge(new) /\ new.at = "exists"
  BY DEF NewBridge, IsBridge
<1>2. bridges \in Seq(S) /\ t = Append(bridges, new)
  BY DEF Bridges
<1> HIDE DEF S, t, new
<1>3. bridges \in Seq(S \cup {new})
  BY <1>2, SeqMonotonic
<1>4. t \in Seq(S \cup {new})
  BY <1>2, <1>3
<1>5. t \in Seq(Elements(t))
  BY <1>4, OwnElements
<1>6. \A c \in DOMAIN t : t[c] = new \/ (c \in DOMAIN bridges /\ t[c] = bridges[c])
  BY <1>2, <1>3
<1>7. ASSUME NEW c \in DOMAIN bridges'
      PROVE  IsBridge(bridges'[c]) /\ Harmless(bridges[c])'
  BY <1>1, <1>6 DEF t, Bridges, Harmless, KeepsFiles, Paths
<1> QED
  BY <1>5, <1>7 DEF t, Bridges

-----------------------------------------------------------------------------
(* Every action changes at most one path, and that one harmlessly.         *)
LEMMA NodeStays == UNCHANGED node => KeepsFiles
BY DEF KeepsFiles

LEMMA NodeChanges ==
    ASSUME NEW p, NEW n, n # OrdinaryFile, node' = [node EXCEPT ![p] = n],
           p \in Paths => node[p] # OrdinaryFile
    PROVE  KeepsFiles
BY DEF KeepsFiles, Paths

LEMMA LaunchServerKeeps ==
    ASSUME Inv, NEW w \in Worktrees, LaunchServer(w)
    PROVE  KeepsFiles /\ Inv'
<1>1. KeepsFiles
  BY NodeStays DEF LaunchServer
<1>2. PICK s : server' = [server EXCEPT ![w] = s] /\ IsServer(s) /\ Harmless(s)
  <2> DEFINE env == LanguageServerCommand(w, scene[w]).env
             s == IF LanguageServerCommand(w, scene[w]).program = "isabelle"
                    THEN [Closed EXCEPT !.at = "native"]
                    ELSE [Closed EXCEPT !.at = "exists",
                                        !.path = ServerPath(env),
                                        !.command = Command(env)]
  <2>1. server' = [server EXCEPT ![w] = s]
    BY DEF LaunchServer
  <2>2. IsServer(s) /\ Harmless(s)
    BY DEF Closed, IsServer, Harmless
  <2> QED BY <2>1, <2>2
<1>3. Servers'
  BY <1>1, <1>2, ServerMoves DEF Inv, LaunchServer
<1>4. Bridges'
  BY <1>1, BridgesStay DEF Inv, LaunchServer
<1> QED BY <1>1, <1>3, <1>4 DEF Inv

(* A server goes on to "to"; if that is to remove, what is there is a socket. *)
LEMMA GoesKeeps ==
    ASSUME Inv, KeepsFiles, UNCHANGED scene, NEW w \in Worktrees, NEW from, NEW to,
           Goes(w, from, to),
           to = "unlink" => node[server[w].path] # OrdinaryFile
    PROVE  Servers'
<1> DEFINE s == [server[w] EXCEPT !.at = to]
<1>1. server' = [server EXCEPT ![w] = s]
  BY DEF Goes
<1>2. IsServer(s) /\ Harmless(s)
  BY DEF Inv, Servers, IsServer, Harmless
<1> HIDE DEF s
<1> QED BY <1>1, <1>2, ServerMoves DEF Inv

LEMMA ServerStartsKeeps ==
    ASSUME Inv, NEW w \in Worktrees, ServerStarts(w)
    PROVE  KeepsFiles /\ Inv'
<1> UNCHANGED scene
  BY DEF ServerStarts
<1>1. CASE ServerUnlinks(w)
  <2>1. KeepsFiles
    <3> DEFINE p == server[w].path
    <3>1. node' = [node EXCEPT ![p] = Nothing] /\ server[w].at = "unlink"
      BY <1>1 DEF ServerUnlinks, Goes
    <3>2. p \in Paths => node[p] # OrdinaryFile
      BY <3>1 DEF Inv, Servers, Harmless
    <3>3. Nothing # OrdinaryFile
      BY DEF Nothing, OrdinaryFile
    <3> HIDE DEF p
    <3> QED BY <3>1, <3>2, <3>3, NodeChanges
  <2>2. PICK to : Goes(w, "unlink", to) /\ to # "unlink"
    BY <1>1 DEF ServerUnlinks
  <2> QED
    BY <1>1, <2>1, <2>2, GoesKeeps, BridgesStay DEF Inv, ServerUnlinks
<1>2. CASE ServerLooks(w) \/ ServerWaits(w) \/ ServerInspects(w)
  <2>1. KeepsFiles
    BY <1>2, NodeStays DEF ServerStarts, ServerLooks, ServerWaits, ServerInspects,
                           ServerUnlinks, Goes
  <2>2. CASE ServerLooks(w) \/ ServerWaits(w)
    <3>1. PICK from, to : Goes(w, from, to) /\ to # "unlink"
      BY <2>2 DEF ServerLooks, ServerWaits
    <3> QED
      BY <2>1, <2>2, <3>1, GoesKeeps, BridgesStay DEF Inv, ServerLooks, ServerWaits
  <2>3. CASE ServerInspects(w)
    <3>1. PICK to : /\ Goes(w, "inspect", to)
                    /\ to = "unlink" => node[server[w].path] # OrdinaryFile
      BY <2>3 DEF ServerInspects, IsSocket
    <3> QED
      BY <2>1, <2>3, <3>1, GoesKeeps, BridgesStay DEF Inv, ServerInspects
  <2> QED BY <1>2, <2>2, <2>3
<1>3. CASE UNCHANGED node /\ ServerProbes(w)
  <2>1. KeepsFiles
    BY <1>3, NodeStays
  <2> DEFINE n == node[server[w].path]
             s == [server[w] EXCEPT
                     !.at = IF Listening(n) THEN "serving" ELSE "inspect",
                     !.found = IF Alive(n) /\ ~Listening(n) THEN Nothing ELSE n]
  <2>2. server' = [server EXCEPT ![w] = s]
    BY <1>3 DEF ServerProbes, Inv, Servers
  <2>3. IsServer(s) /\ Harmless(s)
    <3> DEFINE at == IF Listening(n) THEN "serving" ELSE "inspect"
               found == IF Alive(n) /\ ~Listening(n) THEN Nothing ELSE n
    <3>1. at # "unlink"
      OBVIOUS
    <3>2. s = [server[w] EXCEPT !.at = at, !.found = found] /\ IsServer(server[w])
      BY DEF Inv, Servers
    <3> HIDE DEF at, found, s, n
    <3> QED BY <3>1, <3>2 DEF IsServer, Harmless
  <2> HIDE DEF s
  <2> QED
    BY <1>3, <2>1, <2>2, <2>3, ServerMoves, BridgesStay DEF Inv, ServerProbes
<1>4. CASE UNCHANGED node /\ ServerSpawns(w)
  <2>1. KeepsFiles
    BY <1>4, NodeStays
  <2>2. CASE Goes(w, "spawn", "serving") /\ UNCHANGED bridges
    BY <2>1, <2>2, GoesKeeps, BridgesStay DEF Inv
  <2>3. CASE /\ bridges' = Append(bridges, NewBridge(server[w].command, w))
             /\ server' = [server EXCEPT ![w].at = "wait", ![w].child = Len(bridges) + 1]
    <3> DEFINE s == [server[w] EXCEPT !.at = "wait", !.child = Len(bridges) + 1]
    <3>1. server' = [server EXCEPT ![w] = s]
      BY <2>3 DEF Inv, Servers
    <3>2. IsServer(s) /\ Harmless(s)
      BY DEF Inv, Servers, IsServer, Harmless
    <3> HIDE DEF s
    <3>3. Servers'
      BY <2>1, <3>1, <3>2, ServerMoves DEF Inv
    <3>4. Bridges'
      BY <2>1, <2>3, BridgeAdded DEF Inv
    <3> QED BY <2>1, <3>3, <3>4 DEF Inv
  <2> QED BY <1>4, <2>2, <2>3 DEF ServerSpawns
<1> QED BY <1>1, <1>2, <1>3, <1>4 DEF ServerStarts

LEMMA CloseServerKeeps ==
    ASSUME Inv, NEW w \in Worktrees, CloseServer(w) \/ KillServer(w)
    PROVE  KeepsFiles /\ Inv'
<1>1. KeepsFiles
  BY NodeStays DEF CloseServer, KillServer
<1>2. Servers'
  <2>1. IsServer(Closed) /\ Harmless(Closed)
    BY DEF Closed, IsServer, Harmless
  <2> QED BY <1>1, <2>1, ServerMoves DEF Inv, CloseServer, KillServer
<1>3. Bridges'
  <2>1. CASE UNCHANGED bridges
    BY <1>1, <2>1, BridgesStay DEF Inv
  <2>2. CASE bridges' = Dead(server[w].child)
    <3>1. CASE server[w].child \in DOMAIN bridges
      <4>1. Harmless([bridges[server[w].child] EXCEPT !.at = "dead"])
        BY <3>1 DEF Inv, Bridges, IsBridge, Harmless
      <4> QED BY <1>1, <2>2, <3>1, <4>1, BridgeMoves DEF Dead, Inv
    <3>2. CASE server[w].child \notin DOMAIN bridges
      <4>1. UNCHANGED bridges
        BY <2>2, <3>2 DEF Dead, Inv, Bridges
      <4> QED BY <1>1, <4>1, BridgesStay DEF Inv
    <3> QED BY <3>1, <3>2
  <2> QED BY <2>1, <2>2 DEF CloseServer, KillServer
<1> QED BY <1>1, <1>2, <1>3 DEF Inv

(* A bridge goes on to "to"; if that is to remove, what is there is a socket. *)
LEMMA BridgeGoes ==
    ASSUME Inv, KeepsFiles, UNCHANGED <<scene, server>>, NEW b \in DOMAIN bridges,
           NEW from, NEW to, Bridge(b, from, to),
           to = "unlink" => node[bridges[b].path] # OrdinaryFile
    PROVE  Inv'
<1>1. Harmless([bridges[b] EXCEPT !.at = to])
  BY DEF Inv, Bridges, IsBridge, Harmless
<1> QED
  BY <1>1, BridgeMoves, ServersStay DEF Inv, Bridge

LEMMA BridgeStartsKeeps ==
    ASSUME Inv, NEW b \in DOMAIN bridges, BridgeStarts(b)
    PROVE  KeepsFiles /\ Inv'
<1> DEFINE p == bridges[b].path
<1>0. UNCHANGED <<scene, server>>
  BY DEF BridgeStarts
<1>1. CASE BridgeLooks(b) \/ BridgeInspects(b) \/ BridgeListens(b)
  <2>1. KeepsFiles
    BY <1>1, NodeStays DEF BridgeLooks, BridgeInspects, BridgeListens
  <2>2. PICK from, to : /\ Bridge(b, from, to)
                        /\ to = "unlink" => node[p] # OrdinaryFile
    BY <1>1 DEF BridgeLooks, BridgeInspects, BridgeListens, IsSocket
  <2> QED BY <1>0, <2>1, <2>2, BridgeGoes
<1>2. CASE BridgeUnlinks(b)
  <2>1. /\ node' = [node EXCEPT ![p] = Nothing]
        /\ p \in Paths => node[p] # OrdinaryFile
        /\ Nothing # OrdinaryFile
    BY <1>2 DEF BridgeUnlinks, Bridge, Inv, Bridges, Harmless, Nothing, OrdinaryFile
  <2>2. KeepsFiles
    <3> HIDE DEF p
    <3> QED BY <2>1, NodeChanges
  <2>3. PICK to : Bridge(b, "unlink", to) /\ to # "unlink"
    BY <1>2 DEF BridgeUnlinks
  <2> QED BY <1>0, <2>2, <2>3, BridgeGoes
<1>3. CASE BridgeBinds(b)
  <2>1. PICK to : Bridge(b, "bind", to) /\ to # "unlink"
    BY <1>3 DEF BridgeBinds
  <2>2. KeepsFiles
    <3>1. CASE UNCHANGED node
      BY <3>1, NodeStays
    <3>2. CASE node[p] = Nothing /\ node' = [node EXCEPT ![p] = b]
      <4>1. Nothing # OrdinaryFile /\ b # OrdinaryFile
        BY DEF Inv, Bridges, Nothing, OrdinaryFile
      <4> HIDE DEF p
      <4> QED BY <3>2, <4>1, NodeChanges
    <3> QED BY <1>3, <3>1, <3>2 DEF BridgeBinds
  <2> QED BY <1>0, <2>1, <2>2, BridgeGoes
<1> QED BY <1>1, <1>2, <1>3 DEF BridgeStarts

LEMMA KillBridgeKeeps ==
    ASSUME Inv, NEW b \in DOMAIN bridges, KillBridge(b)
    PROVE  KeepsFiles /\ Inv'
<1>1. KeepsFiles
  BY NodeStays DEF KillBridge
<1>2. Harmless([bridges[b] EXCEPT !.at = "dead"])
  BY DEF Inv, Bridges, IsBridge, Harmless
<1> QED
  BY <1>1, <1>2, BridgeMoves, ServersStay DEF Inv, KillBridge, Dead

LEMMA NextKeeps ==
    ASSUME Inv, [Next]_vars
    PROVE  KeepsFiles /\ Inv'
<1>1. ASSUME NEW w \in DOMAIN scene, LaunchServer(w)
      PROVE  KeepsFiles /\ Inv'
  BY <1>1, LaunchServerKeeps DEF Inv, Servers
<1>2. ASSUME NEW w \in DOMAIN scene, ServerStarts(w)
      PROVE  KeepsFiles /\ Inv'
  BY <1>2, ServerStartsKeeps DEF Inv, Servers
<1>3. ASSUME NEW w \in DOMAIN scene, CloseServer(w) \/ KillServer(w)
      PROVE  KeepsFiles /\ Inv'
  BY <1>3, CloseServerKeeps DEF Inv, Servers
<1>4. CASE StartByHand
  <2>1. KeepsFiles /\ UNCHANGED <<scene, server>>
    BY <1>4, NodeStays DEF StartByHand
  <2> QED BY <1>4, <2>1, BridgeAdded, ServersStay DEF Inv, StartByHand
<1>5. CASE UNCHANGED vars
  BY <1>5, NodeStays, ServersStay, BridgesStay DEF Inv, vars
<1> QED
  BY <1>1, <1>2, <1>3, <1>4, <1>5, BridgeStartsKeeps, KillBridgeKeeps DEF Next, Terminated

-----------------------------------------------------------------------------
(* An ordinary file at a socket's path is never removed or replaced, by     *)
(* whatever number of servers and bridges that look at the path between     *)
(* each other's calls (bridge main.rs 135-150, lsp main.rs 917-1016).       *)
THEOREM OrdinaryFileKeptCorrect == Spec => OrdinaryFileKept
<1>1. Inv /\ [Next]_vars => Inv'
  BY NextKeeps
<1>2. Inv /\ [Next]_vars =>
        [\A p \in Paths : node[p] = OrdinaryFile => node'[p] = OrdinaryFile]_vars
  BY NextKeeps DEF KeepsFiles, Paths
<1> QED
  BY InitInv, <1>1, <1>2, PTL DEF Spec, OrdinaryFileKept

-----------------------------------------------------------------------------
(* Who owns which bridge: a server that has not spawned one yet has none,   *)
(* so that its child, once it has one, is the only bridge it owns.          *)
Owned ==
    /\ DOMAIN kills = {"servers", "bridges"} /\ kills.servers \in Nat
    /\ \A w \in Worktrees : server[w].at \notin {"wait", "serving"} => server[w].child = 0
    /\ \A b \in DOMAIN bridges : bridges[b].parent \in Worktrees \cup {NoValue}
    /\ OwnedBridgeDies

(* A step that starts no bridge and takes no server's child from it.        *)
OwnersStay ==
    /\ UNCHANGED kills.servers /\ DOMAIN kills' = DOMAIN kills
    /\ \A w \in Worktrees : /\ server'[w].child = server[w].child
                            /\ server'[w].at \notin {"wait", "serving"} => server[w].child = 0

BridgesFade ==
    /\ DOMAIN bridges' = DOMAIN bridges
    /\ \A b \in DOMAIN bridges : /\ bridges'[b].parent = bridges[b].parent
                                 /\ bridges'[b].at # "dead" => bridges[b].at # "dead"

LEMMA InitOwned == Init => Owned
BY DEF Init, Owned, OwnedBridgeDies, Closed

LEMMA OwnedStays ==
    ASSUME Owned, OwnersStay, BridgesFade
    PROVE  Owned'
<1>1. OwnedBridgeDies'
  <2> SUFFICES ASSUME kills'.servers = 0, NEW b \in DOMAIN bridges', Alive(b)',
                      bridges'[b].parent # NoValue
               PROVE  server'[bridges'[b].parent].child = b
    BY DEF OwnedBridgeDies
  <2>1. b \in DOMAIN bridges /\ Alive(b) /\ bridges'[b].parent = bridges[b].parent
    BY DEF BridgesFade, Alive
  <2>2. bridges[b].parent \in Worktrees
    BY <2>1 DEF Owned
  <2>3. server[bridges[b].parent].child = b
    BY <2>1 DEF Owned, OwnersStay, OwnedBridgeDies
  <2> QED BY <2>1, <2>2, <2>3 DEF OwnersStay
<1> QED BY <1>1 DEF Owned, OwnersStay, BridgesFade

LEMMA BridgeFades ==
    ASSUME Inv, NEW b \in DOMAIN bridges, NEW to, bridges[b].at # "dead",
           bridges' = [bridges EXCEPT ![b].at = to]
    PROVE  BridgesFade
BY DEF Inv, Bridges, IsBridge, BridgesFade

LEMMA LaunchServerOwned ==
    ASSUME Inv, Owned, NEW w \in Worktrees, LaunchServer(w)
    PROVE  Owned'
<1>1. server[w].child = 0 /\ server'[w].child = 0
  BY DEF Inv, Servers, Owned, LaunchServer, Closed
<1>2. OwnersStay
  BY <1>1 DEF Inv, Servers, Owned, LaunchServer, OwnersStay
<1>3. BridgesFade
  BY DEF BridgesFade, LaunchServer
<1> QED BY <1>2, <1>3, OwnedStays

LEMMA ServerStartsOwned ==
    ASSUME Inv, Owned, NEW w \in Worktrees, ServerStarts(w)
    PROVE  Owned'
<1>1. CASE UNCHANGED bridges
  <2>1. BridgesFade
    BY <1>1 DEF BridgesFade
  <2>2. server'[w].child = server[w].child /\ \A v \in Worktrees \ {w} : server'[v] = server[v]
    <3>1. CASE ServerSpawns(w)
      <4>1. Goes(w, "spawn", "serving")
        <5>1. bridges # Append(bridges, NewBridge(server[w].command, w))
          BY DEF Inv, Bridges
        <5> QED BY <1>1, <3>1, <5>1 DEF ServerSpawns
      <4> QED BY <4>1 DEF Goes, Inv, Servers, IsServer
    <3>2. CASE ~ServerSpawns(w)
      BY <3>2 DEF ServerStarts, ServerLooks, ServerProbes, ServerInspects, ServerUnlinks,
                  ServerWaits, Goes, Inv, Servers, IsServer
    <3> QED BY <3>1, <3>2
  <2>3. server[w].at = "wait" => server'[w].at = "serving"
    BY DEF ServerStarts, ServerLooks, ServerProbes, ServerInspects, ServerUnlinks,
           ServerSpawns, ServerWaits, Goes, Inv, Servers, IsServer
  <2>4. server[w].at # "serving"
    BY DEF ServerStarts, ServerLooks, ServerProbes, ServerInspects, ServerUnlinks,
           ServerSpawns, ServerWaits, Goes
  <2>5. OwnersStay
    BY <2>2, <2>3, <2>4 DEF OwnersStay, Owned, ServerStarts
  <2> QED BY <2>1, <2>5, OwnedStays
<1>2. CASE /\ server[w].at = "spawn"
           /\ bridges' = Append(bridges, NewBridge(server[w].command, w))
           /\ server' = [server EXCEPT ![w].at = "wait", ![w].child = Len(bridges) + 1]
  <2> DEFINE new == Len(bridges) + 1
  <2>1. /\ DOMAIN bridges' = DOMAIN bridges \cup {new} /\ DOMAIN bridges = 1..Len(bridges)
        /\ Len(bridges) \in Nat
        /\ \A b \in DOMAIN bridges : bridges'[b] = bridges[b]
        /\ bridges'[new].parent = w
    BY <1>2 DEF Inv, Bridges, NewBridge
  <2>2. /\ server'[w].at = "wait" /\ server'[w].child = new
        /\ \A v \in Worktrees \ {w} : server'[v] = server[v]
    BY <1>2 DEF Inv, Servers, IsServer
  <2>3. server[w].child = 0
    BY <1>2 DEF Owned
  <2>4. OwnedBridgeDies'
    <3> SUFFICES ASSUME kills'.servers = 0, NEW b \in DOMAIN bridges', Alive(b)',
                        bridges'[b].parent # NoValue
                 PROVE  server'[bridges'[b].parent].child = b
      BY DEF OwnedBridgeDies
    <3>1. CASE b = new
      BY <2>1, <2>2, <3>1
    <3>2. CASE b # new
      <4>1. server[bridges[b].parent].child = b /\ b # 0
        BY <2>1, <3>2 DEF Owned, OwnedBridgeDies, Alive, ServerStarts
      <4>2. bridges[b].parent \in Worktrees \ {w}
        BY <2>1, <2>3, <3>2, <4>1 DEF Owned
      <4> QED BY <2>1, <2>2, <3>2, <4>1, <4>2
    <3> QED BY <3>1, <3>2
  <2> QED
    BY <2>1, <2>2, <2>4 DEF Owned, ServerStarts
<1> QED BY <1>1, <1>2 DEF ServerStarts, ServerLooks, ServerProbes, ServerInspects,
                          ServerUnlinks, ServerSpawns, ServerWaits

LEMMA CloseServerOwned ==
    ASSUME Inv, Owned, NEW w \in Worktrees, CloseServer(w)
    PROVE  Owned'
<1> DEFINE c == server[w].child
<1>1. /\ server'[w].child = 0 /\ \A v \in Worktrees \ {w} : server'[v] = server[v]
      /\ UNCHANGED kills
  BY DEF CloseServer, Closed, Inv, Servers
<1>2. /\ DOMAIN bridges' = DOMAIN bridges
      /\ \A b \in DOMAIN bridges : /\ bridges'[b].parent = bridges[b].parent
                                   /\ b # c => bridges'[b] = bridges[b]
                                   /\ b = c /\ c # 0 => bridges'[b].at = "dead"
  BY DEF CloseServer, Dead, Inv, Bridges, IsBridge
<1>3. OwnedBridgeDies'
  <2> SUFFICES ASSUME kills'.servers = 0, NEW b \in DOMAIN bridges', Alive(b)',
                      bridges'[b].parent # NoValue
               PROVE  server'[bridges'[b].parent].child = b
    BY DEF OwnedBridgeDies
  <2>1. b \in DOMAIN bridges /\ b # 0
    BY <1>2 DEF Inv, Bridges
  <2>2. b # c
    BY <1>2, <2>1 DEF Alive
  <2>3. Alive(b) /\ bridges'[b] = bridges[b]
    BY <1>2, <2>1, <2>2 DEF Alive
  <2>4. server[bridges[b].parent].child = b /\ bridges[b].parent \in Worktrees
    BY <1>1, <2>1, <2>3 DEF Owned, OwnedBridgeDies
  <2> QED BY <1>1, <2>2, <2>3, <2>4
<1> QED BY <1>1, <1>2, <1>3 DEF Owned

(* Once a server has been killed, nothing is claimed any more. *)
LEMMA KillServerOwned ==
    ASSUME Inv, Owned, NEW w \in Worktrees, KillServer(w)
    PROVE  Owned'
<1>1. kills'.servers = kills.servers + 1 /\ DOMAIN kills' = DOMAIN kills
  BY DEF Owned, KillServer
<1>2. server' = [server EXCEPT ![w] = Closed] /\ UNCHANGED bridges
  BY DEF KillServer
<1>3. \A v \in Worktrees : server'[v].at \notin {"wait", "serving"} => server'[v].child = 0
  BY <1>2 DEF Closed, Owned, Inv, Servers
<1> QED BY <1>1, <1>2, <1>3 DEF Owned, OwnedBridgeDies

LEMMA StartByHandOwned ==
    ASSUME Inv, Owned, StartByHand
    PROVE  Owned'
<1>1. PICK p : bridges' = Append(bridges, NewBridge(p, NoValue))
  BY DEF StartByHand
<1>2. /\ DOMAIN bridges' = DOMAIN bridges \cup {Len(bridges) + 1}
      /\ \A b \in DOMAIN bridges : bridges'[b] = bridges[b]
      /\ bridges'[Len(bridges) + 1].parent = NoValue
  BY <1>1 DEF Inv, Bridges, NewBridge
<1> QED BY <1>2 DEF Owned, OwnedBridgeDies, Alive, StartByHand

LEMMA NextOwned ==
    ASSUME Inv, Owned, [Next]_vars
    PROVE  Owned'
<1>1. ASSUME NEW w \in DOMAIN scene,
             LaunchServer(w) \/ ServerStarts(w) \/ CloseServer(w) \/ KillServer(w)
      PROVE  Owned'
  BY <1>1, LaunchServerOwned, ServerStartsOwned, CloseServerOwned, KillServerOwned
     DEF Inv, Servers
<1>2. ASSUME NEW b \in DOMAIN bridges, BridgeStarts(b) \/ KillBridge(b)
      PROVE  Owned'
  <2>1. OwnersStay
    <3>1. UNCHANGED server
      BY <1>2 DEF BridgeStarts, KillBridge
    <3>2. UNCHANGED kills.servers /\ DOMAIN kills' = DOMAIN kills
      BY <1>2 DEF BridgeStarts, KillBridge, Owned
    <3> QED BY <3>1, <3>2 DEF OwnersStay, Owned
  <2>2. PICK to : /\ bridges[b].at # "dead"
                  /\ bridges' = [bridges EXCEPT ![b].at = to]
    BY <1>2 DEF BridgeStarts, BridgeLooks, BridgeInspects, BridgeUnlinks, BridgeBinds,
                BridgeListens, Bridge, KillBridge, Alive, Dead
  <2> QED BY <2>1, <2>2, BridgeFades, OwnedStays
<1>3. CASE UNCHANGED vars
  BY <1>3, OwnedStays DEF vars, OwnersStay, BridgesFade, Owned
<1> QED
  BY <1>1, <1>2, <1>3, StartByHandOwned DEF Next, Terminated

(* As long as no language server has been killed, an autostarted bridge is  *)
(* alive only while the server that started it runs and has it as its child *)
(* (lsp main.rs 932-958, 1062-1067), however often servers are closed and   *)
(* launched again and whatever is killed.                                   *)
THEOREM OwnedBridgeDiesCorrect == Spec => []OwnedBridgeDies
<1>1. Init => Inv /\ Owned
  BY InitInv, InitOwned
<1>2. Inv /\ Owned /\ [Next]_vars => (Inv /\ Owned)'
  BY NextKeeps, NextOwned
<1>3. Inv /\ Owned => OwnedBridgeDies
  BY DEF Owned
<1> QED BY <1>1, <1>2, <1>3, PTL DEF Spec

-----------------------------------------------------------------------------
(* Types, and what a server remembers of its health check: once it has      *)
(* decided against a socket, the bridge it found there is dead.             *)
Marks == {Nothing, OrdinaryFile, DeadSocket}

Runnable == Paths \cup {NoValue, "", Unreadable}

TypedServer(s) ==
    /\ s.at \in ServerAt
    /\ s.path \in Paths \cup {NoValue}
    /\ s.at \notin {"closed", "native"} => s.path \in Paths
    /\ s.command \in Runnable
    /\ s.child \in {0} \cup DOMAIN bridges
    /\ s.found \in Marks \cup DOMAIN bridges
    /\ s.at \in {"inspect", "unlink"} => ~Alive(s.found)

TypedBridge(b) ==
    /\ b.at \in BridgeAt /\ b.path \in Paths /\ b.parent \in Worktrees \cup {NoValue}

TypedNode(n, p) ==
    n \in Marks \/ (n \in DOMAIN bridges /\ bridges[n].path = p)

Settings ==
    \A w \in DOMAIN scene :
        LET env == LanguageServerCommand(w, scene[w]).env IN
          ServerPath(env) \in Paths /\ Command(env) \in Runnable

Counts ==
    /\ launches \in 0..MaxLaunches /\ byHand \subseteq Paths
    /\ kills \in [servers : 0..MaxKills, bridges : 0..MaxKills]

TypedNodes == \A p \in Paths : TypedNode(node[p], p)

TypedServers == \A w \in Worktrees : TypedServer(server[w])

TypedBridges == \A b \in DOMAIN bridges : TypedBridge(bridges[b])

Typed == Settings /\ Counts /\ TypedNodes /\ TypedServers /\ TypedBridges

LEMMA TypedTypeOK == Typed => TypeOK
BY DEF Typed, TypeOK, Counts, TypedNodes, TypedNode, TypedServers, TypedServer,
       TypedBridges, TypedBridge, Marks

LEMMA InitTyped == Init => Typed
<1> SUFFICES ASSUME Init PROVE Typed
  OBVIOUS
<1>1. PICK s \in Scenes :
        /\ scene = s.projects /\ node = s.files /\ byHand = s.byHand
        /\ server = [w \in Worktrees |-> Closed]
        /\ bridges = <<>> /\ kills = [servers |-> 0, bridges |-> 0]
        /\ launches = 0
  BY DEF Init
<1>2. Settings
  BY <1>1, ScenesAssumption DEF Settings, Runnable, Paths
<1>3. Counts
  BY <1>1, LaunchAssumption DEF Counts, Paths
<1>4. \A p \in Paths : TypedNode(node[p], p)
  BY <1>1, LaunchAssumption DEF TypedNode, Marks, Paths
<1>5. TypedServer(Closed)
  BY DEF TypedServer, Closed, ServerAt, Runnable, Marks
<1> QED BY <1>1, <1>2, <1>3, <1>4, <1>5 DEF Typed, TypedNodes, TypedServers, TypedBridges

(* Bridges are only added, stay where they are, and stay dead.              *)
BridgesGrow ==
    /\ DOMAIN node' = DOMAIN node
    /\ DOMAIN bridges = 1..Len(bridges) /\ Len(bridges) \in Nat
    /\ DOMAIN bridges \subseteq DOMAIN bridges'
    /\ \A b \in DOMAIN bridges' : b \in Nat \ {0}
    /\ \A b \in DOMAIN bridges :
         bridges'[b].path = bridges[b].path /\ (bridges[b].at = "dead" => bridges'[b].at = "dead")

LEMMA TypesGrow ==
    ASSUME BridgesGrow
    PROVE  /\ \A s : TypedServer(s) => TypedServer(s)'
           /\ \A n, p : TypedNode(n, p) => TypedNode(n, p)'
<1>1. Paths' = Paths /\ Runnable' = Runnable
  BY DEF BridgesGrow, Paths, Runnable
<1>2. \A n \in Marks \cup DOMAIN bridges : ~Alive(n) => ~Alive(n)'
  BY DEF BridgesGrow, Alive, Marks, Nothing, OrdinaryFile, DeadSocket
<1>3. ASSUME NEW s, TypedServer(s)
      PROVE  TypedServer(s)'
  BY <1>1, <1>2, <1>3 DEF TypedServer, BridgesGrow
<1>4. ASSUME NEW n, NEW p, TypedNode(n, p)
      PROVE  TypedNode(n, p)'
  BY <1>4 DEF TypedNode, BridgesGrow
<1> QED BY <1>3, <1>4

LEMMA BridgesSame ==
    ASSUME Bridges, KeepsFiles, UNCHANGED bridges
    PROVE  BridgesGrow /\ (TypedBridges => TypedBridges')
BY DEF Bridges, KeepsFiles, BridgesGrow, TypedBridges, TypedBridge, Paths

LEMMA BridgeChanges ==
    ASSUME Bridges, KeepsFiles, NEW b \in DOMAIN bridges, NEW to \in BridgeAt,
           bridges[b].at = "dead" => to = "dead", bridges' = [bridges EXCEPT ![b].at = to]
    PROVE  BridgesGrow /\ (TypedBridges => TypedBridges')
<1>1. /\ DOMAIN bridges' = DOMAIN bridges
      /\ \A c \in DOMAIN bridges :
           /\ bridges'[c].path = bridges[c].path /\ bridges'[c].parent = bridges[c].parent
           /\ c # b => bridges'[c] = bridges[c]
      /\ bridges'[b].at = to
  BY DEF Bridges, IsBridge
<1>2. BridgesGrow
  BY <1>1 DEF Bridges, KeepsFiles, BridgesGrow
<1> QED
  BY <1>1, <1>2 DEF KeepsFiles, TypedBridges, TypedBridge, Paths

LEMMA BridgeStarted ==
    ASSUME Bridges, KeepsFiles, NEW p \in Paths, NEW parent \in Worktrees \cup {NoValue},
           bridges' = Append(bridges, NewBridge(p, parent))
    PROVE  /\ BridgesGrow /\ (TypedBridges => TypedBridges')
           /\ Len(bridges) + 1 \in DOMAIN bridges'
<1>1. /\ DOMAIN bridges = 1..Len(bridges) /\ Len(bridges) \in Nat
      /\ DOMAIN bridges' = 1..(Len(bridges) + 1)
      /\ \A c \in DOMAIN bridges : bridges'[c] = bridges[c]
      /\ bridges'[Len(bridges) + 1] = NewBridge(p, parent)
  BY DEF Bridges
<1>2. TypedBridge(NewBridge(p, parent))
  BY DEF TypedBridge, NewBridge, BridgeAt
<1>3. BridgesGrow
  BY <1>1 DEF KeepsFiles, BridgesGrow
<1> QED
  BY <1>1, <1>2, <1>3 DEF KeepsFiles, TypedBridges, TypedBridge, Paths

LEMMA SettingsStay ==
    ASSUME Settings, KeepsFiles, UNCHANGED scene
    PROVE  Settings'
BY DEF Settings, KeepsFiles, Paths, Runnable

LEMMA NodesStay ==
    ASSUME TypedNodes, BridgesGrow, UNCHANGED node
    PROVE  TypedNodes'
BY TypesGrow DEF TypedNodes, Paths

LEMMA NodeRemoved ==
    ASSUME TypedNodes, BridgesGrow, NEW p, node' = [node EXCEPT ![p] = Nothing]
    PROVE  TypedNodes'
<1>1. \A q \in Paths : node'[q] \in {Nothing, node[q]}
  BY DEF Paths
<1> QED
  BY <1>1 DEF TypedNodes, TypedNode, BridgesGrow, Marks, Paths

LEMMA NodeBound ==
    ASSUME TypedNodes, BridgesGrow, NEW b \in DOMAIN bridges,
           node' = [node EXCEPT ![bridges[b].path] = b]
    PROVE  TypedNodes'
<1>1. \A q \in Paths :
        node'[q] = node[q] \/ (node'[q] = b /\ bridges[b].path = q)
  BY DEF Paths
<1> QED
  BY <1>1 DEF TypedNodes, TypedNode, BridgesGrow, Paths

LEMMA ServersSame ==
    ASSUME TypedServers, BridgesGrow, UNCHANGED server
    PROVE  TypedServers'
BY TypesGrow DEF TypedServers

LEMMA ServerChanges ==
    ASSUME Servers, TypedServers, BridgesGrow, NEW w \in Worktrees, NEW s,
           server' = [server EXCEPT ![w] = s], TypedServer(s)
    PROVE  TypedServers'
<1>1. \A v \in Worktrees : TypedServer(server'[v])
  BY DEF Servers, TypedServers
<1>2. ASSUME NEW v \in Worktrees
      PROVE  TypedServer(server[v])'
  <2>1. PICK t : t = server'[v]
    OBVIOUS
  <2>2. TypedServer(t)
    BY <1>1, <2>1
  <2>3. TypedServer(t)'
    BY <2>2, TypesGrow
  <2> QED BY <2>1, <2>3
<1> QED BY <1>2 DEF TypedServers

-----------------------------------------------------------------------------
LEMMA LaunchServerTyped ==
    ASSUME Inv, Typed, KeepsFiles, NEW w \in DOMAIN scene, LaunchServer(w)
    PROVE  Typed'
<1> w \in Worktrees
  BY DEF Inv, Servers
<1>1. BridgesGrow /\ TypedBridges'
  BY BridgesSame DEF Inv, Typed, LaunchServer
<1>2. Settings' /\ TypedNodes'
  BY <1>1, SettingsStay, NodesStay DEF Typed, LaunchServer
<1>3. Counts'
  BY LaunchAssumption DEF Typed, Counts, LaunchServer, Paths
<1>4. TypedServers'
  <2> DEFINE env == LanguageServerCommand(w, scene[w]).env
             program == LanguageServerCommand(w, scene[w]).program
  <2>1. ServerPath(env) \in Paths /\ Command(env) \in Runnable
    BY DEF Typed, Settings
  <2> DEFINE path == ServerPath(env)
             command == Command(env)
             s == IF program = "isabelle"
                    THEN [Closed EXCEPT !.at = "native"]
                    ELSE [Closed EXCEPT !.at = "exists", !.path = path, !.command = command]
  <2>2. server' = [server EXCEPT ![w] = s]
    BY DEF LaunchServer
  <2>3. TypedServer(s)
    <3> HIDE DEF env, program, path, command
    <3> QED BY <2>1 DEF path, command, TypedServer, Closed, ServerAt, Runnable, Marks
  <2> HIDE DEF s
  <2> QED BY <1>1, <2>2, <2>3, ServerChanges DEF Inv, Typed
<1> QED BY <1>1, <1>2, <1>3, <1>4 DEF Typed

(* The counts of a step that counts nothing. *)
LEMMA CountsStay ==
    ASSUME Counts, KeepsFiles, UNCHANGED <<launches, byHand, kills>>
    PROVE  Counts'
BY DEF Counts, KeepsFiles, Paths

LEMMA ServerStartsTyped ==
    ASSUME Inv, Typed, KeepsFiles, NEW w \in Worktrees, ServerStarts(w)
    PROVE  Typed'
<1> DEFINE p == server[w].path
<1>0. Settings' /\ Counts'
  BY SettingsStay, CountsStay DEF Typed, ServerStarts
<1>1. server[w].at \notin {"closed", "native"} /\ p \in Paths
  <2>1. server[w].at \notin {"closed", "native"}
    BY DEF ServerStarts, ServerLooks, ServerProbes, ServerInspects, ServerUnlinks,
           ServerSpawns, ServerWaits, Goes
  <2> QED BY <2>1 DEF Typed, TypedServers, TypedServer
<1>2. TypedServer(server[w]) /\ IsServer(server[w])
  BY DEF Typed, TypedServers, Inv, Servers
<1>3. ASSUME NEW from, NEW to \in ServerAt, Goes(w, from, to), from # "probe",
             to \notin {"closed", "native"},
             to = "unlink" => from = "inspect", to # "inspect", BridgesGrow
      PROVE  TypedServers'
  <2> DEFINE s == [server[w] EXCEPT !.at = to]
  <2>1. server' = [server EXCEPT ![w] = s]
    BY <1>3 DEF Goes
  <2>2. TypedServer(s)
    BY <1>1, <1>2, <1>3 DEF Goes, TypedServer, IsServer
  <2> HIDE DEF s
  <2> QED BY <1>3, <2>1, <2>2, ServerChanges DEF Inv, Typed
<1>4. CASE ServerUnlinks(w)
  <2>1. BridgesGrow /\ TypedBridges'
    BY <1>4, BridgesSame DEF Inv, Typed, ServerUnlinks
  <2>2. TypedNodes'
    BY <1>4, <2>1, NodeRemoved DEF Typed, ServerUnlinks
  <2>3. PICK to \in {"serving", "spawn"} : Goes(w, "unlink", to)
    BY <1>4 DEF ServerUnlinks
  <2>4. TypedServers'
    BY <1>3, <2>1, <2>3 DEF ServerAt
  <2> QED BY <1>0, <2>1, <2>2, <2>4 DEF Typed
<1>5. CASE UNCHANGED node /\ (ServerLooks(w) \/ ServerInspects(w) \/ ServerWaits(w))
  <2>1. BridgesGrow /\ TypedBridges'
    BY <1>5, BridgesSame DEF Inv, Typed, ServerLooks, ServerInspects, ServerWaits
  <2>2. TypedNodes'
    BY <1>5, <2>1, NodesStay DEF Typed
  <2>3. PICK from \in {"exists", "inspect", "wait"},
             to \in {"spawn", "probe", "unlink", "serving"} :
               Goes(w, from, to) /\ (to = "unlink" => from = "inspect")
    BY <1>5 DEF ServerLooks, ServerInspects, ServerWaits
  <2>4. TypedServers'
    BY <1>3, <2>1, <2>3 DEF ServerAt
  <2> QED BY <1>0, <2>1, <2>2, <2>4 DEF Typed
<1>6. CASE UNCHANGED node /\ ServerProbes(w)
  <2>1. BridgesGrow /\ TypedBridges'
    BY <1>6, BridgesSame DEF Inv, Typed, ServerProbes
  <2>2. TypedNodes'
    BY <1>6, <2>1, NodesStay DEF Typed
  <2> DEFINE n == node[p]
             at == IF Listening(n) THEN "serving" ELSE "inspect"
             found == IF Alive(n) /\ ~Listening(n) THEN Nothing ELSE n
             s == [server[w] EXCEPT !.at = at, !.found = found]
  <2>3. server' = [server EXCEPT ![w] = s]
    BY <1>6 DEF ServerProbes, Inv, Servers
  <2>4. at \in {"serving", "inspect"} /\ found \in Marks \cup DOMAIN bridges
    BY <1>1 DEF Typed, TypedNodes, TypedNode, Marks
  <2>5. at = "inspect" => ~Alive(found)
    <3>1. 0 \notin DOMAIN bridges
      BY DEF Inv, Bridges
    <3>2. ~Alive(Nothing)
      BY <3>1 DEF Alive, Nothing
    <3>3. CASE Alive(n) /\ ~Listening(n)
      <4>1. found = Nothing
        BY <3>3
      <4> QED BY ONLY <3>2, <4>1
    <3>4. CASE ~Alive(n)
      <4>1. found = n
        BY <3>4
      <4> QED BY ONLY <3>4, <4>1
    <3>5. CASE Listening(n)
      BY <3>5
    <3> QED BY ONLY <3>3, <3>4, <3>5
  <2> HIDE DEF at, found
  <2>6. TypedServer(s)
    BY <1>1, <1>2, <2>4, <2>5 DEF TypedServer, IsServer, ServerAt
  <2> HIDE DEF s
  <2>7. TypedServers'
    BY <2>1, <2>3, <2>6, ServerChanges DEF Inv, Typed
  <2> QED BY <1>0, <2>1, <2>2, <2>7 DEF Typed
<1>7. CASE UNCHANGED node /\ UNCHANGED bridges /\ Goes(w, "spawn", "serving")
  <2>1. BridgesGrow /\ TypedBridges'
    BY <1>7, BridgesSame DEF Inv, Typed
  <2>2. TypedNodes' /\ TypedServers'
    BY <1>3, <1>7, <2>1, NodesStay DEF Typed, ServerAt
  <2> QED BY <1>0, <2>1, <2>2 DEF Typed
<1>8. CASE /\ UNCHANGED node
           /\ server[w].at = "spawn" /\ server[w].command \notin {NoValue, "", Unreadable}
           /\ bridges' = Append(bridges, NewBridge(server[w].command, w))
           /\ server' = [server EXCEPT ![w].at = "wait", ![w].child = Len(bridges) + 1]
  <2> DEFINE new == Len(bridges) + 1
  <2>1. server[w].command \in Paths
    BY <1>2, <1>8 DEF TypedServer, Runnable
  <2>2. BridgesGrow /\ TypedBridges' /\ new \in DOMAIN bridges'
    BY <1>8, <2>1, BridgeStarted DEF Inv, Typed
  <2>3. TypedNodes'
    BY <1>8, <2>2, NodesStay DEF Typed
  <2>4. ASSUME NEW v \in Worktrees \ {w}
        PROVE  TypedServer(server[v])'
    <3>1. PICK t : t = server[v]
      OBVIOUS
    <3>2. server'[v] = t
      BY <1>8, <3>1 DEF Inv, Servers
    <3>3. TypedServer(t)'
      BY <2>2, <3>1, TypesGrow DEF Typed, TypedServers
    <3> QED BY <3>2, <3>3
  <2>5. TypedServer(server[w])'
    <3>1. PICK t : t = server[w]
      OBVIOUS
    <3>2. TypedServer(t)' /\ IsServer(t)
      BY <1>2, <2>2, <3>1, TypesGrow
    <3>3. server'[w] = [t EXCEPT !.at = "wait", !.child = new]
      BY <1>8, <3>1 DEF Inv, Servers
    <3>4. t.path \in Paths'
      BY <1>1, <2>2, <3>1 DEF BridgesGrow, Paths
    <3> HIDE DEF new
    <3> QED BY <2>2, <3>2, <3>3, <3>4 DEF TypedServer, IsServer, ServerAt
  <2> QED BY <1>0, <2>2, <2>3, <2>4, <2>5 DEF Typed, TypedServers
<1> QED BY <1>4, <1>5, <1>6, <1>7, <1>8 DEF ServerStarts, ServerSpawns

LEMMA CloseServerTyped ==
    ASSUME Inv, Typed, KeepsFiles, NEW w \in Worktrees, CloseServer(w) \/ KillServer(w)
    PROVE  Typed'
<1>1. Settings'
  BY SettingsStay DEF Typed, CloseServer, KillServer
<1>2. Counts'
  BY LaunchAssumption DEF Typed, Counts, CloseServer, KillServer, KeepsFiles, Paths
<1>3. BridgesGrow /\ TypedBridges'
  <2> DEFINE c == server[w].child
  <2>1. CASE UNCHANGED bridges
    BY <2>1, BridgesSame DEF Inv, Typed
  <2>2. CASE c \in DOMAIN bridges /\ bridges' = Dead(c)
    <3> HIDE DEF c
    <3> QED BY <2>2, BridgeChanges DEF Dead, BridgeAt, Inv, Typed
  <2> QED BY <2>1, <2>2 DEF CloseServer, KillServer, Typed, TypedServers, TypedServer
<1>4. TypedNodes'
  BY <1>3, NodesStay DEF Typed, CloseServer, KillServer
<1>5. TypedServers'
  <2>1. TypedServer(Closed)
    BY DEF TypedServer, Closed, ServerAt, Runnable, Marks
  <2> QED BY <1>3, <2>1, ServerChanges DEF Inv, Typed, CloseServer, KillServer
<1> QED BY <1>1, <1>2, <1>3, <1>4, <1>5 DEF Typed

LEMMA BridgeTyped ==
    ASSUME Inv, Typed, KeepsFiles, NEW b \in DOMAIN bridges, BridgeStarts(b) \/ KillBridge(b)
    PROVE  Typed'
<1>1. PICK to \in BridgeAt :
        bridges[b].at # "dead" /\ bridges' = [bridges EXCEPT ![b].at = to]
  BY DEF BridgeStarts, BridgeLooks, BridgeInspects, BridgeUnlinks, BridgeBinds,
         BridgeListens, Bridge, KillBridge, Alive, Dead, BridgeAt
<1>2. BridgesGrow /\ TypedBridges'
  BY <1>1, BridgeChanges DEF Inv, Typed
<1>3. Settings' /\ TypedServers'
  BY <1>2, SettingsStay, ServersSame DEF Typed, BridgeStarts, KillBridge
<1>4. Counts'
  BY LaunchAssumption DEF Typed, Counts, BridgeStarts, KillBridge, KeepsFiles, Paths
<1>5. TypedNodes'
  <2>1. CASE UNCHANGED node
    BY <1>2, <2>1, NodesStay DEF Typed
  <2>2. CASE node' = [node EXCEPT ![bridges[b].path] = Nothing]
    BY <1>2, <2>2, NodeRemoved DEF Typed
  <2>3. CASE node' = [node EXCEPT ![bridges[b].path] = b]
    BY <1>2, <2>3, NodeBound DEF Typed
  <2> QED BY <2>1, <2>2, <2>3 DEF BridgeStarts, BridgeLooks, BridgeInspects, BridgeUnlinks,
                                  BridgeBinds, BridgeListens, KillBridge
<1> QED BY <1>2, <1>3, <1>4, <1>5 DEF Typed

LEMMA NextTyped ==
    ASSUME Inv, Typed, [Next]_vars
    PROVE  Typed'
<1> KeepsFiles
  BY NextKeeps
<1>1. ASSUME NEW w \in DOMAIN scene,
             LaunchServer(w) \/ ServerStarts(w) \/ CloseServer(w) \/ KillServer(w)
      PROVE  Typed'
  BY <1>1, LaunchServerTyped, ServerStartsTyped, CloseServerTyped DEF Inv, Servers
<1>2. CASE StartByHand
  <2>1. PICK p \in byHand : bridges' = Append(bridges, NewBridge(p, NoValue))
    BY <1>2 DEF StartByHand
  <2>2. BridgesGrow /\ TypedBridges'
    BY <2>1, BridgeStarted DEF Inv, Typed, Counts
  <2>3. Counts'
    BY <1>2 DEF StartByHand, Typed, Counts, KeepsFiles, Paths
  <2> QED BY <1>2, <2>2, <2>3, SettingsStay, NodesStay, ServersSame DEF Typed, StartByHand
<1>3. CASE UNCHANGED vars
  <2>1. BridgesGrow /\ TypedBridges'
    BY <1>3, BridgesSame DEF Inv, Typed, vars
  <2> QED
    BY <1>3, <2>1, SettingsStay, CountsStay, NodesStay, ServersSame DEF Typed, vars
<1> QED
  BY <1>1, <1>2, <1>3, BridgeTyped DEF Next, Terminated

(* Every variable keeps its type; a path holds a socket only of a bridge    *)
(* that was told to listen there.                                           *)
THEOREM TypeCorrect == Spec => []TypeOK
<1>1. Init => Inv /\ Typed
  BY InitInv, InitTyped
<1>2. Inv /\ Typed /\ [Next]_vars => (Inv /\ Typed)'
  BY NextKeeps, NextTyped
<1> QED BY <1>1, <1>2, TypedTypeOK, PTL DEF Spec

(* However many servers share a path: a living bridge whose socket a server *)
(* removes was not listening when that server had probed the path, its      *)
(* socket came or began to listen afterwards (lsp main.rs 917-930, 976-998).*)
THEOREM RemovalNeedsRaceCorrect == Spec => RemovalNeedsRace
<1>1. Init => Inv /\ Typed
  BY InitInv, InitTyped
<1>2. Inv /\ Typed /\ [Next]_vars => (Inv /\ Typed)'
  BY NextKeeps, NextTyped
<1>3. Typed => [\A w \in Worktrees :
                   (server[w].at = "unlink" /\ server'[w].at = "spawn")
                      => ~Alive(node[server[w].path])
                           \/ node[server[w].path] # server[w].found]_vars
  BY DEF Typed, TypedServers, TypedServer
<1> QED BY <1>1, <1>2, <1>3, PTL DEF Spec, RemovalNeedsRace

-----------------------------------------------------------------------------
(* The autostart command of the environment the extension computes is the  *)
(* shell's: neither the overrides nor what bridge mode adds can name it.   *)
LEMMA CommandIsShells ==
    ASSUME NEW w, NEW project
    PROVE  Command(LanguageServerCommand(w, project).env) = Command(project.shell)
<1>1. ASSUME NEW base, NEW over, CommandVar \notin DOMAIN over
      PROVE  Command(Upsert(base, over)) = Command(base)
  BY <1>1 DEF Command, Upsert
<1>2. ASSUME NEW env, NEW key, NEW value, key # CommandVar
      PROVE  Command(EnsureEnvVar(env, key, value)) = Command(env)
  BY <1>1, <1>2 DEF EnsureEnvVar
<1> DEFINE env == MergeEnvironment(project.shell, project.overrides)
<1>3. Command(env) = Command(project.shell)
  BY <1>1 DEF MergeEnvironment
<1>4. SocketVar # CommandVar /\ SessionVar # CommandVar
  BY DEF SocketVar, SessionVar, CommandVar
<1> HIDE DEF env
<1> QED BY <1>2, <1>3, <1>4 DEF LanguageServerCommand, Environment, env

(* What a server is about to run, and what has been run, is that command.  *)
ShellCommands ==
    /\ \A w \in Worktrees :
         server[w].at = "closed" \/ server[w].command = NoValue
           \/ server[w].command = Command(scene[w].shell)
    /\ AutostartFromShell

LEMMA InitShell == Init => ShellCommands
BY DEF Init, Closed, ShellCommands, AutostartFromShell

LEMMA ServersShell ==
    ASSUME Inv, ShellCommands, NEW w \in Worktrees,
           LaunchServer(w) \/ ServerStarts(w) \/ CloseServer(w) \/ KillServer(w)
    PROVE  \/ server'[w].at = "closed" \/ server'[w].command = NoValue
           \/ server'[w].command = Command(scene[w].shell)
<1>1. CASE LaunchServer(w)
  <2> DEFINE env == LanguageServerCommand(w, scene[w]).env
             program == LanguageServerCommand(w, scene[w]).program
             path == ServerPath(env)
             command == Command(env)
  <2>1. command = Command(scene[w].shell)
    BY CommandIsShells
  <2>2. server'[w] = IF program = "isabelle"
                       THEN [Closed EXCEPT !.at = "native"]
                       ELSE [Closed EXCEPT !.at = "exists", !.path = path, !.command = command]
    BY <1>1 DEF LaunchServer, Inv, Servers
  <2> HIDE DEF env, program, path, command
  <2> QED BY <2>1, <2>2 DEF Closed
<1>2. CASE ServerStarts(w)
  <2> DEFINE Stays == server'[w].command = server[w].command /\ server[w].at # "closed"
  <2>1. ASSUME NEW from, NEW to, Goes(w, from, to), from # "closed"
        PROVE  Stays
    BY <2>1 DEF Goes, Inv, Servers, IsServer
  <2>2. ASSUME ServerProbes(w) PROVE Stays
    <3>1. PICK at, found : /\ server' = [server EXCEPT ![w].at = at, ![w].found = found]
                           /\ server[w].at = "probe"
      BY <2>2 DEF ServerProbes
    <3> QED BY <3>1 DEF Inv, Servers, IsServer
  <2>3. ASSUME ServerSpawns(w), ~ \E to : Goes(w, "spawn", to) PROVE Stays
    <3>1. PICK at, child : /\ server' = [server EXCEPT ![w].at = at, ![w].child = child]
                           /\ server[w].at = "spawn"
      BY <2>3 DEF ServerSpawns
    <3> QED BY <3>1 DEF Inv, Servers, IsServer
  <2>4. ASSUME ServerLooks(w) \/ ServerInspects(w) \/ ServerUnlinks(w) \/ ServerWaits(w)
                 \/ \E to : Goes(w, "spawn", to)
        PROVE  Stays
    <3>1. PICK from, to : Goes(w, from, to) /\ from # "closed"
      BY <2>4 DEF ServerLooks, ServerInspects, ServerUnlinks, ServerWaits
    <3> QED BY <2>1, <3>1
  <2>5. Stays
    BY <1>2, <2>2, <2>3, <2>4 DEF ServerStarts
  <2> QED BY <2>5 DEF ShellCommands
<1>3. CASE CloseServer(w) \/ KillServer(w)
  BY <1>3 DEF CloseServer, KillServer, Closed, Inv, Servers
<1> QED BY <1>1, <1>2, <1>3

(* What a step does to the bridges: one goes on, and those that have bound *)
(* their path keep it or die; or one is added, by hand or by a server.     *)
Bound == {"listen", "listening", "dead"}

BridgesGoOn ==
    /\ DOMAIN bridges' = DOMAIN bridges
    /\ \A b \in DOMAIN bridges :
         /\ bridges'[b].parent = bridges[b].parent /\ bridges'[b].path = bridges[b].path
         /\ bridges[b].at \in Bound => bridges'[b].at \in Bound

Spawns(p, parent) ==
    /\ bridges' = Append(bridges, NewBridge(p, parent))
    /\ parent = NoValue
         \/ /\ parent \in DOMAIN scene
            /\ server[parent].at = "spawn" /\ p = server[parent].command /\ p # NoValue

LEMMA BridgesMove ==
    ASSUME Inv, [Next]_vars
    PROVE  BridgesGoOn \/ \E p, parent : Spawns(p, parent)
<1>1. UNCHANGED bridges => BridgesGoOn
  BY DEF BridgesGoOn
<1>2. ASSUME NEW b, NEW to, bridges' = [bridges EXCEPT ![b].at = to],
             (b \in DOMAIN bridges /\ bridges[b].at \in Bound) => to \in Bound
      PROVE  BridgesGoOn
  BY <1>2 DEF Inv, Bridges, IsBridge, BridgesGoOn
<1>3. ASSUME NEW w \in DOMAIN scene, LaunchServer(w) \/ ServerStarts(w) \/ KillServer(w)
      PROVE  UNCHANGED bridges \/ \E p, parent : Spawns(p, parent)
  BY <1>3 DEF LaunchServer, ServerStarts, KillServer, ServerLooks, ServerProbes,
              ServerInspects, ServerUnlinks, ServerSpawns, ServerWaits, Spawns
<1>4. ASSUME NEW w \in DOMAIN scene, CloseServer(w)
      PROVE  BridgesGoOn
  <2>1. \A c : bridges' = Dead(c) => BridgesGoOn
    BY <1>2 DEF Bound, Dead
  <2> QED BY <1>1, <1>4, <2>1 DEF CloseServer
<1>5. ASSUME NEW b \in DOMAIN bridges, BridgeStarts(b) \/ KillBridge(b)
      PROVE  BridgesGoOn
  BY <1>2, <1>5 DEF BridgeStarts, KillBridge, BridgeLooks, BridgeInspects, BridgeUnlinks,
                    BridgeBinds, BridgeListens, Bridge, Dead, Bound
<1>6. CASE StartByHand
  BY <1>6 DEF StartByHand, Spawns
<1>7. CASE Terminated \/ UNCHANGED vars
  BY <1>1, <1>7 DEF Terminated, vars
<1> QED BY <1>1, <1>3, <1>4, <1>5, <1>6, <1>7 DEF Next

LEMMA BridgeAppended ==
    ASSUME Inv, NEW p, NEW parent, Spawns(p, parent)
    PROVE  /\ DOMAIN bridges' = DOMAIN bridges \cup {Len(bridges) + 1}
           /\ Len(bridges) + 1 \in Nat \ {0} /\ Len(bridges) + 1 \notin DOMAIN bridges
           /\ \A b \in DOMAIN bridges : bridges'[b] = bridges[b]
           /\ bridges'[Len(bridges) + 1] = NewBridge(p, parent)
BY DEF Inv, Bridges, Spawns

(* Bridges keep path and parent, and a new one has the shell's command. *)
LEMMA BridgesShell ==
    ASSUME Inv, ShellCommands, [Next]_vars
    PROVE  \A b \in DOMAIN bridges' :
              \/ bridges'[b].parent = NoValue
              \/ bridges'[b].path = Command(scene[bridges'[b].parent].shell)
<1>1. CASE BridgesGoOn
  BY <1>1 DEF BridgesGoOn, ShellCommands, AutostartFromShell
<1>2. ASSUME NEW p, NEW parent, Spawns(p, parent)
      PROVE  \A b \in DOMAIN bridges' :
                \/ bridges'[b].parent = NoValue
                \/ bridges'[b].path = Command(scene[bridges'[b].parent].shell)
  <2>1. parent = NoValue \/ p = Command(scene[parent].shell)
    BY <1>2 DEF Spawns, ShellCommands, Inv, Servers
  <2>2. NewBridge(p, parent).parent = parent /\ NewBridge(p, parent).path = p
    BY DEF NewBridge
  <2> QED BY <1>2, <2>1, <2>2, BridgeAppended DEF ShellCommands, AutostartFromShell
<1> QED BY <1>1, <1>2, BridgesMove

LEMMA NextShell ==
    ASSUME Inv, ShellCommands, [Next]_vars
    PROVE  ShellCommands'
<1>1. UNCHANGED scene
  BY DEF Next, vars, LaunchServer, ServerStarts, CloseServer, KillServer, BridgeStarts,
         KillBridge, StartByHand, Terminated
<1>2. ASSUME NEW w \in Worktrees
      PROVE  \/ server'[w].at = "closed" \/ server'[w].command = NoValue
             \/ server'[w].command = Command(scene[w].shell)
  <2>1. CASE server'[w] = server[w]
    BY <2>1 DEF ShellCommands
  <2>2. CASE LaunchServer(w) \/ ServerStarts(w) \/ CloseServer(w) \/ KillServer(w)
    BY <2>2, ServersShell
  <2>3. ASSUME NEW v \in DOMAIN scene, v # w,
               LaunchServer(v) \/ ServerStarts(v) \/ CloseServer(v) \/ KillServer(v)
        PROVE  server'[w] = server[w]
    BY <2>3 DEF LaunchServer, ServerStarts, CloseServer, KillServer, ServerLooks,
                ServerProbes, ServerInspects, ServerUnlinks, ServerSpawns, ServerWaits,
                Goes, Inv, Servers
  <2> QED
    BY <2>1, <2>2, <2>3 DEF Next, vars, BridgeStarts, KillBridge, StartByHand, Terminated
<1>3. AutostartFromShell'
  BY <1>1, BridgesShell DEF AutostartFromShell
<1> QED BY <1>1, <1>2, <1>3 DEF ShellCommands

(* A bridge that was not started by hand runs the command of the shell's    *)
(* environment of the worktree it was started for: settings cannot inject   *)
(* one (extension lib.rs 373-428, lsp main.rs 932-958), whatever they hold. *)
THEOREM AutostartFromShellCorrect == Spec => []AutostartFromShell
<1>1. Init => Inv /\ ShellCommands
  BY InitInv, InitShell
<1>2. Inv /\ ShellCommands /\ [Next]_vars => (Inv /\ ShellCommands)'
  BY NextKeeps, NextShell
<1>3. ShellCommands => AutostartFromShell
  BY DEF ShellCommands
<1> QED BY <1>1, <1>2, <1>3, PTL DEF Spec

-----------------------------------------------------------------------------
(* Which worktree a running server and an autostarted bridge belong to, and *)
(* that a bridge whose socket is there has bound it.  Where a path has a    *)
(* single user, every living bridge on it is then the child of one server.  *)
HasServer(w) == w \in DOMAIN scene /\ CommandPath(scene[w]) # "isabelle"

Using(s, w) == s.at \notin {"closed", "native"} => HasServer(w) /\ s.path = ServerPath(Env(w))

ServersUse == \A w \in Worktrees : Using(server[w], w)

ParentsServe ==
    \A b \in DOMAIN bridges : bridges[b].parent # NoValue => HasServer(bridges[b].parent)

Binders ==
    \A p \in Paths : node[p] \in DOMAIN bridges => bridges[node[p]].at \in Bound

Sharing == ServersUse /\ ParentsServe /\ Binders

LEMMA InitSharing == Init => Sharing
<1> SUFFICES ASSUME Init PROVE Sharing
  OBVIOUS
<1>1. server = [w \in Worktrees |-> Closed] /\ bridges = <<>>
  BY DEF Init
<1> QED BY <1>1 DEF Closed, Sharing, ServersUse, Using, ParentsServe, Binders

LEMMA SceneStays ==
    ASSUME [Next]_vars
    PROVE  UNCHANGED scene
BY DEF Next, vars, LaunchServer, ServerStarts, CloseServer, KillServer, BridgeStarts,
       KillBridge, StartByHand, Terminated

(* A server starts up on the path and with the command it was given. *)
LEMMA ServerStartsOnPath ==
    ASSUME Inv, NEW w \in Worktrees, ServerStarts(w)
    PROVE  server'[w].path = server[w].path /\ server[w].at \notin {"closed", "native"}
<1>1. CASE ServerProbes(w)
  <2>1. PICK at, found : /\ server' = [server EXCEPT ![w].at = at, ![w].found = found]
                         /\ server[w].at = "probe"
    BY <1>1 DEF ServerProbes
  <2> QED BY <2>1 DEF Inv, Servers, IsServer
<1>2. ASSUME NEW from, NEW to, Goes(w, from, to), from \notin {"closed", "native"}
      PROVE  server'[w].path = server[w].path /\ server[w].at \notin {"closed", "native"}
  BY <1>2 DEF Goes, Inv, Servers, IsServer
<1>3. CASE ServerLooks(w) \/ ServerInspects(w) \/ ServerUnlinks(w) \/ ServerWaits(w)
  <2>1. PICK from, to : Goes(w, from, to) /\ from \notin {"closed", "native"}
    BY <1>3 DEF ServerLooks, ServerInspects, ServerUnlinks, ServerWaits
  <2> QED BY <1>2, <2>1
<1>4. CASE ServerSpawns(w)
  <2>1. CASE Goes(w, "spawn", "serving")
    BY <1>2, <2>1
  <2>2. CASE ~Goes(w, "spawn", "serving")
    <3>1. PICK child : /\ server' = [server EXCEPT ![w].at = "wait", ![w].child = child]
                       /\ server[w].at = "spawn"
      BY <1>4, <2>2 DEF ServerSpawns
    <3> QED BY <3>1 DEF Inv, Servers, IsServer
  <2> QED BY <2>1, <2>2
<1> QED BY <1>1, <1>3, <1>4 DEF ServerStarts

LEMMA NextServersUse ==
    ASSUME Inv, ServersUse, [Next]_vars
    PROVE  ServersUse'
<1>1. UNCHANGED scene
  BY SceneStays
<1>2. ASSUME NEW w \in DOMAIN scene, LaunchServer(w)
      PROVE  Using(server'[w], w)
  <2> DEFINE path == ServerPath(Env(w))
             command == Command(Env(w))
  <2>1. server'[w] = IF CommandPath(scene[w]) = "isabelle"
                       THEN [Closed EXCEPT !.at = "native"]
                       ELSE [Closed EXCEPT !.at = "exists", !.path = path, !.command = command]
    BY <1>2 DEF LaunchServer, LanguageServerCommand, Env, Inv, Servers
  <2>2. path = ServerPath(Env(w))
    OBVIOUS
  <2> HIDE DEF path, command
  <2> QED BY <2>1, <2>2 DEF Closed, Using, HasServer
<1>3. ASSUME NEW w \in DOMAIN scene, ServerStarts(w)
      PROVE  Using(server'[w], w)
  BY <1>3, ServerStartsOnPath DEF ServersUse, Using, Inv, Servers
<1>4. ASSUME NEW w \in DOMAIN scene, CloseServer(w) \/ KillServer(w)
      PROVE  Using(server'[w], w)
  BY <1>4 DEF CloseServer, KillServer, Closed, Using, Inv, Servers
<1>5. ASSUME NEW v \in DOMAIN scene,
             LaunchServer(v) \/ ServerStarts(v) \/ CloseServer(v) \/ KillServer(v)
      PROVE  \A w \in Worktrees \ {v} : server'[w] = server[w]
  BY <1>5 DEF LaunchServer, ServerStarts, CloseServer, KillServer, ServerLooks,
              ServerProbes, ServerInspects, ServerUnlinks, ServerSpawns, ServerWaits,
              Goes, Inv, Servers
<1>6. \A w \in Worktrees : Using(server'[w], w)
  <2>1. CASE UNCHANGED server
    BY <2>1 DEF ServersUse
  <2> QED
    BY <1>2, <1>3, <1>4, <1>5, <2>1
       DEF Next, vars, BridgeStarts, KillBridge, StartByHand, Terminated, ServersUse
<1> QED BY <1>1, <1>6 DEF ServersUse, Using, HasServer, Env

LEMMA NextParentsServe ==
    ASSUME Inv, ServersUse, ParentsServe, [Next]_vars
    PROVE  ParentsServe'
<1>1. UNCHANGED scene
  BY SceneStays
<1>2. \A w : HasServer(w)' <=> HasServer(w)
  BY <1>1 DEF HasServer
<1>3. CASE BridgesGoOn
  BY <1>2, <1>3 DEF BridgesGoOn, ParentsServe
<1>4. ASSUME NEW p, NEW parent, Spawns(p, parent)
      PROVE  ParentsServe'
  <2>1. parent = NoValue \/ HasServer(parent)
    BY <1>4 DEF Spawns, ServersUse, Using, Inv, Servers
  <2>2. NewBridge(p, parent).parent = parent
    BY DEF NewBridge
  <2> QED BY <1>2, <1>4, <2>1, <2>2, BridgeAppended DEF ParentsServe
<1> QED BY <1>3, <1>4, BridgesMove

(* What a step does to a path. *)
Removed(p) ==
    \/ \E w \in DOMAIN scene : server[w].at = "unlink" /\ server[w].path = p
    \/ \E b \in DOMAIN bridges : bridges[b].at = "unlink" /\ bridges[b].path = p

LEMMA NodeMoves ==
    ASSUME Inv, [Next]_vars, NEW p \in Paths
    PROVE  \/ node'[p] = node[p]
           \/ node'[p] = Nothing /\ Removed(p)
           \/ /\ node[p] = Nothing
              /\ node'[p] \in DOMAIN bridges /\ bridges'[node'[p]].at = "listen"
<1>1. CASE UNCHANGED node
  BY <1>1
<1>2. ASSUME NEW w \in DOMAIN scene, ServerUnlinks(w)
      PROVE  node'[p] = node[p] \/ (node'[p] = Nothing /\ Removed(p))
  <2>1. server[w].at = "unlink" /\ node' = [node EXCEPT ![server[w].path] = Nothing]
    BY <1>2 DEF ServerUnlinks, Goes
  <2> QED BY <2>1 DEF Removed, Paths
<1>3. ASSUME NEW b \in DOMAIN bridges, BridgeUnlinks(b)
      PROVE  node'[p] = node[p] \/ (node'[p] = Nothing /\ Removed(p))
  <2>1. bridges[b].at = "unlink" /\ node' = [node EXCEPT ![bridges[b].path] = Nothing]
    BY <1>3 DEF BridgeUnlinks, Bridge
  <2> QED BY <2>1 DEF Removed, Paths
<1>4. ASSUME NEW b \in DOMAIN bridges, BridgeBinds(b)
      PROVE  \/ node'[p] = node[p]
             \/ /\ node[p] = Nothing
                /\ node'[p] \in DOMAIN bridges /\ bridges'[node'[p]].at = "listen"
  <2>1. CASE node[bridges[b].path] # Nothing
    BY <1>4, <2>1 DEF BridgeBinds
  <2>2. CASE node[bridges[b].path] = Nothing
    <3>1. /\ bridges' = [bridges EXCEPT ![b].at = "listen"]
          /\ node' = [node EXCEPT ![bridges[b].path] = b]
      BY <1>4, <2>2 DEF BridgeBinds, Bridge
    <3>2. bridges'[b].at = "listen"
      BY <3>1 DEF Inv, Bridges, IsBridge
    <3> QED BY <2>2, <3>1, <3>2 DEF Paths
  <2> QED BY <2>1, <2>2
<1>5. ASSUME NEW w \in DOMAIN scene,
             LaunchServer(w) \/ ServerStarts(w) \/ CloseServer(w) \/ KillServer(w)
      PROVE  UNCHANGED node \/ ServerUnlinks(w)
  BY <1>5 DEF LaunchServer, ServerStarts, CloseServer, KillServer
<1>6. ASSUME NEW b \in DOMAIN bridges, BridgeStarts(b) \/ KillBridge(b)
      PROVE  UNCHANGED node \/ BridgeUnlinks(b) \/ BridgeBinds(b)
  BY <1>6 DEF BridgeStarts, KillBridge, BridgeLooks, BridgeInspects, BridgeListens
<1>7. CASE StartByHand \/ Terminated \/ UNCHANGED vars
  BY <1>7 DEF StartByHand, Terminated, vars
<1> QED BY <1>1, <1>2, <1>3, <1>4, <1>5, <1>6, <1>7 DEF Next

LEMMA NextBinders ==
    ASSUME Inv, Typed, Binders, [Next]_vars
    PROVE  Binders'
<1>1. Paths' = Paths
  BY NextKeeps DEF KeepsFiles, Paths
<1>2. ASSUME NEW p \in Paths, node'[p] = node[p], node'[p] \in DOMAIN bridges'
      PROVE  bridges'[node'[p]].at \in Bound
  <2>1. CASE node[p] \in DOMAIN bridges
    <3>1. CASE BridgesGoOn
      BY <1>2, <2>1, <3>1 DEF Binders, BridgesGoOn
    <3>2. ASSUME NEW q, NEW parent, Spawns(q, parent)
          PROVE  bridges'[node'[p]].at \in Bound
      BY <1>2, <2>1, <3>2, BridgeAppended DEF Binders
    <3> QED BY <3>1, <3>2, BridgesMove
  <2>2. CASE node[p] \in Marks
    <3>1. \A b \in DOMAIN bridges' : b \in Nat \ {0}
      BY NextKeeps DEF Inv, Bridges
    <3> QED BY <1>2, <2>2, <3>1 DEF Marks, Nothing, OrdinaryFile, DeadSocket
  <2> QED BY <2>1, <2>2 DEF Typed, TypedNodes, TypedNode
<1>3. ASSUME NEW p \in Paths, node'[p] = Nothing
      PROVE  node'[p] \notin DOMAIN bridges'
  <2>1. \A b \in DOMAIN bridges' : b \in Nat \ {0}
    BY NextKeeps DEF Inv, Bridges
  <2> QED BY <1>3, <2>1 DEF Nothing
<1> QED BY <1>1, <1>2, <1>3, NodeMoves DEF Binders, Bound

LEMMA NextSharing ==
    ASSUME Inv, Typed, Sharing, [Next]_vars
    PROVE  Sharing'
BY NextServersUse, NextParentsServe, NextBinders DEF Sharing

(* On a path with one user all living bridges are the same: each is the one *)
(* child of the one server.                                                 *)
LEMMA AloneOwns ==
    ASSUME Owned, ShellCommands, Sharing, NEW p, Alone(p),
           NEW b \in DOMAIN bridges, Alive(b), bridges[b].path = p
    PROVE  /\ bridges[b].parent \in Users(p)
           /\ server[bridges[b].parent].child = b
<1>1. bridges[b].parent # NoValue
  BY DEF Alone
<1>2. HasServer(bridges[b].parent)
  BY <1>1 DEF Sharing, ParentsServe
<1>3. p = Command(Env(bridges[b].parent))
  BY <1>1, CommandIsShells DEF ShellCommands, AutostartFromShell, Env
<1>4. bridges[b].parent \in Users(p)
  BY <1>2, <1>3 DEF HasServer, Users
<1>5. server[bridges[b].parent].child = b
  BY <1>1 DEF Owned, OwnedBridgeDies, Alone
<1> QED BY <1>4, <1>5

LEMMA StepKeepsSocket ==
    ASSUME Inv, Owned, Typed, ShellCommands, Sharing, [Next]_vars,
           NEW p \in Paths, Alone(p), Alive(node[p])
    PROVE  node'[p] = node[p]
<1> DEFINE b == node[p]
<1>1. b \in DOMAIN bridges /\ bridges[b].at # "dead" /\ b \in Nat \ {0}
  BY DEF Alive, Inv, Bridges
<1>2. bridges[b].path = p
  BY <1>1 DEF Typed, TypedNodes, TypedNode, Marks, Nothing, OrdinaryFile, DeadSocket
<1>3. bridges[b].at \in Bound
  BY <1>1 DEF Sharing, Binders
<1>4. bridges[b].parent \in Users(p) /\ server[bridges[b].parent].child = b
  BY <1>1, <1>2, AloneOwns
<1>5. ASSUME NEW c \in DOMAIN bridges, bridges[c].at = "unlink", bridges[c].path = p
      PROVE  FALSE
  <2>1. bridges[c].parent \in Users(p) /\ server[bridges[c].parent].child = c
    BY <1>5, AloneOwns DEF Alive
  <2>2. bridges[c].parent = bridges[b].parent
    BY <1>4, <2>1 DEF Alone
  <2>3. c = b
    BY <1>4, <2>1, <2>2
  <2> QED BY <1>3, <1>5, <2>3 DEF Bound
<1>6. ASSUME NEW w \in DOMAIN scene, server[w].at = "unlink", server[w].path = p
      PROVE  FALSE
  <2>1. w \in Users(p)
    BY <1>6 DEF Users, Sharing, ServersUse, Using, HasServer, Inv, Servers
  <2>2. w = bridges[b].parent
    BY <1>4, <2>1 DEF Alone
  <2>3. server[w].child = 0
    BY <1>6 DEF Owned, Inv, Servers
  <2> QED BY <1>1, <1>4, <2>2, <2>3
<1>7. ~Removed(p)
  BY <1>5, <1>6 DEF Removed
<1> QED BY <1>1, <1>7, NodeMoves DEF Nothing

(* A worktree that has its socket path to itself keeps the socket of every  *)
(* living bridge, whatever starts, ends or is killed on other paths and     *)
(* however often its own server is relaunched: whoever is about to remove   *)
(* the file has no living bridge there to take it from (lsp main.rs         *)
(* 917-998, bridge main.rs 135-150).                                        *)
THEOREM LiveSocketKeptCorrect == Spec => LiveSocketKept
<1>1. Init => Inv /\ Owned /\ Typed /\ ShellCommands /\ Sharing
  BY InitInv, InitOwned, InitTyped, InitShell, InitSharing
<1>2. /\ Inv /\ Owned /\ Typed /\ ShellCommands /\ Sharing
      /\ [Next]_vars
      => (Inv /\ Owned /\ Typed /\ ShellCommands /\ Sharing)'
  BY NextKeeps, NextOwned, NextTyped, NextShell, NextSharing
<1>3. /\ Inv /\ Owned /\ Typed /\ ShellCommands /\ Sharing
      /\ [Next]_vars
      => [\A p \in Paths : Alone(p) /\ Alive(node[p]) => node'[p] = node[p]]_vars
  BY StepKeepsSocket
<1> QED BY <1>1, <1>2, <1>3, PTL DEF Spec, LiveSocketKept

-----------------------------------------------------------------------------
(* The scene is one of those to start from: its projects are made of words. *)
SceneWords ==
    /\ NoValue \notin STRING
    /\ \A w \in DOMAIN scene : WellFormed(scene[w])

LEMMA ArgsFollowReadme ==
    ASSUME SceneWords
    PROVE  NativeArgsFollowReadme
<1> SUFFICES ASSUME NEW w \in DOMAIN scene, NEW project, project = scene[w],
                    NEW args, args = LanguageServerCommand(w, project).arguments,
                    Mode(project) = "native", project.arguments = NoValue
             PROVE  /\ /\ project.logic = NoValue /\ NoOtherLogic(project)
                       /\ \A text \in RootTexts(project) : Plain(text)
                       => Logics(args) = ReadmeLogic(project)
                    /\ HasSessionRoot(project) /\ ListedOnce(project)
                       => Cardinality({i \in DOMAIN args : args[i] = project.path}) = 1
  BY DEF NativeArgsFollowReadme
<1>1. args = NativeArgs(project)
  BY DEF LanguageServerCommand, CommandArgs
<1>2. WellFormed(project) /\ NoValue \notin STRING
  BY DEF SceneWords
<1>3. ASSUME project.logic = NoValue, NoOtherLogic(project),
             \A text \in RootTexts(project) : Plain(text)
      PROVE  Logics(args) = ReadmeLogic(project)
  BY <1>1, <1>2, <1>3, LogicFollowsReadme
<1>4. ASSUME HasSessionRoot(project), ListedOnce(project)
      PROVE  Cardinality({i \in DOMAIN args : args[i] = project.path}) = 1
  BY <1>1, <1>2, <1>4, WorktreeIsNamedOnce
<1> QED BY <1>3, <1>4

(* README.md 331-338: however the native server is started, it is given the *)
(* logic that the README's rules select from what Isabelle reads in the     *)
(* worktree's ROOT files, where their headings begin a line and are spaced, *)
(* and is told of the worktree exactly once (native_default_args and        *)
(* auto_logic_from_root, zed-extension/src/lib.rs 133-371).                 *)
THEOREM NativeArgsFollowReadmeCorrect == Spec => []NativeArgsFollowReadme
<1>1. Init => SceneWords
  BY WordsAssumption DEF Init, SceneWords
<1>2. SceneWords /\ [Next]_vars => SceneWords'
  BY SceneStays DEF SceneWords
<1>3. SceneWords => NativeArgsFollowReadme
  BY ArgsFollowReadme
<1> QED BY <1>1, <1>2, <1>3, PTL DEF Spec
===============================================================================
