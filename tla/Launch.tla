-------------------------------- MODULE Launch --------------------------------
(***************************************************************************)
(* Starting up: the Zed extension computes a command for each worktree,    *)
(* the language server it starts brings up a bridge on its socket          *)
(* (autostart_bridge_if_needed, isabelle-lsp/src/main.rs), and every       *)
(* bridge takes over the path it is told to listen on (run_socket_server,  *)
(* bridge/src/main.rs).  Servers and bridges share nothing but the file    *)
(* system, and look at it one call at a time: a path that was examined may *)
(* be another file when it is removed or bound.                            *)
(*                                                                         *)
(* An autostart command is modelled by the path its --socket argument      *)
(* names; "" is a blank command and Unreadable one that does not split     *)
(* into words.  Bridges are numbered as they are started, and a socket is  *)
(* known by the bridge that bound it.  A connection to a Unix socket is    *)
(* made or refused at once, so the 200 ms limit of the probe is left out.  *)
(***************************************************************************)
EXTENDS ExtensionSettings

CONSTANTS
    Worktrees,      \* worktree ids, as strings
    Scenes,         \* what to start from: [projects, files, byHand]
    Unreadable,     \* a command line with an unbalanced quote
    MaxLaunches,    \* bound: starts of a server
    MaxKills        \* bound: servers, and as many bridges, killed from outside

DefaultSocket == "/tmp/isabelle.sock"

(* What may be at a path, besides the socket of bridge 1, 2, ... *)
Nothing      == 0
OrdinaryFile == -1
DeadSocket   == -2      \* left behind by a bridge of an earlier boot

ASSUME LaunchAssumption ==
    /\ MaxLaunches \in Nat /\ MaxKills \in Nat
    /\ \A s \in Scenes : /\ DOMAIN s.projects \subseteq Worktrees
                         /\ \A p \in DOMAIN s.files :
                                s.files[p] \in {Nothing, OrdinaryFile, DeadSocket}
                         /\ s.byHand \subseteq DOMAIN s.files

VARIABLES
    scene,      \* the project of each open worktree; it never changes
    node,       \* what is at each path
    server,     \* the language server of each worktree
    bridges,    \* every bridge process ever started
    launches,   \* counts against MaxLaunches
    byHand,     \* paths the user may still start a bridge on
    kills       \* counts against MaxKills

vars == <<scene, node, server, bridges, launches, byHand, kills>>

Paths == DOMAIN node

Closed == [at |-> "closed", path |-> NoValue, command |-> NoValue,
           found |-> Nothing, child |-> 0]

Init ==
    \E s \in Scenes :
        /\ scene = s.projects /\ node = s.files /\ byHand = s.byHand
        /\ server = [w \in Worktrees |-> Closed]
        /\ bridges = <<>> /\ kills = [servers |-> 0, bridges |-> 0]
        /\ launches = 0

-----------------------------------------------------------------------------
(* Bridge processes.                                                       *)

NewBridge(path, parent) == [at |-> "exists", path |-> path, parent |-> parent]

Alive(b) == b \in DOMAIN bridges /\ bridges[b].at # "dead"

Listening(b) == Alive(b) /\ bridges[b].at = "listening"

Bridge(b, from, to) ==
    /\ bridges[b].at = from
    /\ bridges' = [bridges EXCEPT ![b].at = to]

(* A process of which all that matters is gone; its socket stays. *)
Dead(b) == [bridges EXCEPT ![b].at = "dead"]

IsSocket(n) == n \notin {Nothing, OrdinaryFile}

(* socket_path.exists() *)
BridgeLooks(b) ==
    /\ Bridge(b, "exists", IF node[bridges[b].path] = Nothing THEN "bind" ELSE "inspect")
    /\ UNCHANGED node

(* Variant: whatever is at the path has to go. *)
BridgeInspectsNothing(b) ==
    /\ Bridge(b, "inspect", IF node[bridges[b].path] = Nothing THEN "dead" ELSE "unlink")
    /\ UNCHANGED node

(* Only a socket is removed; anything else, or nothing by now, is an error. *)
BridgeInspects(b) ==
    /\ Bridge(b, "inspect", IF IsSocket(node[bridges[b].path]) THEN "unlink" ELSE "dead")
    /\ UNCHANGED node

BridgeUnlinks(b) ==
    LET p == bridges[b].path IN
      /\ Bridge(b, "unlink", IF node[p] = Nothing THEN "dead" ELSE "bind")
      /\ node' = [node EXCEPT ![p] = Nothing]

(* UnixListener::bind fails if there is a file by now; the socket is there *)
(* before it accepts connections.                                          *)
BridgeBinds(b) ==
    LET p == bridges[b].path IN
      IF node[p] = Nothing
        THEN Bridge(b, "bind", "listen") /\ node' = [node EXCEPT ![p] = b]
        ELSE Bridge(b, "bind", "dead") /\ UNCHANGED node

BridgeListens(b) == Bridge(b, "listen", "listening") /\ UNCHANGED node

BridgeStarts(b) ==
    /\ BridgeLooks(b) \/ BridgeInspects(b) \/ BridgeUnlinks(b) \/ BridgeBinds(b)
         \/ BridgeListens(b)
    /\ UNCHANGED <<scene, server, launches, byHand, kills>>

(* `bridge --socket <path>` in a terminal. *)
StartByHand ==
    /\ \E p \in byHand : bridges' = Append(bridges, NewBridge(p, NoValue))
                         /\ byHand' = byHand \ {p}
    /\ UNCHANGED <<scene, node, server, launches, kills>>

-----------------------------------------------------------------------------
(* The language server of a worktree.                                      *)

ServerPath(env) == IF SocketVar \in DOMAIN env THEN env[SocketVar] ELSE DefaultSocket

Command(env) == IF CommandVar \in DOMAIN env THEN env[CommandVar] ELSE NoValue

(* A scene has every path that a server or a command of it uses. *)
ASSUME ScenesAssumption ==
    \A s \in Scenes : \A w \in DOMAIN s.projects :
        LET env == LanguageServerCommand(w, s.projects[w]).env IN
          /\ ServerPath(env) \in DOMAIN s.files
          /\ Command(env) \in DOMAIN s.files \cup {NoValue, "", Unreadable}

(* NoValue is none of the words in settings and files. *)
ASSUME WordsAssumption ==
    /\ NoValue \notin STRING
    /\ \A s \in Scenes : \A w \in DOMAIN s.projects : WellFormed(s.projects[w])

Goes(w, from, to) ==
    /\ server[w].at = from
    /\ server' = [server EXCEPT ![w].at = to]

(* Zed starts the command: our server, or Isabelle's own. *)
LaunchServer(w) ==
    LET command == LanguageServerCommand(w, scene[w]) IN
      /\ server[w].at = "closed" /\ launches < MaxLaunches
      /\ launches' = launches + 1
      /\ server' = [server EXCEPT ![w] =
             IF command.program = "isabelle"
               THEN [Closed EXCEPT !.at = "native"]
               ELSE [Closed EXCEPT !.at = "exists",
                                   !.path = ServerPath(command.env),
                                   !.command = Command(command.env)]]
      /\ UNCHANGED <<scene, node, bridges, byHand, kills>>

(* socket_path.exists() *)
ServerLooks(w) ==
    /\ Goes(w, "exists", IF node[server[w].path] = Nothing THEN "spawn" ELSE "probe")
    /\ UNCHANGED bridges

(* Variant: a socket that is there is taken for a stale one. *)
ServerProbesNothing(w) ==
    /\ server[w].at = "probe"
    /\ server' = [server EXCEPT ![w].at = "inspect", ![w].found = node[server[w].path]]
    /\ UNCHANGED bridges

(* socket_is_healthy.  What was found is kept for the properties: nothing, *)
(* if the socket was bound and would have been accepting in a moment.      *)
ServerProbes(w) ==
    LET n == node[server[w].path] IN
      /\ server[w].at = "probe"
      /\ server' = [server EXCEPT
             ![w].at = IF Listening(n) THEN "serving" ELSE "inspect",
             ![w].found = IF Alive(n) /\ ~Listening(n) THEN Nothing ELSE n]
      /\ UNCHANGED bridges

(* Variant: whatever is at the path has to go. *)
ServerInspectsNothing(w) ==
    /\ Goes(w, "inspect", IF node[server[w].path] = Nothing THEN "serving" ELSE "unlink")
    /\ UNCHANGED bridges

(* remove_stale_socket: its metadata, then the removal.  An error ends the *)
(* autostart.                                                              *)
ServerInspects(w) ==
    /\ Goes(w, "inspect", IF IsSocket(node[server[w].path]) THEN "unlink" ELSE "serving")
    /\ UNCHANGED bridges

ServerUnlinks(w) ==
    /\ Goes(w, "unlink", IF node[server[w].path] = Nothing THEN "serving" ELSE "spawn")
    /\ node' = [node EXCEPT ![server[w].path] = Nothing]
    /\ UNCHANGED bridges

(* Variant: the command is run as it is. *)
ServerSpawnsAny(w) ==
    \/ Goes(w, "spawn", "serving") /\ UNCHANGED bridges
    \/ /\ server[w].at = "spawn" /\ server[w].command # NoValue
       /\ bridges' = Append(bridges, NewBridge(server[w].command, w))
       /\ server' = [server EXCEPT ![w].at = "wait", ![w].child = Len(bridges) + 1]

(* No command, or none that can be run, and the server serves without; so  *)
(* it does when the spawn fails.                                           *)
ServerSpawns(w) ==
    \/ Goes(w, "spawn", "serving") /\ UNCHANGED bridges
    \/ /\ server[w].at = "spawn" /\ server[w].command \notin {NoValue, "", Unreadable}
       /\ bridges' = Append(bridges, NewBridge(server[w].command, w))
       /\ server' = [server EXCEPT ![w].at = "wait", ![w].child = Len(bridges) + 1]

(* wait_for_socket: the path exists, or the time is up. *)
ServerWaits(w) == Goes(w, "wait", "serving") /\ UNCHANGED bridges

ServerStarts(w) ==
    /\ \/ /\ \/ ServerLooks(w) \/ ServerProbes(w) \/ ServerInspects(w)
             \/ ServerSpawns(w) \/ ServerWaits(w)
          /\ UNCHANGED node
       \/ ServerUnlinks(w)
    /\ UNCHANGED <<scene, launches, byHand, kills>>

(* Variant: the child is left to itself. *)
CloseServerOnly(w) ==
    /\ server[w].at \in {"serving", "native"}
    /\ server' = [server EXCEPT ![w] = Closed]
    /\ UNCHANGED <<scene, node, bridges, launches, byHand, kills>>

(* The editor closes its side: serve() returns, the child is killed.       *)
CloseServer(w) ==
    /\ server[w].at \in {"serving", "native"}
    /\ server' = [server EXCEPT ![w] = Closed]
    /\ bridges' = IF server[w].child = 0 THEN bridges ELSE Dead(server[w].child)
    /\ UNCHANGED <<scene, node, launches, byHand, kills>>

-----------------------------------------------------------------------------
(* A server killed at any point leaves its child running. *)
KillServer(w) ==
    /\ kills.servers < MaxKills /\ kills' = [kills EXCEPT !.servers = @ + 1]
    /\ server[w].at # "closed"
    /\ server' = [server EXCEPT ![w] = Closed]
    /\ UNCHANGED <<scene, node, bridges, launches, byHand>>

KillBridge(b) ==
    /\ kills.bridges < MaxKills /\ kills' = [kills EXCEPT !.bridges = @ + 1]
    /\ Alive(b) /\ bridges' = Dead(b)
    /\ UNCHANGED <<scene, node, server, launches, byHand>>

(* Nobody has to start anything. *)
Quiet == \A b \in DOMAIN bridges : bridges[b].at \in {"listening", "dead"}

Terminated ==
    /\ \A w \in Worktrees : server[w].at \in {"closed", "serving", "native"}
    /\ Quiet /\ UNCHANGED vars

Next ==
    \/ \E w \in DOMAIN scene :
         LaunchServer(w) \/ ServerStarts(w) \/ CloseServer(w) \/ KillServer(w)
    \/ \E b \in DOMAIN bridges : BridgeStarts(b) \/ KillBridge(b)
    \/ StartByHand \/ Terminated

Spec == Init /\ [][Next]_vars

(* Fairness: a process that is starting up goes on; nobody has to start,   *)
(* close or kill one.                                                      *)
FairSpec ==
    /\ Spec
    /\ \A w \in Worktrees : WF_vars(ServerStarts(w))
    /\ WF_vars(\E b \in DOMAIN bridges : BridgeStarts(b))

-----------------------------------------------------------------------------
(* Properties.                                                             *)

ServerAt == {"closed", "exists", "probe", "inspect", "unlink", "spawn", "wait",
             "serving", "native"}
BridgeAt == {"exists", "inspect", "unlink", "bind", "listen", "listening", "dead"}

(* Every variable has its type; a path holds a socket only of a bridge that *)
(* was told to listen there.                                                *)
TypeOK ==
    /\ \A p \in Paths :
         \/ node[p] \in {Nothing, OrdinaryFile, DeadSocket}
         \/ node[p] \in DOMAIN bridges /\ bridges[node[p]].path = p
    /\ \A w \in Worktrees :
         /\ server[w].at \in ServerAt
         /\ server[w].path \in Paths \cup {NoValue}
         /\ server[w].child \in {0} \cup DOMAIN bridges
         /\ server[w].found \in {Nothing, OrdinaryFile, DeadSocket} \cup DOMAIN bridges
    /\ \A b \in DOMAIN bridges : /\ bridges[b].at \in BridgeAt
                                 /\ bridges[b].path \in Paths
                                 /\ bridges[b].parent \in Worktrees \cup {NoValue}
    /\ launches \in 0..MaxLaunches
    /\ byHand \subseteq Paths
    /\ kills \in [servers : 0..MaxKills, bridges : 0..MaxKills]

Env(w) == LanguageServerCommand(w, scene[w]).env

(* The worktrees whose servers use path p, or whose command does. *)
Users(p) ==
    {w \in DOMAIN scene : /\ CommandPath(scene[w]) # "isabelle"
                          /\ p \in {ServerPath(Env(w)), Command(Env(w))}}

(* One worktree has the path to itself, and its server was not killed. *)
Alone(p) ==
    /\ \A v, w \in Users(p) : v = w
    /\ kills.servers = 0
    /\ p \notin byHand
    /\ \A b \in DOMAIN bridges : bridges[b].path = p => bridges[b].parent # NoValue

(* CHANGELOG 0.2.3, "bridge socket startup now refuses to delete            *)
(* pre-existing non-socket paths", and the same for autostart (lsp main.rs  *)
(* 993-1016): whoever starts in whatever order, an ordinary file stays.     *)
OrdinaryFileKept ==
    [][\A p \in Paths : node[p] = OrdinaryFile => node'[p] = OrdinaryFile]_vars

(* A worktree that has its socket path to itself never loses a living       *)
(* bridge's socket to a start-up: not to a relaunch of its server, nor to a *)
(* bridge that comes up late (lsp main.rs 917-930, bridge main.rs 135-150). *)
LiveSocketKept ==
    [][\A p \in Paths : Alone(p) /\ Alive(node[p]) => node'[p] = node[p]]_vars

(* When servers share a path, the health check still excludes all but one   *)
(* way to lose a living bridge's socket to autostart: the socket that is    *)
(* removed came, or began to listen, after the server had looked.           *)
RemovalNeedsRace ==
    [][\A w \in Worktrees :
         (server[w].at = "unlink" /\ server'[w].at = "spawn")
             => ~Alive(node[server[w].path]) \/ node[server[w].path] # server[w].found]_vars

(* main() kills the bridge it has started when it ends (lsp main.rs         *)
(* 1064-1067): unless a server was killed, an autostarted bridge runs only  *)
(* as long as the server that started it.                                   *)
OwnedBridgeDies ==
    kills.servers = 0 => \A b \in DOMAIN bridges :
        Alive(b) /\ bridges[b].parent # NoValue => server[bridges[b].parent].child = b

(* CHANGELOG 0.2.3, "workspace LSP settings cannot inject autostart         *)
(* commands": a bridge that was not started by hand was started by the      *)
(* command of the shell's environment.                                      *)
AutostartFromShell ==
    \A b \in DOMAIN bridges : bridges[b].parent # NoValue =>
        bridges[b].path = Command(scene[bridges[b].parent].shell)

(* README.md 331-338: where every session's heading begins a line, is       *)
(* complete in it and has spaces around its "=", the native server is       *)
(* started with the logic that the README's rules select from what Isabelle *)
(* reads there.  It is told once of a worktree that has a ROOT or ROOTS     *)
(* file, also when the settings have listed it.  What the settings pass     *)
(* besides is theirs.  The extension misreads other files: `session X=HOL`  *)
(* gives it a session of that name, without a parent.                       *)
NativeArgsFollowReadme ==
    \A w \in DOMAIN scene :
        LET project == scene[w]
            args    == LanguageServerCommand(w, project).arguments
        IN Mode(project) = "native" /\ project.arguments = NoValue =>
             /\ /\ project.logic = NoValue /\ NoOtherLogic(project)
                /\ \A text \in RootTexts(project) : Plain(text)
                => Logics(args) = ReadmeLogic(project)
             /\ HasSessionRoot(project) /\ ListedOnce(project)
                => Cardinality({i \in DOMAIN args : args[i] = project.path}) = 1

(* A server that has spawned a bridge on its own socket, with the path to   *)
(* itself, will find it listening there, unless the server is closed or the *)
(* bridge is killed first.                                                  *)
Spawned(w) ==
    LET b == server[w].child IN
      b # 0 /\ bridges[b].path = server[w].path /\ Alone(server[w].path)

SpawnServes ==
    \A w \in Worktrees :
        Spawned(w) ~> (Spawned(w) /\ kills.bridges = 0
                          => node[server[w].path] = server[w].child
                             /\ Listening(server[w].child))
=============================================================================
