-------------------------- MODULE ExtensionSettings --------------------------
(***************************************************************************)
(* How the Zed extension turns a worktree and its settings into the        *)
(* command that starts the language server (zed-extension/src/lib.rs).     *)
(*                                                                         *)
(* A project is what the extension reads: the settings (mode, socket,      *)
(* session, logic, noBuild, dirs, extra), the configured binary (program,  *)
(* arguments, overrides), the shell environment of the worktree, and its   *)
(* files ROOT, ROOTS and the ROOT of each directory that ROOTS may name.   *)
(* An environment is a function from the variables that are set.           *)
(*                                                                         *)
(* A ROOT file is a sequence of lines, a line one of words, which end at   *)
(* whitespace or a closing quote, and a word a sequence of Isabelle's      *)
(* tokens: `session X=HOL +` has the words `session`, `X=HOL` and `+`, the *)
(* second with three tokens.  The extension splits a line into words and   *)
(* no further; Isabelle reads the tokens of the whole file.  "<comment"    *)
(* and "comment>" are the brackets of a comment.  What follows an unquoted *)
(* "#", which is no Isabelle syntax, is left out.                          *)
(***************************************************************************)
EXTENDS Integers, Sequences, FiniteSets, SequencesExt, TLC

CONSTANT NoValue    \* a setting, a file or a word that is not there

SocketVar  == "ISABELLE_BRIDGE_SOCKET"
SessionVar == "ISABELLE_SESSION"
CommandVar == "ISABELLE_BRIDGE_AUTOSTART_CMD"
TimeoutVar == "ISABELLE_BRIDGE_AUTOSTART_TIMEOUT_MS"

-----------------------------------------------------------------------------
(* Sessions of a ROOT file, read line by line.                             *)

First(words, word) == SelectInSeq(words, LAMBDA w : w = word)

(* The word behind the first "=", unless there is none or it is empty. *)
ParentIn(words) ==
    LET at == First(words, <<"=">>) IN
      IF at \in 1..(Len(words) - 1) /\ words[at + 1] # <<"">> THEN words[at + 1] ELSE NoValue

(* The session a line declares, if any. *)
SessionsFromLine(words) ==
    IF Len(words) >= 2 /\ words[1] = <<"session">> /\ words[2] # <<"">>
      THEN {[name |-> words[2], parent |-> ParentIn(words)]}
      ELSE {}

SessionsFromRoot(text) ==
    IF text = NoValue THEN {} ELSE UNION {SessionsFromLine(text[i]) : i \in DOMAIN text}

(* ROOTS: a directory in each line that is neither blank nor a comment. *)
RootDirs(roots) ==
    IF roots = NoValue THEN {} ELSE {roots[i] : i \in DOMAIN roots} \ {"", "#"}

OtherSessions(project) ==
    UNION {SessionsFromRoot(project.others[d]) : d \in RootDirs(project.roots)}

Names(sessions) == {s.name : s \in sessions}

(* A word is written down: its tokens, one right behind the other. *)
Glued(word) == FoldLeft(LAMBDA before, token : before \o token, "", word)

Spelled(word) == IF Len(word) = 1 THEN word[1] ELSE Glued(word)

(* Variant: any session of the ROOT file will do. *)
PickAutoLogicAny(own, others) ==
    LET hol == {s \in own \cup others : s.parent = <<"HOL">>} IN
      CASE own # {}                   -> Spelled((CHOOSE s \in own : TRUE).name)
        [] Cardinality(Names(hol)) = 1 -> Spelled((CHOOSE s \in hol : TRUE).name)
        [] OTHER                      -> NoValue

PickAutoLogic(own, others) ==
    LET hol == {s \in own \cup others : s.parent = <<"HOL">>} IN
      CASE Cardinality(Names(own)) = 1 -> Spelled((CHOOSE s \in own : TRUE).name)
        [] Cardinality(Names(own)) # 1 /\ Cardinality(Names(hol)) = 1
                                       -> Spelled((CHOOSE s \in hol : TRUE).name)
        [] OTHER                       -> NoValue

AutoLogicFromRoot(project) ==
    PickAutoLogic(SessionsFromRoot(project.root), OtherSessions(project))

-----------------------------------------------------------------------------
(* The command.                                                            *)

Setting(value, default) == IF value = NoValue THEN default ELSE value

HasSessionRoot(project) == project.root # NoValue \/ project.roots # NoValue

SessionDirs(project) ==
    IF HasSessionRoot(project) /\ ~Contains(project.dirs, project.path)
      THEN Append(project.dirs, project.path)
      ELSE project.dirs

NativeArgs(project) ==
    LET logic == Setting(project.logic, AutoLogicFromRoot(project))
        dirs  == SessionDirs(project)
    IN <<"vscode_server">>
         \o (IF logic = NoValue THEN <<>> ELSE <<"-l", logic>>)
         \o (IF project.noBuild THEN <<"-n">> ELSE <<>>)
         \o FlattenSeq([i \in DOMAIN dirs |-> <<"-d", dirs[i]>>])
         \o project.extra

Mode(project) == IF project.mode = "bridge" THEN "bridge" ELSE "native"

CommandPath(project) ==
    CASE project.program # NoValue -> project.program
      [] Mode(project) = "native"  -> "isabelle"
      [] OTHER                     -> "isabelle-zed-lsp"

CommandArgs(project) ==
    CASE project.arguments # NoValue -> project.arguments
      [] Mode(project) = "native"    -> NativeArgs(project)
      [] OTHER                       -> <<>>

(* upsert_env_var for each variable of "over". *)
Upsert(base, over) ==
    [k \in DOMAIN base \cup DOMAIN over |-> IF k \in DOMAIN over THEN over[k] ELSE base[k]]

EnsureEnvVar(env, key, value) ==
    IF key \in DOMAIN env THEN env ELSE Upsert(env, [k \in {key} |-> value])

(* Variant: the workspace's environment is taken as it is. *)
MergeEnvironmentAll(base, overrides) == Upsert(base, overrides)

(* The binary's environment goes over the shell's, the autostart variables *)
(* excepted.                                                               *)
MergeEnvironment(base, overrides) ==
    Upsert(base, [k \in DOMAIN overrides \ {CommandVar, TimeoutVar} |-> overrides[k]])

DefaultBridgeSocket(worktree) == "/tmp/isabelle-" \o worktree \o ".sock"

DefaultSession(worktree) == "s" \o worktree

(* In bridge mode socket and session are set, unless the environment has   *)
(* them.                                                                   *)
Environment(worktree, project) ==
    LET env == MergeEnvironment(project.shell, project.overrides) IN
      IF Mode(project) = "native" THEN env
      ELSE EnsureEnvVar(EnsureEnvVar(env,
               SocketVar, Setting(project.socket, DefaultBridgeSocket(worktree))),
               SessionVar, Setting(project.session, DefaultSession(worktree)))

LanguageServerCommand(worktree, project) ==
    [program   |-> CommandPath(project),
     arguments |-> CommandArgs(project),
     env       |-> Environment(worktree, project)]

-----------------------------------------------------------------------------
(* What the files say, as Isabelle reads them: tokens, wherever a line or a *)
(* word ends.  A token is known by its line, its word and its place there.  *)

Positions(text) ==
    IF text = NoValue THEN {}
    ELSE UNION {UNION {{<<i, w, k>> : k \in DOMAIN text[i][w]} : w \in DOMAIN text[i]} :
                   i \in DOMAIN text}

Token(text, p) == text[p[1]][p[2]][p[3]]

Before(p, q) ==
    \/ p[1] < q[1]
    \/ p[1] = q[1] /\ p[2] < q[2]
    \/ p[1] = q[1] /\ p[2] = q[2] /\ p[3] < q[3]

(* Inside a comment, however many lines it goes over. *)
Hidden(text, p) ==
    \E q \in Positions(text) :
        /\ Before(q, p) /\ Token(text, q) = "<comment"
        /\ \A r \in Positions(text) :
             Before(q, r) /\ Before(r, p) => Token(text, r) # "comment>"

Visible(text) ==
    {p \in Positions(text) :
        Token(text, p) \notin {"<comment", "comment>"} /\ ~Hidden(text, p)}

(* The visible token behind p, if there is one. *)
After(visible, p) ==
    {q \in visible : Before(p, q) /\ \A r \in visible : ~(Before(p, r) /\ Before(r, q))}

(* The "=" of the session that begins at p, before the next session. *)
EqualsOf(text, visible, p) ==
    {q \in visible :
        /\ Before(p, q) /\ Token(text, q) = "=" /\ After(visible, q) # {}
        /\ \A r \in visible :
             Before(p, r) /\ Before(r, q) => Token(text, r) \notin {"=", "session"}}

Declared(text) ==
    LET visible == Visible(text)
        Next(p)   == <<Token(text, CHOOSE q \in After(visible, p) : TRUE)>>
        Parent(p) == LET equals == EqualsOf(text, visible, p) IN
                       IF equals = {} THEN NoValue ELSE Next(CHOOSE q \in equals : TRUE)
    IN {[name |-> Next(p), parent |-> Parent(p)] :
           p \in {p \in visible : Token(text, p) = "session" /\ After(visible, p) # {}}}

Heading(line) == line # <<>> /\ line[1] = <<"session">>

(* Up to the parent's name, every word is one token, and none a comment's.  *)
Spaced(line) ==
    \E e \in 3..(Len(line) - 1) :
        /\ line[e] = <<"=">>
        /\ \A k \in 1..(e + 1) :
             Len(line[k]) = 1 /\ line[k][1] \notin {"", "<comment", "comment>"}
        /\ \A k \in 2..(e - 1) : line[k] \notin {<<"=">>, <<"session">>}

(* The files on which the two readings can agree: every session's heading   *)
(* begins a line, is complete in it and has spaces around its "=", and no   *)
(* line of a comment looks like the beginning of one.                       *)
Plain(text) ==
    text # NoValue =>
        /\ \A i \in DOMAIN text :
             Heading(text[i]) => Spaced(text[i]) /\ <<i, 1, 1>> \in Visible(text)
        /\ \A p \in Visible(text) :
             Token(text, p) = "session" => p = <<p[1], 1, 1>> /\ Heading(text[p[1]])

(* README.md 335-338: the session named by -l is the only one of the ROOT   *)
(* file, else the only one in ROOT and ROOTS that inherits HOL, else HOL.   *)
ReadmeLogic(project) ==
    LET own == Declared(project.root)
        all == own \cup UNION {Declared(project.others[d]) : d \in RootDirs(project.roots)}
        hol == {s \in all : s.parent = <<"HOL">>}
    IN {Spelled(n) : n \in
          IF \E n \in Names(own) : Names(own) = {n} THEN Names(own)
          ELSE IF \E n \in Names(hol) : Names(hol) = {n} THEN Names(hol)
          ELSE {<<"HOL">>}}

(* What `isabelle vscode_server` makes of its arguments. *)
OptionValues(args, option) ==
    {args[i + 1] : i \in {i \in 1..(Len(args) - 1) : args[i] = option}}

Logics(args) ==
    IF OptionValues(args, "-l") = {} THEN {"HOL"} ELSE OptionValues(args, "-l")

(* The settings add no -l, and nothing else is spelled like it. *)
NoOtherLogic(project) ==
    "-l" \notin ToSet(project.dirs) \cup ToSet(project.extra) \cup {project.path}
              \cup ReadmeLogic(project)

(* The settings list the worktree at most once, and nothing else is spelled *)
(* like its path.                                                           *)
ListedOnce(project) ==
    /\ \A i, j \in DOMAIN project.dirs :
         project.dirs[i] = project.path /\ project.dirs[j] = project.path => i = j
    /\ project.path \notin ToSet(project.extra) \cup {"vscode_server", "-l", "-n", "-d"}
                           \cup {Setting(project.logic, AutoLogicFromRoot(project))}

(* The texts the extension reads: the ROOT file of the worktree, and those  *)
(* of the directories in its ROOTS.                                         *)
RootTexts(project) ==
    {project.root} \cup {project.others[d] : d \in RootDirs(project.roots)}

(* What the files and the settings are made of. *)
WellFormed(project) ==
    /\ project.dirs \in Seq(STRING) /\ project.extra \in Seq(STRING)
    /\ project.path \in STRING
    /\ project.roots \in {NoValue} \cup Seq(STRING)
    /\ \A text \in RootTexts(project) : text \in {NoValue} \cup Seq(Seq(Seq(STRING)))
=============================================================================
