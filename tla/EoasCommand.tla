------------------------------ MODULE EoasCommand ------------------------------
(***************************************************************************)
(* The eoas commands publish, rollback, republish, init and                *)
(* generate-certs, run by a developer or a CI job in one project, possibly *)
(* several at a time.  Each is a process that goes through the stages of   *)
(* its run() method, asks questions on the way, and ends with an exit code; *)
(* they share the git working tree, the output directory, the config file, *)
(* the key files and the branch on the server.                             *)
(*                                                                         *)
(* The state of the sources is a number that grows with every change.      *)
(* What the server does with a request is the subject of UpdatePublication;*)
(* here it answers what it may answer.  A client that gets no answer has   *)
(* not taken its request back: the server may still serve it, after it has *)
(* answered the next one or after the command has ended.                   *)
(*                                                                         *)
(* A definition X_Y, above X, is X with a bug in it: the properties at the *)
(* end of the module tell it from X.  Nothing else uses it.                *)
(***************************************************************************)
EXTENDS EoasProject, FiniteSets

CONSTANTS
  Command,      \* processes, each of which runs one command
  Invocation,   \* the command lines and environments each may be run with
  Project,      \* the projects they are run in
  Config,       \* the Expo configs these may start with
  Seed,         \* releases of the branch before the first command
  Origin,       \* the servers a developer may enter in `eoas init`
  Retries,      \* how often fetchWithRetries repeats a request
  MaxTree       \* bound on the changes of the sources

VARIABLES
  project,      \* what no command changes
  config,       \* the Expo config: form of the file, updates.url, expo-app-id
  repo,         \* git: is there a repository
  identity,     \* git: are user.name and user.email configured
  certs,        \* the key files, with the command that wrote each
  head,         \* git: the sources of the last commit, 0 before the first one
  tree,         \* the sources in the working tree
  changes,      \* git status: kinds of files that differ from the last commit
  dirtied,      \* commands during which someone else has changed the sources
  dist,         \* the output directories
  released,     \* what the server serves on the branch
  published,    \* what it has ever served there
  deleted,      \* the updates whose folder it has deleted
  late,         \* requests whose clients have given up on an answer
  run,          \* the invocation of each command
  pc,           \* its stage, or the question it waits to be answered
  exit,         \* its exit code
  read,         \* the config it goes by
  commit,       \* the commit it names to the server, 0 for none
  platforms,    \* the platforms it works for
  files,        \* the files to upload for each of them
  open,         \* requests without an answer, with the retries of each
  sent,         \* the files it has read and sent
  stored,       \* those the server has confirmed
  answer,       \* what it was told for each platform
  offered       \* the updates republish lets the user choose from

sourceVars == <<repo, head, tree, changes, dirtied>>
branchVars == <<released, published, deleted, late>>
worldVars == <<project, config, sourceVars, identity, certs, dist, branchVars>>
requestVars == <<open, sent, stored, answer, offered>>
commandVars == <<run, read, commit, platforms, files, requestVars>>
vars == <<worldVars, commandVars, pc, exit>>

Nothing == [by |-> None, of |-> 0, for |-> {}]   \* not in the output directory
File == {"expoConfig", "bundle"}
KeyFile == {"public", "private", "certificate"}
Question == {"commit?", "init?", "message?", "identity?", "confirm?", "version?",
             "update?", "url?", "replace?", "certificate?", "where?"}
Requesting == {"url", "upload", "mark", "rollback", "versions", "updates", "republish"}
Parallel == Requesting \cup {"keys"}   \* stages that wait with Promise.all
Answering == {"mark", "rollback", "republish"}   \* those that change the branch

\* What a command is told; doubtful if it had to ask again.
Answer == {"deployed", "identical", "error", "deployed?", "identical?"}

ASSUME CommandAssumption ==
  /\ None \notin Command /\ None # 0
  /\ None \notin Answer
  /\ Retries \in Nat
  /\ MaxTree \in Nat
  /\ \A P \in SUBSET Platform : None \notin [P -> 0 .. Retries]   \* see open
  /\ \A c \in Command : \A i \in Invocation[c] :
       /\ i # None
       /\ i.kind \in {"publish", "rollback", "republish", "init", "certs"}
       /\ i.platform \in Platform \cup {"all"}
  /\ \A u \in Seed : u.by \notin Command /\ u.platform \in Platform
  /\ \A cfg \in Config :
       /\ DOMAIN cfg = {"form", "url", "header"}
       /\ cfg.form = "none" => cfg.url = None
       /\ cfg.url # None /\ Len(cfg.url.path) >= 2 => cfg.url.path[Len(cfg.url.path) - 1] # None

Directories == {i.dir : i \in UNION {Invocation[c] : c \in Command}}

Kind(c) == run[c].kind
Running(c) == pc[c] \notin {"idle", "done"}

----------------------------------------------------------------------------
(* Stages *)

PublishStages_HashLast ==
  [start |-> "expo", expo |-> "clean", clean |-> "config", config |-> "confirm",
   confirm |-> "runtime", runtime |-> "remove", remove |-> "export",
   export |-> "public", public |-> "hash", hash |-> "files", files |-> "url",
   url |-> "upload", upload |-> "mark", mark |-> "report"]

\* The stage that follows each stage of a command.
PublishStages ==
  [start |-> "expo", expo |-> "clean", clean |-> "config", config |-> "confirm",
   confirm |-> "hash", hash |-> "runtime", runtime |-> "remove", remove |-> "export",
   export |-> "public", public |-> "files", files |-> "url", url |-> "upload",
   upload |-> "mark", mark |-> "report"]

RollbackStages ==
  [start |-> "repo", repo |-> "hash", hash |-> "expo", expo |-> "confirm",
   confirm |-> "config", config |-> "runtime", runtime |-> "rollback",
   rollback |-> "report"]

RepublishStages ==
  [start |-> "repo", repo |-> "expo", expo |-> "config", config |-> "versions",
   versions |-> "updates", updates |-> "republish", republish |-> "report"]

InitStages == [start |-> "expo", expo |-> "config", config |-> "url", url |-> "write"]

GenerateCertsStages == [start |-> "where", where |-> "keys", keys |-> "report"]

Stages ==
  [publish |-> PublishStages, rollback |-> RollbackStages,
   republish |-> RepublishStages, init |-> InitStages,
   certs |-> GenerateCertsStages]

Goto(c, stage) == pc' = [pc EXCEPT ![c] = stage]
Proceed(c) == Goto(c, Stages[Kind(c)][pc[c]]) /\ UNCHANGED exit
Return(c, stage) == Goto(c, stage) /\ UNCHANGED exit

\* The process ends: by process.exit, an error run() does not catch, or a signal.
Exit(c, code) == Goto(c, "done") /\ exit' = [exit EXCEPT ![c] = code]

Ask_WithoutTerminal(c, question) == Return(c, question)

\* promptAsync refuses to ask when there is nobody to answer.
Ask(c, question) == IF run[c].tty THEN Return(c, question) ELSE Exit(c, 1)

\* c has changed the sources under the commands that run.
Touch(c, kind) ==
  /\ tree' = tree + 1
  /\ changes' = changes \cup {kind}
  /\ dirtied' = dirtied \cup {d \in Command \ {c} : Running(d)}
  /\ UNCHANGED <<repo, head>>

Init ==
  /\ project \in Project
  /\ config \in Config
  /\ \/ repo = FALSE /\ head = 0 /\ changes = {"untracked"}
     \/ repo = TRUE /\ head = 1 /\ changes = {}
     \/ repo = TRUE /\ head = 1 /\ changes = {"untracked"}
  /\ tree = IF changes = {} THEN 1 ELSE 2
  /\ identity \in BOOLEAN
  /\ certs = [f \in KeyFile |-> IF project.certs THEN "before" ELSE None]
  /\ dirtied = {}
  /\ dist = [d \in Directories |-> [export |-> Nothing, config |-> Nothing]]
  /\ released = Seed /\ published = Seed /\ deleted = {} /\ late = {}
  /\ run = [c \in Command |-> None]
  /\ pc = [c \in Command |-> "idle"]
  /\ exit = [c \in Command |-> None]
  /\ read = [c \in Command |-> None]
  /\ commit = [c \in Command |-> 0]
  /\ platforms = [c \in Command |-> {}]
  /\ files = [c \in Command |-> {}]
  /\ open = [c \in Command |-> None]
  /\ sent = [c \in Command |-> <<>>]
  /\ stored = [c \in Command |-> {}]
  /\ answer = [c \in Command |-> [p \in Platform |-> None]]
  /\ offered = [c \in Command |-> {}]

----------------------------------------------------------------------------
(* Checks *)

\* The credentials come before the flags; nothing else has happened by then.
Start(c, i) ==
  /\ pc[c] = "idle"
  /\ run' = [run EXCEPT ![c] = i]
  /\ IF i.token \/ i.kind \in {"init", "certs"}
     THEN Return(c, Stages[i.kind].start)
     ELSE Exit(c, 1)
  /\ UNCHANGED <<worldVars, read, commit, platforms, files, requestVars>>

CheckExpo(c) ==
  /\ pc[c] = "expo"
  /\ IF project.expo THEN Proceed(c) ELSE Exit(c, IF Kind(c) = "init" THEN 0 ELSE 1)
  /\ UNCHANGED <<worldVars, commandVars>>

GitStatus_TrackedOnly == changes \ {"untracked"}

\* git status shows untracked files one by one (-uall).
GitStatus == changes

\* git is there, and the project is in a repository.
RepoExists == project.git /\ repo

IsCommitRequired(c) == VcsClient(run[c]) = "git" /\ GitStatus # {}

EnsureRepoIsClean_Asks(c) ==
  /\ pc[c] = "clean"
  /\ IF ~run[c].check \/ (RepoExists /\ ~IsCommitRequired(c))
     THEN Proceed(c)
     ELSE Ask(c, "commit?")
  /\ UNCHANGED <<worldVars, commandVars>>

EnsureRepoIsClean(c) ==
  /\ pc[c] = "clean"
  /\ IF \/ ~run[c].check
        \/ VcsClient(run[c]) = "none"
        \/ RepoExists /\ ~IsCommitRequired(c)
     THEN Proceed(c)
     ELSE IF run[c].nonInteractive \/ ~RepoExists
     THEN Exit(c, 1)
     ELSE Ask(c, "commit?")
  /\ UNCHANGED <<worldVars, commandVars>>

EnsureRepoExists(c) ==
  /\ pc[c] = "repo"
  /\ IF VcsClient(run[c]) = "none" \/ RepoExists
     THEN Proceed(c)
     ELSE IF project.git THEN Ask(c, "init?") ELSE Exit(c, 1)
  /\ UNCHANGED <<worldVars, commandVars>>

\* The three commands add -A, add -u and commit; git refuses an empty commit.
Commit(c) ==
  /\ pc[c] = "commit"
  /\ IF changes # {}
     THEN /\ head' = tree
          /\ changes' = {}
          /\ Return(c, CASE Kind(c) = "publish" -> "config"
                          [] Kind(c) = "rollback" -> "hash"
                          [] OTHER -> "expo")
     ELSE UNCHANGED <<head, changes>> /\ Exit(c, 1)
  /\ UNCHANGED <<project, config, repo, identity, certs, tree, dirtied, dist,
                 branchVars, commandVars>>

\* getPrivateExpoConfigAsync writes an app.json when there is no config at all.
ReadConfig(c) ==
  /\ pc[c] = "config"
  /\ IF config.form = "none"
     THEN config' = [config EXCEPT !.form = "static"] /\ Touch(c, "untracked")
     ELSE UNCHANGED <<config, sourceVars>>
  /\ read' = [read EXCEPT ![c] = [server |-> ServerUrl(config), app |-> ExpoAppId(config),
                                  url |-> config.url]]
  /\ IF /\ ConfigIsValid(project)
        /\ \/ Kind(c) = "init"
           \/ /\ ServerUrl(config) # None
              /\ ExpoAppId(config) # None
              /\ Kind(c) = "rollback" => ~project.antiBrickingOff
     THEN Proceed(c)
     ELSE Exit(c, 1)
  /\ UNCHANGED <<project, identity, certs, dist, branchVars, run, commit, platforms,
                 files, requestVars>>

Confirm(c) ==
  /\ pc[c] = "confirm"
  /\ IF run[c].nonInteractive THEN Proceed(c) ELSE Ask(c, "confirm?")
  /\ UNCHANGED <<worldVars, commandVars>>

GetCommitHash(c) ==
  /\ pc[c] = "hash"
  /\ commit' = [commit EXCEPT ![c] = IF VcsClient(run[c]) = "git" /\ RepoExists THEN head ELSE 0]
  /\ Proceed(c)
  /\ UNCHANGED <<worldVars, run, read, platforms, files, requestVars>>

\* Platforms without a runtime version are left out.  Looking for the native
\* project of one takes the root of the repository.
ResolveRuntimeVersions(c) ==
  LET resolved == {p \in Requested(run[c].platform) :
                     RuntimeVersion(VcsClient(run[c]), project, p) # None}
      rootless == /\ VcsClient(run[c]) = "git"
                  /\ ~repo
                  /\ \E p \in Requested(run[c].platform) : project.native[p] # {}
  IN /\ pc[c] = "runtime"
     /\ platforms' = [platforms EXCEPT ![c] = resolved]
     /\ IF resolved # {} /\ ~rootless THEN Proceed(c) ELSE Exit(c, 1)
     /\ UNCHANGED <<worldVars, run, read, commit, files, requestVars>>

----------------------------------------------------------------------------
(* Questions.  All of them can be left with ctrl-c, see Interrupt. *)

SayNo_AsksAgain(c) ==
  /\ pc[c] = "confirm?"
  /\ Return(c, "confirm")
  /\ UNCHANGED <<worldVars, commandVars>>

SayNo(c) ==
  /\ pc[c] \in {"commit?", "init?", "confirm?", "replace?", "certificate?"}
  /\ CASE pc[c] = "replace?" ->
            /\ read' = [read EXCEPT ![c].server = None]
            /\ Ask(c, "certificate?")
       [] pc[c] = "certificate?" -> Exit(c, 0) /\ UNCHANGED read
       [] OTHER -> Exit(c, 1) /\ UNCHANGED read
  /\ UNCHANGED <<worldVars, run, commit, platforms, files, requestVars>>

SayYes(c) ==
  /\ pc[c] \in {"commit?", "confirm?", "replace?"}
  /\ CASE pc[c] = "commit?" -> Ask(c, "message?")
       [] pc[c] = "confirm?" -> Return(c, IF Kind(c) = "publish" THEN "hash" ELSE "config")
       [] pc[c] = "replace?" -> Ask(c, "certificate?")
  /\ UNCHANGED <<worldVars, commandVars>>

GitInit(c) ==
  /\ pc[c] = "init?"
  /\ repo' = TRUE
  /\ Ask(c, "message?")
  /\ UNCHANGED <<project, config, identity, certs, head, tree, changes, dirtied, dist,
                 branchVars, commandVars>>

\* commitAsync looks for user.name and user.email first.
CommitMessage(c) ==
  /\ pc[c] = "message?"
  /\ IF identity THEN Return(c, "commit") ELSE Ask(c, "identity?")
  /\ UNCHANGED <<worldVars, commandVars>>

ConfigureGit(c) ==
  /\ pc[c] = "identity?"
  /\ identity' = TRUE
  /\ Return(c, "commit")
  /\ UNCHANGED <<project, config, sourceVars, certs, dist, branchVars, commandVars>>

SelectRuntimeVersion(c) ==
  /\ pc[c] = "version?"
  /\ Return(c, "updates")
  /\ UNCHANGED <<worldVars, commandVars>>

SelectUpdate(c) ==
  /\ pc[c] = "update?"
  /\ \E u \in offered[c] :
       /\ offered' = [offered EXCEPT ![c] = {u}]
       /\ platforms' = [platforms EXCEPT ![c] = {u.platform}]
  /\ Return(c, "republish")
  /\ UNCHANGED <<worldVars, run, read, commit, files, open, sent, stored, answer>>

----------------------------------------------------------------------------
(* eoas init *)

AskUrl(c) ==
  /\ pc[c] = "url" /\ Kind(c) = "init"
  /\ Ask(c, "url?")
  /\ UNCHANGED <<worldVars, commandVars>>

\* The application id and the server; an updates.url that is not one of Expo's
\* is only replaced when the developer says so.
EnterUrl(c) ==
  /\ pc[c] = "url?"
  /\ \E server \in Origin : read' = [read EXCEPT ![c].server = server]
  /\ IF read[c].url # None /\ read[c].url.origin # "expo.dev"
     THEN Ask(c, "replace?")
     ELSE Ask(c, "certificate?")
  /\ UNCHANGED <<worldVars, run, commit, platforms, files, requestVars>>

\* The path of the certificate is asked for until there is a file.
EnterCertificate(c) ==
  /\ pc[c] = "certificate?"
  /\ certs["certificate"] # None
  /\ Return(c, "write")
  /\ UNCHANGED <<worldVars, commandVars>>

\* The endpoint init writes; its server is None when the old one is kept.
Endpoint(c) ==
  IF read[c].server = None
  THEN read[c].url
  ELSE [origin |-> read[c].server, path |-> <<"manifest">>]

WriteConfig(c) ==
  /\ pc[c] = "write"
  /\ IF RewritesConfig(config.form)
     THEN /\ config' = [form |-> FormAfterInit(config.form), url |-> Endpoint(c),
                        header |-> "entered"]
          /\ Touch(c, "untracked")
     ELSE UNCHANGED <<config, sourceVars>>
  /\ Exit(c, 0)
  /\ UNCHANGED <<project, identity, certs, dist, branchVars, commandVars>>

----------------------------------------------------------------------------
(* eoas generate-certs *)

AskWhere(c) ==
  /\ pc[c] = "where"
  /\ Ask(c, "where?")
  /\ UNCHANGED <<worldVars, commandVars>>

\* The directories, by default in the project, the organisation and the validity.
EnterCertificateNames(c) ==
  /\ pc[c] = "where?"
  /\ Return(c, "keys")
  /\ UNCHANGED <<worldVars, commandVars>>

----------------------------------------------------------------------------
(* The output directory *)

Removed == [export |-> Nothing, config |-> Nothing]
Build(c) == [by |-> c, of |-> tree, for |-> Requested(run[c].platform)]

RemoveOutput(c) ==
  /\ pc[c] = "remove"
  /\ dist' = [dist EXCEPT ![run[c].dir] = Removed]
  /\ Proceed(c)
  /\ UNCHANGED <<project, config, sourceVars, identity, certs, branchVars, commandVars>>

ExportProject(c) ==
  /\ pc[c] = "export"
  /\ IF ResolvePackageRunner(run[c].runner, run[c].runnerEnv, project.managers)
          \in project.runners
     THEN /\ dist' = [dist EXCEPT ![run[c].dir].export = Build(c)]
          /\ Proceed(c)
     ELSE Exit(c, 1) /\ UNCHANGED dist
  /\ UNCHANGED <<project, config, sourceVars, identity, certs, branchVars, commandVars>>

WriteExpoConfig_DefaultDir(c) ==
  /\ pc[c] = "public"
  /\ dist' = [dist EXCEPT !["dist"].config = Build(c)]
  /\ Proceed(c)
  /\ UNCHANGED <<project, config, sourceVars, identity, certs, branchVars, commandVars>>

\* The config as it is now goes next to what was exported.
WriteExpoConfig(c) ==
  /\ pc[c] = "public"
  /\ IF dist[run[c].dir] # Removed
     THEN /\ dist' = [dist EXCEPT ![run[c].dir].config = Build(c)]
          /\ Proceed(c)
     ELSE Exit(c, 1) /\ UNCHANGED dist
  /\ UNCHANGED <<project, config, sourceVars, identity, certs, branchVars, commandVars>>

ComputeFiles(c) ==
  /\ pc[c] = "files"
  /\ IF dist[run[c].dir].export # Nothing
     THEN /\ files' = [files EXCEPT ![c] = FilesRequests(dist[run[c].dir].export,
                                                        run[c].platform)]
          /\ Proceed(c)
     ELSE Exit(c, 1) /\ UNCHANGED files
  /\ UNCHANGED <<worldVars, run, read, commit, platforms, requestVars>>

\* A step of run() that throws or calls process.exit(1) for a reason of its own:
\* a config, an export or a directory that cannot be read or written.
StageFails(c) ==
  /\ pc[c] \in {"config", "runtime", "remove", "export", "public", "files", "commit"}
  /\ Exit(c, 1)
  /\ UNCHANGED <<worldVars, commandVars>>

----------------------------------------------------------------------------
(* Requests *)

Targets(c) ==
  CASE pc[c] = "upload" -> platforms[c] \X files[c]
    [] pc[c] \in {"versions", "updates"} -> {"list"}
    [] pc[c] = "keys" -> KeyFile
    [] OTHER -> platforms[c]

Release_ReadsAgain(c, p) ==
  [by |-> c, platform |-> p, server |-> ServerUrl(config), app |-> ExpoAppId(config),
   what |-> CASE Kind(c) = "publish" -> "update"
              [] Kind(c) = "rollback" -> "rollback"
              [] OTHER -> "copy"]

Release(c, p) ==
  [by |-> c, platform |-> p, server |-> read[c].server, app |-> read[c].app,
   what |-> CASE Kind(c) = "publish" -> "update"
              [] Kind(c) = "rollback" -> "rollback"
              [] OTHER -> "copy"]

Outstanding(c) == IF open[c] = None THEN {} ELSE DOMAIN open[c]

\* The requests of c that would change the branch, under way.
InFlight(c) ==
  IF pc[c] \in Answering
  THEN {[of |-> Release(c, p), try |-> open[c][p]] : p \in Outstanding(c)}
  ELSE {}

\* The command ends with its requests under way.
Dies(c, code) ==
  /\ late' = late \cup InFlight(c)
  /\ UNCHANGED <<released, published, deleted>>
  /\ open' = [open EXCEPT ![c] = None]
  /\ Exit(c, code)

\* All requests of a stage are sent at once (Promise.all).
SendRequests(c) ==
  /\ pc[c] \in Parallel
  /\ Kind(c) # "init"
  /\ open[c] = None
  /\ open' = [open EXCEPT ![c] = [t \in Targets(c) |-> 0]]
  /\ UNCHANGED <<worldVars, run, read, commit, platforms, files, sent, stored, answer,
                 offered, pc, exit>>

Answered(c, t) ==
  open' = [open EXCEPT ![c] = [u \in DOMAIN open[c] \ {t} |-> open[c][u]]]

AllAnswered_Race(c) ==
  /\ pc[c] \in Parallel
  /\ open[c] # None
  /\ DOMAIN open[c] # Targets(c)
  /\ open' = [open EXCEPT ![c] = None]
  /\ Proceed(c)
  /\ UNCHANGED <<worldVars, run, read, commit, platforms, files, sent, stored, answer,
                 offered>>

AllAnswered(c) ==
  /\ pc[c] \in Parallel
  /\ open[c] # None
  /\ DOMAIN open[c] = {}
  /\ open' = [open EXCEPT ![c] = None]
  /\ Proceed(c)
  /\ UNCHANGED <<worldVars, run, read, commit, platforms, files, sent, stored, answer,
                 offered>>

\* fetchWithRetries: a network error is answered with the same request, or ends
\* the command.  The first request may have been served, be served later, or never.
LoseAnswer(c, t) ==
  /\ pc[c] \in Requesting
  /\ pc[c] = "upload" => t \in DOMAIN sent[c]
  /\ IF open[c][t] < Retries
     THEN /\ late' = late \cup {r \in InFlight(c) : r.of.platform = t}
          /\ open' = [open EXCEPT ![c][t] = @ + 1]
          /\ UNCHANGED <<released, published, deleted, pc, exit>>
     ELSE Dies(c, 1)
  /\ UNCHANGED <<project, config, sourceVars, identity, certs, dist, run, read,
                 commit, platforms, files, sent, stored, answer, offered>>

\* The answers that end a command, or a key file that cannot be written.
Refuse(c, t) ==
  /\ pc[c] \in {"url", "upload", "versions", "updates", "keys"}
  /\ pc[c] = "upload" => t \in DOMAIN sent[c]
  /\ Dies(c, 1)
  /\ UNCHANGED <<project, config, sourceVars, identity, certs, dist, run, read,
                 commit, platforms, files, sent, stored, answer, offered>>

\* The three files of a pair are written at the same time, over those there are.
WriteKeyFile(c, f) ==
  /\ pc[c] = "keys"
  /\ certs' = [certs EXCEPT ![f] = c]
  /\ Touch(c, "untracked")
  /\ Answered(c, f)
  /\ UNCHANGED <<project, config, identity, dist, branchVars, run, read, commit,
                 platforms, files, sent, stored, answer, offered, pc, exit>>

GetUploadUrl(c, p) ==
  /\ pc[c] = "url"
  /\ Answered(c, p)
  /\ UNCHANGED <<worldVars, run, read, commit, platforms, files, sent, stored, answer,
                 offered, pc, exit>>

\* The file is read from the output directory when its upload starts.
ReadFile(c, t) ==
  LET content == IF t[2] = "bundle" THEN dist[run[c].dir].export ELSE dist[run[c].dir].config
  IN /\ pc[c] = "upload"
     /\ t \notin DOMAIN sent[c]
     /\ IF content = Nothing
        THEN Dies(c, 1) /\ UNCHANGED sent
        ELSE /\ sent' = [sent EXCEPT ![c] = [u \in DOMAIN sent[c] \cup {t} |->
                                               IF u = t THEN content ELSE sent[c][u]]]
             /\ UNCHANGED <<branchVars, open, pc, exit>>
     /\ UNCHANGED <<project, config, sourceVars, identity, certs, dist, run, read,
                    commit, platforms, files, stored, answer, offered>>

StoreFile(c, t) ==
  /\ pc[c] = "upload"
  /\ t \in DOMAIN sent[c]
  /\ stored' = [stored EXCEPT ![c] = @ \cup {t}]
  /\ Answered(c, t)
  /\ UNCHANGED <<worldVars, run, read, commit, platforms, files, sent, answer,
                 offered, pc, exit>>

\* The updates a new one can be found identical to: the server compares it with
\* the last one it knows of, which may be gone by now, or be the new one itself.
Same(r) ==
  {u \in published : /\ u.what # "rollback" /\ u.platform = r.platform
                     /\ u.server = r.server /\ u.app = r.app}

\* The server serves a request and answers told.  An update that brings nothing
\* new is deleted, and stays so; the update to republish must still be there.
Serve(r, told) ==
  /\ told = "identical" => r.what = "update" /\ Same(r) # {}
  /\ told = "deployed" /\ r.what = "copy" => offered[r.by] \subseteq released
  /\ released' = CASE told = "deployed" -> released \cup ({r} \ deleted)
                   [] told = "identical" -> released \ {r}
                   [] told = "error" -> released
  /\ published' = published \cup released'
  /\ deleted' = IF told = "identical" THEN deleted \cup {r} ELSE deleted

\* A mark that is repeated may be the second to be served, or the first.
MarkUpdate(c, p) ==
  /\ pc[c] = "mark"
  /\ \E told \in {"deployed", "identical", "error"} :
       /\ Serve(Release(c, p), told)
       /\ answer' = [answer EXCEPT ![c][p] =
                        CASE told = "error" \/ open[c][p] = 0 -> told
                          [] told = "deployed" -> "deployed?"
                          [] told = "identical" -> "identical?"]
  /\ Answered(c, p)
  /\ UNCHANGED <<project, config, sourceVars, identity, certs, dist, late, run, read,
                 commit, platforms, files, sent, stored, offered, pc, exit>>

Rollback(c, p) ==
  /\ pc[c] = "rollback"
  /\ \E told \in {"deployed", "error"} :
       /\ Serve(Release(c, p), told)
       /\ answer' = [answer EXCEPT ![c][p] = told]
  /\ Answered(c, p)
  /\ UNCHANGED <<project, config, sourceVars, identity, certs, dist, late, run, read,
                 commit, platforms, files, sent, stored, offered, pc, exit>>

Republish(c, p) ==
  /\ pc[c] = "republish"
  /\ \E told \in {"deployed", "error"} :
       /\ Serve(Release(c, p), told)
       /\ answer' = [answer EXCEPT ![c][p] = told]
  /\ Answered(c, p)
  /\ UNCHANGED <<project, config, sourceVars, identity, certs, dist, late, run, read,
                 commit, platforms, files, sent, stored, offered, pc, exit>>

\* The server comes to a request whose client no longer waits, or it is lost.
ServeLate(l) ==
  /\ \E told \in {"deployed", "identical", "error"} : Serve(l.of, told)
  /\ late' = late \ {l}
  /\ UNCHANGED <<project, config, sourceVars, identity, certs, dist, commandVars, pc,
                 exit>>

\* A runtime version with a single update has nothing to go back to.
ListRuntimeVersions(c) ==
  /\ pc[c] = "versions"
  /\ IF Cardinality(released) > 1
     THEN Ask(c, "version?")
     ELSE Exit(c, 1)
  /\ open' = [open EXCEPT ![c] = None]
  /\ UNCHANGED <<worldVars, run, read, commit, platforms, files, sent, stored, answer,
                 offered>>

ListUpdates(c) ==
  /\ pc[c] = "updates"
  /\ offered' = [offered EXCEPT ![c] =
                   {u \in released : u.what # "rollback" /\ u.platform = run[c].platform}]
  /\ Ask(c, "update?")
  /\ open' = [open EXCEPT ![c] = None]
  /\ UNCHANGED <<worldVars, run, read, commit, platforms, files, sent, stored, answer>>

Report_LastPlatform(c) ==
  LET told == {answer[c][p] : p \in platforms[c]}
  IN /\ pc[c] = "report"
     /\ Exit(c, IF told = {"error"} THEN 1 ELSE 0)
     /\ UNCHANGED <<worldVars, commandVars>>

Report(c) ==
  LET told == {answer[c][p] : p \in platforms[c]}
  IN /\ pc[c] = "report"
     /\ Exit(c, IF "error" \in told THEN 1 ELSE 0)
     /\ UNCHANGED <<worldVars, commandVars>>

----------------------------------------------------------------------------
(* Everyone else *)

\* The developer saves a file.
Edit(kind) ==
  /\ tree < MaxTree
  /\ Touch(None, kind)
  /\ UNCHANGED <<project, config, identity, certs, dist, branchVars, commandVars, pc,
                 exit>>

\* Ctrl-c, or a CI job that is cancelled.
Interrupt(c) ==
  /\ Running(c)
  /\ Dies(c, 130)
  /\ UNCHANGED <<project, config, sourceVars, identity, certs, dist, run, read,
                 commit, platforms, files, sent, stored, answer, offered>>

----------------------------------------------------------------------------

Step(c) ==
  \/ CheckExpo(c) \/ EnsureRepoIsClean(c) \/ EnsureRepoExists(c) \/ Commit(c)
  \/ ReadConfig(c) \/ Confirm(c) \/ GetCommitHash(c) \/ ResolveRuntimeVersions(c)
  \/ AskUrl(c) \/ WriteConfig(c) \/ AskWhere(c)
  \/ RemoveOutput(c) \/ ExportProject(c) \/ WriteExpoConfig(c) \/ ComputeFiles(c)
  \/ StageFails(c) \/ SendRequests(c) \/ AllAnswered(c) \/ Report(c)

\* What the developer answers.
Reply(c) ==
  \/ SayNo(c) \/ SayYes(c) \/ GitInit(c) \/ CommitMessage(c) \/ ConfigureGit(c)
  \/ SelectRuntimeVersion(c) \/ SelectUpdate(c) \/ EnterUrl(c)
  \/ EnterCertificate(c) \/ EnterCertificateNames(c)

\* What comes of a request.
Receive(c, t) ==
  \/ GetUploadUrl(c, t) \/ ReadFile(c, t) \/ StoreFile(c, t) \/ MarkUpdate(c, t)
  \/ Rollback(c, t) \/ Republish(c, t) \/ ListRuntimeVersions(c) \/ ListUpdates(c)
  \/ WriteKeyFile(c, t) \/ LoseAnswer(c, t) \/ Refuse(c, t)

Next ==
  \/ \E c \in Command :
       \/ \E i \in Invocation[c] : Start(c, i)
       \/ \E t \in Outstanding(c) : Receive(c, t)
       \/ Step(c) \/ Reply(c) \/ Interrupt(c)
  \/ \E kind \in {"tracked", "untracked"} : Edit(kind)
  \/ \E l \in late : ServeLate(l)

Spec == Init /\ [][Next]_vars

\* The process runs, requests are answered or time out, and whoever started an
\* interactive command answers its questions, or gives up where none fits.
Fairness ==
  \A c \in Command :
    /\ WF_vars(Step(c))
    /\ WF_vars(Reply(c))
    /\ WF_vars(\E t \in Outstanding(c) : Receive(c, t))
    /\ WF_vars(pc[c] = "update?" /\ offered[c] = {} /\ Interrupt(c))

FairSpec == Spec /\ Fairness

----------------------------------------------------------------------------
(* Properties *)

TypeOK ==
  /\ repo \in BOOLEAN /\ identity \in BOOLEAN
  /\ head \in Nat /\ tree \in Nat /\ head <= tree
  /\ changes \subseteq {"tracked", "untracked"}
  /\ certs \in [KeyFile -> Command \cup {None, "before"}]
  /\ dirtied \subseteq Command
  /\ \A c \in Command : run[c] \in Invocation[c] \cup {None}
  /\ exit \in [Command -> {None, 0, 1, 130}]
  /\ commit \in [Command -> Nat]
  /\ platforms \in [Command -> SUBSET Platform]
  /\ files \in [Command -> SUBSET File]
  /\ stored \in [Command -> SUBSET (Platform \X File)]
  /\ answer \in [Command -> [Platform -> Answer \cup {None}]]
  /\ \A c \in Command : \A u \in offered[c] : u.platform \in Platform
  /\ \A c \in Command : pc[c] \in Question => run[c].tty

\* Nothing of a publish goes live before the server has every file of every
\* platform: also when requests fail, are repeated, or the command is killed.
LiveAfterUploads ==
  \A r \in released : r.what = "update" /\ r.by \in Command =>
    platforms[r.by] \X files[r.by] \subseteq stored[r.by]

\* An update is never built from older sources than the commit it names, with
\* whatever the developer and other commands do to the working tree meanwhile.
NamesNoLaterCommit ==
  \A c \in Command : \A t \in DOMAIN sent[c] : sent[c][t].of >= commit[c]

\* c has its output directory for itself.
Exclusive(c) ==
  \A d \in Command \ {c} :
    run[d] # None => Kind(d) # "publish" \/ run[d].dir # run[c].dir

\* A publish that checks the repository ships exactly the commit it names, if
\* nobody changed the sources under it; commits of other commands do no harm.
ShipsItsCommit ==
  \A c \in Command :
    /\ run[c] # None /\ run[c].check /\ VcsClient(run[c]) = "git"
    /\ c \notin dirtied /\ Exclusive(c)
    => \A t \in DOMAIN sent[c] : sent[c][t].of = commit[c]

\* Publishes at the same time do not mix their exports when --outputDir keeps
\* them apart.
OwnExport ==
  \A c \in Command : \A t \in DOMAIN sent[c] : Exclusive(c) => sent[c][t].by = c

\* eoas publish --nonInteractive never waits for somebody to answer.
PublishNeverAsks ==
  \A c \in Command : pc[c] \in Question => ~(Kind(c) = "publish" /\ run[c].nonInteractive)

\* A publish, rollback or republish that exits with 0 is on the server for every
\* platform it resolved, or the server had another update there that its own brings
\* nothing new to.  Where the answer to a mark was lost and the mark was repeated,
\* nothing is promised: see DeployedIsReleased.
SuccessIsReleased ==
  \A c \in Command : exit[c] = 0 /\ Kind(c) # "init" =>
    \A p \in platforms[c] :
      \/ answer[c][p] = "deployed" /\ Release(c, p) \in released
      \/ answer[c][p] = "identical" /\ Same(Release(c, p)) \ {Release(c, p)} # {}
      \/ answer[c][p] \in {"deployed?", "identical?"}

\* "Your update has been successfully pushed": what a command that exits with 0 was
\* told to be deployed the server serves.  It does not where the answer to the mark
\* was lost, and the server serves that mark after the one that repeated it.
DeployedIsReleased ==
  \A c \in Command : exit[c] = 0 =>
    \A p \in platforms[c] :
      answer[c][p] \in {"deployed", "deployed?"} => Release(c, p) \in released

\* What a command releases can be seen by an app built with the config it read: it is
\* on the server of updates.url, under the app that a path <app>/manifest names.
ReleasedWherePolled ==
  \A r \in released : r.by \in Command =>
    LET url == read[r.by].url
        last == Len(url.path)
    IN /\ url.origin = r.server
       /\ last >= 2 /\ url.path[last] = "manifest" => url.path[last - 1] = r.app

\* After a generate-certs that succeeded the certificate, for the app, and the two
\* keys, for the server, are of one pair, also when they replaced older ones; only
\* another generate-certs can mix them.
KeysMatch ==
  \A c \in Command : exit[c] = 0 /\ Kind(c) = "certs" =>
    \/ \A f \in KeyFile : certs[f] = c
    \/ \E d \in Command \ {c} : run[d] # None /\ Kind(d) = "certs"

\* Every command ends.
EventuallyExits == \A c \in Command : Running(c) ~> ~Running(c)

================================================================================
