-------------------------- MODULE EoasCommandInvariant --------------------------
(***************************************************************************)
(* The inductive invariant of the eoas commands: for each command, what    *)
(* holds at the stage it has reached, whatever the others do.              *)
(***************************************************************************)
EXTENDS EoasCommand

\* The stages and questions of each command.
PcOf ==
  [publish |-> DOMAIN PublishStages \cup
               {"commit", "report", "done", "commit?", "message?", "identity?", "confirm?"},
   rollback |-> DOMAIN RollbackStages \cup
               {"commit", "report", "done", "init?", "message?", "identity?", "confirm?"},
   republish |-> DOMAIN RepublishStages \cup
               {"commit", "report", "done", "init?", "message?", "identity?", "version?",
                "update?"},
   init |-> DOMAIN InitStages \cup {"write", "done", "url?", "replace?", "certificate?"},
   certs |-> DOMAIN GenerateCertsStages \cup {"report", "done", "where?"}]

\* The stages of a publish after each of its steps.
AfterRemove == {"export", "public", "files", "url", "upload", "mark", "report"}
AfterHash == AfterRemove \cup {"runtime", "remove"}
AfterClean == AfterHash \cup {"config", "confirm", "confirm?", "hash"}
Committing == {"commit?", "message?", "identity?", "commit"}

Is(c, kind) == c \in Command /\ run[c] # None /\ Kind(c) = kind

FunctionsHold ==
  /\ DOMAIN run = Command /\ DOMAIN pc = Command /\ DOMAIN read = Command
  /\ DOMAIN open = Command /\ DOMAIN sent = Command /\ DOMAIN offered = Command

\* What has been asked of the branch and is done, undone or still to come.
Coming == {l.of : l \in late}
Submitted == published \cup deleted \cup Coming

BranchHolds ==
  /\ released \subseteq published
  /\ \A r \in Submitted : r.platform \in Platform
  /\ \A r \in deleted : r.what = "update"
  /\ \A r \in Coming : r.by \in Command

WorldHolds ==
  /\ head \in Nat /\ tree \in Nat /\ head <= tree
  /\ changes = {} => head = tree
  /\ repo \in BOOLEAN
  /\ config.form = "none" => config.url = None
  /\ DOMAIN dist = Directories
  /\ \A dir \in Directories : DOMAIN dist[dir] = {"export", "config"}
  /\ BranchHolds

\* Where a command is, and what it may still ask.
PcHolds(c) ==
  /\ IF run[c] = None
     THEN pc[c] = "idle"
     ELSE run[c] \in Invocation[c] /\ pc[c] \in PcOf[Kind(c)]
  /\ exit[c] # None => pc[c] = "done"
  /\ pc[c] \in Question =>
       run[c].tty /\ ~(Kind(c) = "publish" /\ run[c].nonInteractive)

\* The requests it has made, and what came of them.
Uploaded(c) == platforms[c] \X files[c] \subseteq stored[c]
Another(c) == \E d \in Command \ {c} : Is(d, "certs")

RequestsHold(c) ==
  /\ platforms[c] \subseteq Platform
  /\ \A u \in offered[c] : u.platform \in Platform
  /\ open[c] # None => /\ pc[c] \in Parallel /\ Kind(c) # "init"
                       /\ DOMAIN open[c] \subseteq Targets(c)
  /\ pc[c] \in Answering /\ open[c] # None =>
       \A p \in DOMAIN open[c] : open[c][p] \in 0 .. Retries
  /\ run[c] = None \/ Is(c, "certs") => platforms[c] = {}
  /\ Is(c, "publish") =>
       /\ pc[c] = "upload" /\ open[c] # None =>
            (platforms[c] \X files[c]) \ DOMAIN open[c] \subseteq stored[c]
       /\ pc[c] \in {"mark", "report"} => Uploaded(c)

\* Before its first answer, and for the platforms it still waits for, a command has
\* been told nothing; no update it was told of without doubt is still under way.
AnswersHold(c) ==
  /\ \A p \in Platform :
       /\ answer[c][p] = "deployed" =>
            /\ Release(c, p) \in released
            /\ Kind(c) = "publish" => Release(c, p) \notin Coming
       /\ answer[c][p] = "identical" => Same(Release(c, p)) \ {Release(c, p)} # {}
  /\ pc[c] \notin Answering \cup {"report", "done"} => \A p \in Platform : answer[c][p] = None
  /\ pc[c] \in Answering /\ open[c] = None => \A p \in Platform : answer[c][p] = None
  /\ pc[c] \in Answering /\ open[c] # None =>
       /\ \A p \in platforms[c] \ DOMAIN open[c] : answer[c][p] # None
       /\ \A p \in DOMAIN open[c] : answer[c][p] = None
  /\ pc[c] = "report" => \A p \in platforms[c] : answer[c][p] # None
  /\ exit[c] = 0 /\ Kind(c) # "init" =>
       \A p \in platforms[c] : answer[c][p] \in Answer \ {"error"}

KeysHold(c) ==
  /\ Is(c, "certs") /\ pc[c] = "keys" /\ open[c] # None =>
       \A f \in KeyFile \ DOMAIN open[c] : certs[f] = c \/ Another(c)
  /\ Is(c, "certs") /\ (pc[c] = "report" \/ exit[c] = 0) =>
       \A f \in KeyFile : certs[f] = c \/ Another(c)

\* What it has submitted; nothing it waits for with its first request.
ReleasesHold(c) ==
  \A r \in Submitted : r.by = c =>
    /\ run[c] # None /\ pc[c] \in Answering \cup {"report", "done"}
    /\ pc[c] \in Answering =>
         open[c] # None /\ (r.platform \in DOMAIN open[c] => open[c][r.platform] > 0)
    /\ r.what = "update" =>
         Kind(c) = "publish" /\ pc[c] \in {"mark", "report", "done"} /\ Uploaded(c)

\* What is in its output directory once it has removed what was there, and what it
\* has sent of that.
Contents(c) == {dist[run[c].dir].export, dist[run[c].dir].config} \ {Nothing}
Sent(c) == {sent[c][t] : t \in DOMAIN sent[c]}

CommitHolds(c) ==
  /\ commit[c] \in Nat /\ commit[c] <= head
  /\ pc[c] \notin {"upload", "mark", "report", "done"} => DOMAIN sent[c] = {}
  /\ DOMAIN sent[c] # {} => Is(c, "publish")
  /\ \A content \in Sent(c) : content.of >= commit[c]
  /\ Is(c, "publish") /\ pc[c] \in AfterRemove =>
       \A content \in Contents(c) : content.of >= commit[c]

OwnHolds(c) ==
  Is(c, "publish") /\ Exclusive(c) =>
    /\ \A content \in Sent(c) : content.by = c
    /\ pc[c] \in AfterRemove =>
         \A content \in Contents(c) : content.by = c

\* A publish that checks the repository, with the sources left alone by others.
Undisturbed(c) ==
  run[c] # None /\ run[c].check /\ VcsClient(run[c]) = "git" /\ c \notin dirtied

ShipsHold(c) ==
  Undisturbed(c) /\ Kind(c) = "publish" =>
    /\ pc[c] \in Committing \cup AfterClean => RepoExists
    /\ pc[c] \in AfterClean => head = tree
    /\ pc[c] \in AfterHash => commit[c] = tree
    /\ Exclusive(c) =>
         /\ \A content \in Sent(c) : content.of = commit[c]
         /\ pc[c] \in AfterRemove => \A content \in Contents(c) : content.of = tree

Local(c) ==
  /\ PcHolds(c) /\ RequestsHold(c) /\ AnswersHold(c) /\ KeysHold(c) /\ ReleasesHold(c)
  /\ CommitHolds(c) /\ OwnHolds(c) /\ ShipsHold(c)

IInv == TypeOK /\ FunctionsHold /\ WorldHolds /\ \A c \in Command : Local(c)

--------------------------------------------------------------------------------
(* Where the releases go: an invariant of its own, on top of the one above.  The
   config a command goes by is the one it read, whatever init writes meanwhile. *)

NamesAnApp(url) ==
  url # None /\ Len(url.path) >= 2 => url.path[Len(url.path) - 1] # None

\* The stages of a command that has read the config.
PastConfig ==
  [publish |-> AfterClean \ {"config"},
   rollback |-> {"runtime", "rollback", "report"},
   republish |-> {"versions", "version?", "updates", "update?", "republish", "report"},
   init |-> {"url", "url?", "replace?", "certificate?", "write"},
   certs |-> {}]

Releasing == Answering \cup {"report", "done"}

HasRead(c) == DOMAIN read[c] = {"server", "app", "url"} /\ NamesAnApp(read[c].url)

PolledThere(c) ==
  LET url == read[c].url
      last == Len(url.path)
  IN /\ url.origin = read[c].server
     /\ last >= 2 /\ url.path[last] = "manifest" => url.path[last - 1] = read[c].app

ReadHolds(c) ==
  /\ run[c] # None /\ pc[c] \in PastConfig[Kind(c)] =>
       HasRead(c) /\ (Kind(c) # "init" => PolledThere(c))
  /\ \A r \in Submitted : r.by = c =>
       /\ run[c] # None /\ Kind(c) # "init" /\ pc[c] \in Releasing
       /\ r.server = read[c].server /\ r.app = read[c].app
       /\ PolledThere(c)

PolledInv ==
  /\ DOMAIN config = {"form", "url", "header"} /\ NamesAnApp(config.url)
  /\ \A c \in Command : ReadHolds(c)

================================================================================
