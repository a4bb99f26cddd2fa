---------------------------- MODULE EoasCommandProofs ----------------------------
(***************************************************************************)
(* Theorems about the eoas commands, for any number of them at the same    *)
(* time with any command lines, any project, any platforms and any number  *)
(* of retries and of changes of the sources.                               *)
(*                                                                         *)
(* A step is one of one command, or an edit.  The first part shows that    *)
(* the others keep what holds of them, from what a step may do to what     *)
(* they share; the second that the command itself does.                    *)
(***************************************************************************)
EXTENDS EoasCommandInvariant, TLAPS

USE DEF branchVars, Submitted, Coming

--------------------------------------------------------------------------------
(* Other commands *)

OwnSame(d) ==
  /\ run'[d] = run[d] /\ pc'[d] = pc[d] /\ exit'[d] = exit[d]
  /\ read'[d] = read[d] /\ commit'[d] = commit[d] /\ platforms'[d] = platforms[d]
  /\ files'[d] = files[d] /\ open'[d] = open[d] /\ sent'[d] = sent[d]
  /\ stored'[d] = stored[d] /\ answer'[d] = answer[d] /\ offered'[d] = offered[d]

\* What a step of c may do to the sources, ...
SourcesBy(c) ==
  /\ head <= head' /\ head' \in Nat /\ tree' \in Nat
  /\ head' # head => head' = tree' /\ tree' = tree
  /\ repo => repo'
  /\ dirtied \subseteq dirtied'
  /\ tree' # tree => \A d \in Command \ {c} : Running(d) => d \in dirtied'

\* ... to what is in a directory, ...
ContentBy(c, dir, old, new) ==
  \/ new = old
  \/ new = Nothing
  \/ /\ Is(c, "publish") /\ run[c].dir = dir
     /\ new.by = c /\ new.of = tree /\ tree' = tree

DirectoriesBy(c) ==
  \A dir \in Directories :
    /\ ContentBy(c, dir, dist[dir].export, dist'[dir].export)
    /\ ContentBy(c, dir, dist[dir].config, dist'[dir].config)

\* ... to the branch, ...
BranchBy(c) ==
  /\ \A r \in Submitted' : r.by # c => r \in Submitted
  /\ \A r \in Coming' : r.by # c => r \in Coming
  /\ \A r \in released : r.by # c => r \in released'
  /\ published \subseteq published'

\* ... and to the keys.
WorldBy(c) ==
  /\ SourcesBy(c) /\ DirectoriesBy(c) /\ BranchBy(c) /\ project' = project
  /\ \A f \in KeyFile : certs'[f] = certs[f] \/ Is(c, "certs")
  /\ \A d \in Command : run[d] # None => run'[d] = run[d]

LEMMA DirIsDirectory ==
  ASSUME NEW d \in Command, PcHolds(d), run[d] # None
  PROVE  run[d].dir \in Directories
BY DEF PcHolds, Directories

LEMMA ExclusiveBefore ==
  ASSUME NEW c, NEW d \in Command, WorldBy(c), run'[d] = run[d], Exclusive(d)'
  PROVE  Exclusive(d)
BY DEF WorldBy, Exclusive, Kind

LEMMA FrameRequests ==
  ASSUME NEW c, NEW d \in Command, c # d, WorldBy(c), OwnSame(d), Local(d)
  PROVE  PcHolds(d)' /\ RequestsHold(d)' /\ AnswersHold(d)' /\ KeysHold(d)' /\ ReleasesHold(d)'
<1> USE DEF OwnSame
<1>1. PcHolds(d)'
  BY DEF Local, PcHolds, Kind
<1>2. RequestsHold(d)'
  BY DEF Local, RequestsHold, Is, Kind, Targets, Uploaded
<1>3. AnswersHold(d)'
  <2>1. ASSUME NEW p \in Platform
        PROVE  Release(d, p)' = Release(d, p) /\ Release(d, p).by = d
    BY DEF Release, Kind
  <2>2. ASSUME NEW p \in Platform, answer'[d][p] = "deployed"
        PROVE  /\ Release(d, p)' \in released'
               /\ Kind(d)' = "publish" => Release(d, p)' \notin Coming'
    <3>1. /\ Release(d, p) \in released
          /\ Kind(d) = "publish" => Release(d, p) \notin Coming
      BY <2>2 DEF Local, AnswersHold
    <3> HIDE DEF Coming, Submitted
    <3> QED
      BY <2>1, <3>1 DEF WorldBy, BranchBy, Kind
  <2>3. ASSUME NEW p \in Platform, answer'[d][p] = "identical"
        PROVE  Same(Release(d, p))' \ {Release(d, p)'} # {}
    <3>1. Same(Release(d, p)) \ {Release(d, p)} # {}
      BY <2>3 DEF Local, AnswersHold
    <3>2. Same(Release(d, p)) \subseteq Same(Release(d, p))'
      BY <2>1 DEF Same, WorldBy, BranchBy
    <3> QED
      BY <2>1, <3>1, <3>2
  <2> QED
    BY <2>2, <2>3 DEF Local, AnswersHold, Kind
<1>4. KeysHold(d)'
  <2>1. Another(d) => Another(d)'
    BY DEF Another, Is, Kind, WorldBy
  <2>2. Is(d, "certs")' = Is(d, "certs")
    BY DEF Is, Kind
  <2>3. CASE Is(c, "certs")
    BY <2>1, <2>3 DEF KeysHold, Another, Is
  <2>4. CASE ~Is(c, "certs")
    BY <2>1, <2>2, <2>4 DEF WorldBy, Local, KeysHold
  <2> QED
    BY <2>3, <2>4
<1>5. ReleasesHold(d)'
  <2> HIDE DEF Coming, Submitted
  <2> QED
    BY DEF Local, ReleasesHold, WorldBy, BranchBy, Kind, Uploaded
<1> QED
  BY <1>1, <1>2, <1>3, <1>4, <1>5

LEMMA FrameContents ==
  ASSUME NEW c, NEW d \in Command, c # d, WorldBy(c), OwnSame(d), Local(d), WorldHolds
  PROVE  CommitHolds(d)' /\ OwnHolds(d)' /\ ShipsHold(d)'
<1> USE DEF OwnSame
<1>1. Sent(d)' = Sent(d)
  BY DEF Sent
<1>2. \A kind : Is(d, kind)' = Is(d, kind)
  BY DEF Is, Kind
<1>3. ASSUME Is(d, "publish"), NEW content \in Contents(d)'
      PROVE  \/ content \in Contents(d)
             \/ /\ Is(c, "publish") /\ run[c].dir = run[d].dir
                /\ content.of = tree /\ tree' = tree
  <2>1. run[d].dir \in Directories
    BY <1>3, DirIsDirectory DEF Local, Is
  <2>2. CASE content = dist'[run[d].dir].export
    BY <2>1, <2>2, <1>3 DEF Contents, WorldBy, DirectoriesBy, ContentBy
  <2>3. CASE content = dist'[run[d].dir].config
    BY <2>1, <2>3, <1>3 DEF Contents, WorldBy, DirectoriesBy, ContentBy
  <2> QED
    BY <2>2, <2>3, <1>3 DEF Contents
<1>4. CommitHolds(d)'
  <2>1. commit[d] <= head' /\ commit[d] <= tree
    BY DEF Local, CommitHolds, WorldBy, SourcesBy, WorldHolds
  <2>2. ASSUME Is(d, "publish"), pc[d] \in AfterRemove, NEW content \in Contents(d)'
        PROVE  content.of >= commit[d]
    BY <2>1, <2>2, <1>3 DEF Local, CommitHolds, WorldHolds
  <2> QED
    BY <1>1, <1>2, <2>1, <2>2 DEF Local, CommitHolds
<1>5. ASSUME Is(c, "publish"), Is(d, "publish"), run[c].dir = run[d].dir
      PROVE  ~Exclusive(d)
  BY <1>5 DEF Exclusive, Is
<1>6. OwnHolds(d)'
  <2> SUFFICES ASSUME Is(d, "publish"), Exclusive(d)'
               PROVE  /\ \A content \in Sent(d)' : content.by = d
                      /\ pc[d] \in AfterRemove =>
                           \A content \in Contents(d)' : content.by = d
    BY <1>2 DEF OwnHolds
  <2>1. Exclusive(d)
    BY ExclusiveBefore
  <2> QED
    BY <1>1, <1>3, <1>5, <2>1 DEF Local, OwnHolds
<1>7. ShipsHold(d)'
  <2> SUFFICES ASSUME Undisturbed(d)', Kind(d) = "publish"
               PROVE  ShipsHold(d)'
    BY DEF ShipsHold, Kind
  <2>1. Undisturbed(d) /\ Is(d, "publish") /\ d \notin dirtied'
    BY DEF Undisturbed, VcsClient, WorldBy, SourcesBy, Is
  <2>2. pc[d] \in AfterClean => tree' = tree
    BY <2>1 DEF WorldBy, SourcesBy, Running, AfterClean, AfterHash, AfterRemove
  <2>3. pc[d] \in AfterClean => head' = tree'
    BY <2>1, <2>2 DEF Local, ShipsHold, WorldBy, SourcesBy, Is
  <2>4. pc[d] \in Committing \cup AfterClean => RepoExists'
    BY <2>1 DEF Local, ShipsHold, WorldBy, SourcesBy, Is, RepoExists
  <2>5. pc[d] \in AfterHash => commit[d] = tree'
    BY <2>1, <2>2 DEF Local, ShipsHold, AfterClean, Is
  <2>6. ASSUME Exclusive(d)'
        PROVE  /\ \A content \in Sent(d)' : content.of = commit[d]
               /\ pc[d] \in AfterRemove => \A content \in Contents(d)' : content.of = tree'
    <3>1. Exclusive(d)
      BY <2>6, ExclusiveBefore
    <3>2. \A content \in Sent(d) : content.of = commit[d]
      BY <2>1, <3>1 DEF Local, ShipsHold, Is
    <3>3. ASSUME pc[d] \in AfterRemove, NEW content \in Contents(d)'
          PROVE  content.of = tree'
      <4>1. tree' = tree
        BY <2>2, <3>3 DEF AfterClean, AfterHash
      <4> QED
        BY <1>3, <2>1, <3>1, <3>3, <4>1 DEF Local, ShipsHold, Is
    <3> QED
      BY <1>1, <3>2, <3>3
  <2> QED
    BY <2>3, <2>4, <2>5, <2>6 DEF ShipsHold
<1> QED
  BY <1>4, <1>6, <1>7

LEMMA Frame ==
  ASSUME NEW c, NEW d \in Command, c # d, WorldBy(c), OwnSame(d), Local(d), WorldHolds
  PROVE  Local(d)'
BY FrameRequests, FrameContents DEF Local

--------------------------------------------------------------------------------
(* Stages *)

Kinds == {"publish", "rollback", "republish", "init", "certs"}

LEMMA NextStage ==
  ASSUME NEW kind \in Kinds, NEW s \in DOMAIN Stages[kind]
  PROVE  Stages[kind][s] \in PcOf[kind] \ Question
<1>1. CASE kind = "publish"
  BY <1>1 DEF Stages, PublishStages, PcOf, Question
<1>2. CASE kind = "rollback"
  BY <1>2 DEF Stages, RollbackStages, PcOf, Question
<1>3. CASE kind = "republish"
  BY <1>3 DEF Stages, RepublishStages, PcOf, Question
<1>4. CASE kind = "init"
  BY <1>4 DEF Stages, InitStages, PcOf, Question
<1>5. CASE kind = "certs"
  BY <1>5 DEF Stages, GenerateCertsStages, PcOf, Question
<1> QED
  BY <1>1, <1>2, <1>3, <1>4, <1>5 DEF Kinds

LEMMA InStages ==
  ASSUME NEW kind \in Kinds, NEW s \in PcOf[kind],
         s \notin Question \cup {"commit", "report", "done", "write"}
  PROVE  s \in DOMAIN Stages[kind]
<1>1. CASE kind = "publish"
  BY <1>1 DEF Stages, PublishStages, PcOf, Question
<1>2. CASE kind = "rollback"
  BY <1>2 DEF Stages, RollbackStages, PcOf, Question
<1>3. CASE kind = "republish"
  BY <1>3 DEF Stages, RepublishStages, PcOf, Question
<1>4. CASE kind = "init"
  BY <1>4 DEF Stages, InitStages, PcOf, Question
<1>5. CASE kind = "certs"
  BY <1>5 DEF Stages, GenerateCertsStages, PcOf, Question
<1> QED
  BY <1>1, <1>2, <1>3, <1>4, <1>5 DEF Kinds

\* The commands that come to a stage.
LEMMA KindsAt ==
  ASSUME NEW kind \in Kinds, NEW s \in PcOf[kind]
  PROVE  /\ s \in {"clean", "remove", "export", "public", "files", "upload", "mark", "commit?"}
              => kind = "publish"
         /\ s \in {"repo", "init?"} => kind \in {"rollback", "republish"}
         /\ s = "rollback" => kind = "rollback"
         /\ s \in {"versions", "updates", "republish", "version?", "update?"}
              => kind = "republish"
         /\ s = "confirm?" => kind \in {"publish", "rollback"}
         /\ s \in {"hash", "runtime", "confirm"} => kind \in {"publish", "rollback"}
         /\ s \in {"message?", "identity?", "commit"} => kind \in {"publish", "rollback", "republish"}
         /\ s = "url" => kind \in {"publish", "init"}
         /\ s \in {"url?", "replace?", "certificate?", "write"} => kind = "init"
         /\ s \in {"where", "where?", "keys"} => kind = "certs"
         /\ s = "report" => kind # "init"
         /\ s # "idle"
<1> USE DEF Kinds, PcOf
<1>1. CASE kind = "publish"
  BY <1>1 DEF PublishStages
<1>2. CASE kind = "rollback"
  BY <1>2 DEF RollbackStages
<1>3. CASE kind = "republish"
  BY <1>3 DEF RepublishStages
<1>4. CASE kind = "init"
  BY <1>4 DEF InitStages
<1>5. CASE kind = "certs"
  BY <1>5 DEF GenerateCertsStages
<1> QED
  BY <1>1, <1>2, <1>3, <1>4, <1>5

\* What a step of c does to the stages and exit codes.
Moves(c) ==
  /\ DOMAIN pc' = Command /\ exit' \in [Command -> {None, 0, 1, 130}]
  /\ \A d \in Command \ {c} : pc'[d] = pc[d] /\ exit'[d] = exit[d]

LEMMA ActiveCommand ==
  ASSUME NEW c \in Command, PcHolds(c), pc[c] # "idle"
  PROVE  /\ run[c] # None /\ run[c] \in Invocation[c]
         /\ Kind(c) \in Kinds /\ pc[c] \in PcOf[Kind(c)]
         /\ pc[c] # "done" => exit[c] = None
BY CommandAssumption DEF PcHolds, Kind, Kinds

LEMMA ReturnMoves ==
  ASSUME TypeOK, FunctionsHold, NEW c \in Command, NEW s, Return(c, s)
  PROVE  Moves(c) /\ pc'[c] = s /\ exit'[c] = exit[c]
BY DEF TypeOK, FunctionsHold, Return, Goto, Moves

LEMMA ExitMoves ==
  ASSUME TypeOK, FunctionsHold, NEW c \in Command, NEW code \in {0, 1, 130}, Exit(c, code)
  PROVE  Moves(c) /\ pc'[c] = "done" /\ exit'[c] = code
BY DEF TypeOK, FunctionsHold, Exit, Goto, Moves

LEMMA SameMoves ==
  ASSUME TypeOK, FunctionsHold, NEW c \in Command, UNCHANGED <<pc, exit>>
  PROVE  Moves(c) /\ pc'[c] = pc[c] /\ exit'[c] = exit[c]
BY DEF TypeOK, FunctionsHold, Moves

LEMMA PcAfterReturn ==
  ASSUME TypeOK, FunctionsHold, NEW c \in Command, PcHolds(c), pc[c] \notin {"idle", "done"},
         run'[c] = run[c], NEW s \in PcOf[Kind(c)], s \notin Question, Return(c, s)
  PROVE  PcHolds(c)'
<1>1. pc'[c] = s /\ exit'[c] = exit[c]
  BY ReturnMoves
<1> QED
  BY <1>1, ActiveCommand DEF PcHolds, Kind

LEMMA PcAfterExit ==
  ASSUME TypeOK, FunctionsHold, NEW c \in Command, PcHolds(c), pc[c] # "idle",
         run'[c] = run[c], NEW code \in {0, 1, 130}, Exit(c, code)
  PROVE  PcHolds(c)'
<1>1. pc'[c] = "done"
  BY ExitMoves
<1>2. "done" \in PcOf[Kind(c)] /\ "done" \notin Question
  BY ActiveCommand DEF PcOf, Kinds, Question
<1> QED
  BY <1>1, <1>2, ActiveCommand DEF PcHolds, Kind

LEMMA PcAfterSame ==
  ASSUME NEW c \in Command, PcHolds(c), run'[c] = run[c], UNCHANGED <<pc, exit>>
  PROVE  PcHolds(c)'
BY DEF PcHolds, Kind

LEMMA ProceedMoves ==
  ASSUME TypeOK, FunctionsHold, NEW c \in Command, Proceed(c)
  PROVE  Moves(c) /\ pc'[c] = Stages[Kind(c)][pc[c]] /\ exit'[c] = exit[c]
BY DEF TypeOK, FunctionsHold, Proceed, Goto, Moves

LEMMA PcAfterProceed ==
  ASSUME TypeOK, FunctionsHold, NEW c \in Command, PcHolds(c), run'[c] = run[c],
         pc[c] \notin Question \cup {"idle", "commit", "report", "done", "write"}, Proceed(c)
  PROVE  PcHolds(c)'
<1>1. Kind(c) \in Kinds /\ pc[c] \in DOMAIN Stages[Kind(c)]
  BY ActiveCommand, InStages
<1>2. Stages[Kind(c)][pc[c]] \in PcOf[Kind(c)] \ Question
  BY <1>1, NextStage
<1>3. Return(c, Stages[Kind(c)][pc[c]])
  BY DEF Proceed, Return
<1> QED
  BY <1>2, <1>3, PcAfterReturn

LEMMA PcAfterAsk ==
  ASSUME TypeOK, FunctionsHold, NEW c \in Command, PcHolds(c), pc[c] \notin {"idle", "done"},
         run'[c] = run[c], NEW q \in PcOf[Kind(c)], Ask(c, q),
         ~(Kind(c) = "publish" /\ run[c].nonInteractive)
  PROVE  PcHolds(c)'
<1>1. CASE run[c].tty
  <2>1. pc'[c] = q /\ exit'[c] = exit[c]
    BY <1>1, ReturnMoves DEF Ask
  <2> QED
    BY <1>1, <2>1, ActiveCommand DEF PcHolds, Kind
<1>2. CASE ~run[c].tty
  BY <1>2, PcAfterExit DEF Ask
<1> QED
  BY <1>1, <1>2

LEMMA AskMoves ==
  ASSUME TypeOK, FunctionsHold, NEW c \in Command, NEW q, Ask(c, q)
  PROVE  /\ Moves(c)
         /\ \/ pc'[c] = q /\ exit'[c] = exit[c]
            \/ pc'[c] = "done" /\ exit'[c] = 1
<1>1. CASE run[c].tty
  BY <1>1, ReturnMoves DEF Ask
<1>2. CASE ~run[c].tty
  BY <1>2, ExitMoves DEF Ask
<1> QED
  BY <1>1, <1>2

LEMMA DiesMoves ==
  ASSUME TypeOK, FunctionsHold, NEW c \in Command, NEW code \in {1, 130}, Dies(c, code)
  PROVE  Moves(c) /\ pc'[c] = "done" /\ exit'[c] = code
BY ExitMoves DEF Dies

LEMMA PcAfterDies ==
  ASSUME TypeOK, FunctionsHold, NEW c \in Command, PcHolds(c), pc[c] # "idle",
         run'[c] = run[c], NEW code \in {1, 130}, Dies(c, code)
  PROVE  PcHolds(c)'
BY PcAfterExit DEF Dies

--------------------------------------------------------------------------------
(* The shared state *)

LEMMA SourcesStay ==
  ASSUME WorldHolds, NEW c, UNCHANGED <<project, repo, head, tree, dirtied>>
  PROVE  SourcesBy(c)
BY DEF WorldHolds, SourcesBy

LEMMA TouchSources ==
  ASSUME WorldHolds, TypeOK, NEW c, NEW kind \in {"tracked", "untracked"}, Touch(c, kind)
  PROVE  /\ SourcesBy(c)
         /\ UNCHANGED <<repo, head>> /\ tree' = tree + 1 /\ tree' \in Nat
         /\ changes' # {} /\ changes' \subseteq {"tracked", "untracked"}
         /\ dirtied' \subseteq Command
         /\ c \in dirtied' => c \in dirtied
BY DEF WorldHolds, TypeOK, SourcesBy, Touch

LEMMA DirectoriesStay == ASSUME NEW c, UNCHANGED dist PROVE DirectoriesBy(c)
BY DEF DirectoriesBy, ContentBy

LEMMA BranchStays ==
  ASSUME WorldHolds, NEW c, UNCHANGED branchVars
  PROVE  BranchBy(c) /\ BranchHolds'
BY DEF WorldHolds, BranchHolds, BranchBy

LEMMA WorldSame ==
  ASSUME WorldHolds, NEW c, UNCHANGED worldVars, UNCHANGED run
  PROVE  WorldBy(c) /\ WorldHolds'
<1>1. WorldBy(c)
  BY SourcesStay, DirectoriesStay, BranchStays DEF worldVars, sourceVars, WorldBy
<1>2. WorldHolds'
  BY BranchStays DEF WorldHolds, worldVars, sourceVars
<1> QED
  BY <1>1, <1>2

LEMMA WorldButSources ==
  ASSUME WorldHolds, NEW c, UNCHANGED <<dist, project, branchVars, certs, run>>, SourcesBy(c)
  PROVE  WorldBy(c)
BY DirectoriesStay, BranchStays DEF WorldBy

--------------------------------------------------------------------------------
(* Steps that lead from one early stage to another *)

Settled == Answering \cup {"upload", "report"}

Passes(c) ==
  /\ Moves(c) /\ PcHolds(c)'
  /\ UNCHANGED <<run, commit, platforms, files, open, sent, stored, answer, offered,
                 project, branchVars, dist, certs>>
  /\ pc[c] \notin Settled \cup {"idle", "done"}
  /\ pc[c] \in Parallel => Kind(c) = "init"
  /\ pc'[c] \notin Settled
  /\ Kind(c) = "publish" => pc'[c] \notin AfterRemove
  /\ exit'[c] # 0 \/ Kind(c) = "init"

LEMMA PassesOwn ==
  ASSUME NEW c \in Command, Local(c), Passes(c), WorldHolds, SourcesBy(c)
  PROVE  /\ PcHolds(c)' /\ RequestsHold(c)' /\ AnswersHold(c)' /\ KeysHold(c)'
         /\ ReleasesHold(c)' /\ CommitHolds(c)' /\ OwnHolds(c)'
<1> USE DEF Passes
<1>0. /\ run[c] # None /\ Kind(c) \in Kinds /\ Kind(c)' = Kind(c) /\ exit[c] = None
      /\ \A kind : Is(c, kind)' = Is(c, kind)
  BY ActiveCommand DEF Local, Kind, Is
<1>1. open[c] = None
  BY DEF Local, RequestsHold
<1>2. RequestsHold(c)'
  BY <1>0, <1>1 DEF Local, RequestsHold, Settled, Answering, Is
<1>3. AnswersHold(c)'
  <2>1. \A p \in Platform : answer[c][p] = None
    BY DEF Local, AnswersHold, Settled
  <2> QED
    BY <1>0, <2>1, CommandAssumption DEF AnswersHold, Settled, Answer
<1>4. KeysHold(c)'
  BY <1>0, <1>1 DEF KeysHold, Settled, Is
<1>5. ReleasesHold(c)'
  BY <1>0 DEF Local, ReleasesHold, Settled, Answering
<1>6. Sent(c)' = Sent(c) /\ Contents(c)' = Contents(c) /\ DOMAIN sent[c] = {} /\ Sent(c) = {}
  BY DEF Local, CommitHolds, Sent, Contents, Settled, Answering
<1>7. CommitHolds(c)'
  BY <1>0, <1>6 DEF Local, CommitHolds, SourcesBy, WorldHolds, Is
<1>8. OwnHolds(c)'
  BY <1>0, <1>6 DEF OwnHolds, Is
<1> QED
  BY <1>2, <1>3, <1>4, <1>5, <1>7, <1>8

\* A publish goes on with the sources as they have to be at the stage it comes to.
Clean(c) ==
  Kind(c) = "publish" /\ Undisturbed(c) =>
    /\ pc'[c] \in Committing \cup AfterClean => RepoExists'
    /\ pc'[c] \in AfterClean => head' = tree'
    /\ pc'[c] \in AfterHash => commit[c] = tree'

LEMMA PassesLocal ==
  ASSUME NEW c \in Command, Local(c), Passes(c), WorldHolds, SourcesBy(c), Clean(c)
  PROVE  Local(c)'
<1> USE DEF Passes
<1>1. ShipsHold(c)'
  <2>1. Kind(c)' = Kind(c) /\ (Undisturbed(c)' => Undisturbed(c))
    BY DEF Kind, Undisturbed, VcsClient, SourcesBy
  <2>2. Sent(c)' = {}
    BY DEF Local, CommitHolds, Sent, Settled, Answering
  <2>3. Kind(c) = "publish" => pc'[c] \notin AfterRemove
    OBVIOUS
  <2> QED
    BY <2>1, <2>2, <2>3 DEF ShipsHold, Clean
<1> QED
  BY <1>1, PassesOwn DEF Local

\* The sources stay as they are, and so does what a publish may rely on.
LEMMA StaysClean ==
  ASSUME NEW c \in Command, Local(c), UNCHANGED <<project, repo, head, tree>>,
         Kind(c) = "publish" =>
           /\ pc'[c] \in Committing \cup AfterClean => pc[c] \in Committing \cup AfterClean
           /\ pc'[c] \in AfterClean => pc[c] \in AfterClean
           /\ pc'[c] \in AfterHash => pc[c] \in AfterHash
  PROVE  Clean(c)
BY DEF Clean, Local, ShipsHold, RepoExists

--------------------------------------------------------------------------------
(* Steps that change nothing but the stage *)

LEMMA StepKeeps ==
  ASSUME IInv, NEW c \in Command, WorldBy(c), \A d \in Command \ {c} : OwnSame(d),
         TypeOK', FunctionsHold', WorldHolds', Local(c)'
  PROVE  IInv'
<1>1. ASSUME NEW d \in Command
      PROVE  Local(d)'
  BY <1>1, Frame DEF IInv
<1> QED
  BY <1>1 DEF IInv

LEMMA OthersSame ==
  ASSUME NEW c \in Command, Moves(c), UNCHANGED commandVars
  PROVE  \A d \in Command \ {c} : OwnSame(d)
BY DEF Moves, OwnSame, commandVars, requestVars

\* Types, when what a command has of its own stays.
LEMMA OwnTypes ==
  ASSUME TypeOK, NEW c \in Command, Moves(c), PcHolds(c)', UNCHANGED commandVars,
         repo' \in BOOLEAN, identity' \in BOOLEAN, head' \in Nat, tree' \in Nat, head' <= tree',
         changes' \subseteq {"tracked", "untracked"}, dirtied' \subseteq Command,
         certs' \in [KeyFile -> Command \cup {None, "before"}]
  PROVE  TypeOK'
<1>1. \A d \in Command : pc'[d] \in Question => run'[d].tty
  BY DEF TypeOK, PcHolds, Moves, commandVars
<1>2. exit' \in [Command -> {None, 0, 1, 130}]
  BY DEF Moves
<1> QED
  BY <1>1, <1>2 DEF TypeOK, commandVars, requestVars

LEMMA OwnFunctions ==
  ASSUME FunctionsHold, NEW c, Moves(c), UNCHANGED commandVars
  PROVE  FunctionsHold'
BY DEF FunctionsHold, Moves, commandVars, requestVars

LEMMA QuietKeeps ==
  ASSUME IInv, NEW c \in Command, Passes(c), UNCHANGED <<worldVars, commandVars>>, Clean(c)
  PROVE  IInv'
<1>1. Moves(c) /\ PcHolds(c)' /\ UNCHANGED run
  BY DEF Passes
<1>2. WorldBy(c) /\ WorldHolds' /\ SourcesBy(c)
  BY <1>1, WorldSame DEF IInv, WorldBy
<1>3. TypeOK'
  BY <1>1, OwnTypes DEF IInv, TypeOK, worldVars, sourceVars
<1>4. Local(c)'
  BY <1>2, PassesLocal DEF IInv
<1> QED
  BY <1>1, <1>2, <1>3, <1>4, OwnFunctions, OthersSame, StepKeeps DEF IInv

\* The steps that pass, by what they do to the stage.
LEMMA PassesBy ==
  ASSUME IInv, NEW c \in Command, Moves(c), PcHolds(c)', UNCHANGED <<worldVars, commandVars>>,
         pc[c] \notin Settled \cup {"idle", "done"},
         pc[c] \in Parallel => Kind(c) = "init",
         pc'[c] \notin Settled,
         Kind(c) = "publish" => pc'[c] \notin AfterRemove,
         exit'[c] \in {None, 1},
         Kind(c) = "publish" =>
           /\ pc'[c] \in Committing \cup AfterClean => pc[c] \in Committing \cup AfterClean
           /\ pc'[c] \in AfterClean => pc[c] \in AfterClean
           /\ pc'[c] \in AfterHash => pc[c] \in AfterHash
  PROVE  IInv'
<1>1. UNCHANGED <<run, commit, platforms, files, open, sent, stored, answer, offered,
                  project, branchVars, dist, certs, repo, head, tree>>
  BY DEF worldVars, sourceVars, commandVars, requestVars
<1>2. exit'[c] # 0
  BY CommandAssumption
<1>3. Passes(c)
  BY <1>1, <1>2 DEF Passes
<1>4. Clean(c)
  BY <1>1, StaysClean DEF IInv
<1> QED
  BY <1>3, <1>4, QuietKeeps

LEMMA FailureKeeps ==
  ASSUME IInv, NEW c \in Command, UNCHANGED <<worldVars, commandVars>>,
         pc[c] \notin Settled \cup {"idle", "done"}, pc[c] \in Parallel => Kind(c) = "init",
         Exit(c, 1)
  PROVE  IInv'
<1>1. Moves(c) /\ pc'[c] = "done" /\ exit'[c] = 1
  BY ExitMoves DEF IInv
<1>2. PcHolds(c)'
  BY PcAfterExit DEF IInv, Local, commandVars
<1> QED
  BY <1>1, <1>2, PassesBy
     DEF Settled, Answering, AfterRemove, AfterHash, AfterClean, Committing

LEMMA CheckExpoKeeps == ASSUME IInv, NEW c \in Command, CheckExpo(c) PROVE IInv'
<1>1. pc[c] = "expo" /\ PcHolds(c) /\ UNCHANGED <<worldVars, commandVars>> /\ run'[c] = run[c]
  BY DEF IInv, Local, CheckExpo, commandVars
<1>2. Kind(c) \in Kinds
  BY <1>1, ActiveCommand
<1>3. CASE Proceed(c)
  <2>1. Moves(c) /\ PcHolds(c)' /\ exit'[c] = exit[c] /\ pc'[c] = Stages[Kind(c)]["expo"]
    BY <1>1, <1>3, ProceedMoves, PcAfterProceed DEF IInv, Question
  <2>2. exit'[c] = None
    BY <1>1, <2>1, ActiveCommand
  <2>3. Kind(c) # "certs"
    BY <1>1, <1>2, ActiveCommand DEF PcOf, GenerateCertsStages
  <2>4. /\ Kind(c) = "publish" => pc'[c] = "clean"
        /\ pc'[c] \in {"clean", "confirm", "config"}
    BY <1>2, <2>1, <2>3
       DEF Kinds, Stages, PublishStages, RollbackStages, RepublishStages, InitStages
  <2> QED
    BY <1>1, <2>1, <2>2, <2>4, PassesBy
       DEF Settled, Answering, Parallel, Requesting, AfterRemove, AfterHash, AfterClean,
           Committing
<1>4. CASE Exit(c, 1)
  BY <1>1, <1>4, FailureKeeps DEF Settled, Answering, Parallel, Requesting
<1>5. CASE Exit(c, 0) /\ Kind(c) = "init"
  <2>1. Moves(c) /\ pc'[c] = "done" /\ PcHolds(c)'
    BY <1>1, <1>5, ExitMoves, PcAfterExit DEF IInv
  <2>2. Passes(c) /\ Clean(c)
    BY <1>1, <1>5, <2>1
       DEF Passes, Clean, Settled, Answering, Parallel, Requesting, worldVars, commandVars,
           requestVars
  <2> QED
    BY <1>1, <2>2, QuietKeeps
<1> QED
  BY <1>3, <1>4, <1>5 DEF CheckExpo

\* The same for a publish that starts to rely on the sources.
LEMMA PassesByClean ==
  ASSUME IInv, NEW c \in Command, Moves(c), PcHolds(c)', UNCHANGED <<worldVars, commandVars>>,
         pc[c] \notin Settled \cup {"idle", "done"},
         pc[c] \in Parallel => Kind(c) = "init",
         pc'[c] \notin Settled,
         Kind(c) = "publish" => pc'[c] \notin AfterRemove,
         exit'[c] \in {None, 1},
         Clean(c)
  PROVE  IInv'
<1>1. UNCHANGED <<run, commit, platforms, files, open, sent, stored, answer, offered,
                  project, branchVars, dist, certs>>
  BY DEF worldVars, commandVars, requestVars
<1>2. exit'[c] # 0
  BY CommandAssumption
<1>3. Passes(c)
  BY <1>1, <1>2 DEF Passes
<1> QED
  BY <1>3, QuietKeeps

LEMMA AskKeeps ==
  ASSUME IInv, NEW c \in Command, UNCHANGED <<worldVars, commandVars>>,
         pc[c] \notin Settled \cup {"idle", "done"}, pc[c] \in Parallel => Kind(c) = "init",
         NEW q \in PcOf[Kind(c)], q \in Question, Ask(c, q),
         ~(Kind(c) = "publish" /\ run[c].nonInteractive),
         Kind(c) = "publish" =>
           /\ q \in Committing /\ Undisturbed(c) => RepoExists
           /\ q \in AfterClean => pc[c] \in AfterClean
  PROVE  IInv'
<1>1. PcHolds(c) /\ run'[c] = run[c] /\ exit[c] = None
  BY ActiveCommand DEF IInv, Local, commandVars
<1>2. PcHolds(c)' /\ Moves(c) /\ pc'[c] \in {q, "done"} /\ exit'[c] \in {None, 1}
  BY <1>1, PcAfterAsk, AskMoves DEF IInv
<1>3. pc'[c] \notin Settled /\ pc'[c] \notin AfterHash /\ "done" \notin Committing \cup AfterClean
  BY <1>2 DEF Question, Settled, Answering, AfterRemove, AfterHash, AfterClean, Committing
<1>4. Clean(c)
  BY <1>2, <1>3
     DEF Clean, IInv, Local, ShipsHold, AfterClean, RepoExists, worldVars, sourceVars
<1> QED
  BY <1>2, <1>3, <1>4, PassesByClean DEF AfterHash

LEMMA ReturnKeeps ==
  ASSUME IInv, NEW c \in Command, UNCHANGED <<worldVars, commandVars>>,
         pc[c] \notin Settled \cup {"idle", "done"}, pc[c] \in Parallel => Kind(c) = "init",
         NEW s \in PcOf[Kind(c)], s \notin Question \cup Settled, Return(c, s),
         Kind(c) = "publish" =>
           /\ s \notin AfterHash
           /\ s \in Committing /\ Undisturbed(c) => RepoExists
           /\ s \in AfterClean /\ Undisturbed(c) => head = tree /\ RepoExists
  PROVE  IInv'
<1>1. PcHolds(c) /\ run'[c] = run[c] /\ exit[c] = None
  BY ActiveCommand DEF IInv, Local, commandVars
<1>2. PcHolds(c)' /\ Moves(c) /\ pc'[c] = s /\ exit'[c] = None
  BY <1>1, PcAfterReturn, ReturnMoves DEF IInv
<1>3. Clean(c)
  BY <1>2 DEF Clean, RepoExists, worldVars, sourceVars
<1> QED
  BY <1>2, <1>3, PassesByClean DEF AfterHash

LEMMA EnsureRepoIsCleanKeeps == ASSUME IInv, NEW c \in Command, EnsureRepoIsClean(c) PROVE IInv'
<1>1. pc[c] = "clean" /\ PcHolds(c) /\ UNCHANGED <<worldVars, commandVars>>
  BY DEF IInv, Local, EnsureRepoIsClean
<1>2. Kind(c) = "publish" /\ run[c] # None /\ run[c] \in Invocation[c]
  BY <1>1, ActiveCommand, KindsAt
<1>3. CASE /\ Proceed(c)
           /\ ~run[c].check \/ VcsClient(run[c]) = "none" \/ (RepoExists /\ ~IsCommitRequired(c))
  <2>1. Return(c, "config")
    BY <1>1, <1>2, <1>3 DEF Proceed, Return, Stages, PublishStages
  <2>2. Undisturbed(c) => head = tree /\ RepoExists
    BY <1>3 DEF IInv, WorldHolds, Undisturbed, RepoExists, IsCommitRequired, GitStatus
  <2>3. "config" \in PcOf[Kind(c)]
    BY <1>2 DEF PcOf, PublishStages
  <2> QED
    BY <1>1, <1>2, <2>1, <2>2, <2>3, ReturnKeeps
       DEF Question, Settled, Answering, Parallel, Requesting, AfterRemove, AfterHash,
           Committing
<1>4. CASE Exit(c, 1)
  BY <1>1, <1>4, FailureKeeps DEF Settled, Answering, Parallel, Requesting
<1>5. CASE Ask(c, "commit?") /\ ~run[c].nonInteractive /\ RepoExists
  <2>1. "commit?" \in PcOf[Kind(c)]
    BY <1>2 DEF PcOf
  <2> QED
    BY <1>1, <1>2, <1>5, <2>1, AskKeeps
       DEF Question, Settled, Answering, Parallel, Requesting, AfterRemove, AfterHash,
           AfterClean, RepoExists
<1> QED
  BY <1>3, <1>4, <1>5 DEF EnsureRepoIsClean

LEMMA EnsureRepoExistsKeeps == ASSUME IInv, NEW c \in Command, EnsureRepoExists(c) PROVE IInv'
<1>1. pc[c] = "repo" /\ PcHolds(c) /\ UNCHANGED <<worldVars, commandVars>>
  BY DEF IInv, Local, EnsureRepoExists
<1>2. Kind(c) \in {"rollback", "republish"}
  BY <1>1, ActiveCommand, KindsAt
<1>3. CASE Proceed(c)
  <2>1. \E s \in {"hash", "expo"} : s \in PcOf[Kind(c)] /\ Return(c, s)
    BY <1>1, <1>2, <1>3
       DEF Proceed, Return, Stages, RollbackStages, RepublishStages, PcOf
  <2> QED
    BY <1>1, <1>2, <2>1, ReturnKeeps
       DEF Question, Settled, Answering, Parallel, Requesting
<1>4. CASE Ask(c, "init?")
  <2>1. "init?" \in PcOf[Kind(c)]
    BY <1>2 DEF PcOf
  <2> QED
    BY <1>1, <1>2, <1>4, <2>1, AskKeeps DEF Question, Settled, Answering, Parallel, Requesting
<1>5. CASE Exit(c, 1)
  BY <1>1, <1>5, FailureKeeps DEF Settled, Answering, Parallel, Requesting
<1> QED
  BY <1>3, <1>4, <1>5 DEF EnsureRepoExists

LEMMA ConfirmKeeps == ASSUME IInv, NEW c \in Command, Confirm(c) PROVE IInv'
<1>1. pc[c] = "confirm" /\ PcHolds(c) /\ UNCHANGED <<worldVars, commandVars>>
  BY DEF IInv, Local, Confirm
<1>2. Kind(c) \in {"publish", "rollback"}
  BY <1>1, ActiveCommand, KindsAt
<1>3. Kind(c) = "publish" /\ Undisturbed(c) => head = tree /\ RepoExists
  BY <1>1 DEF IInv, Local, ShipsHold, AfterClean
<1>4. CASE Proceed(c)
  <2>1. \E s \in {"hash", "config"} : s \in PcOf[Kind(c)] /\ Return(c, s)
    BY <1>1, <1>2, <1>4
       DEF Proceed, Return, Stages, PublishStages, RollbackStages, PcOf
  <2> QED
    BY <1>1, <1>2, <1>3, <2>1, ReturnKeeps
       DEF Question, Settled, Answering, Parallel, Requesting, AfterRemove, AfterHash,
           Committing
<1>5. CASE Ask(c, "confirm?") /\ ~run[c].nonInteractive
  <2>1. "confirm?" \in PcOf[Kind(c)]
    BY <1>2 DEF PcOf
  <2> QED
    BY <1>1, <1>2, <1>3, <1>5, <2>1, AskKeeps
       DEF Question, Settled, Answering, Parallel, Requesting, AfterClean, Committing
<1> QED
  BY <1>4, <1>5 DEF Confirm

LEMMA SayYesKeeps == ASSUME IInv, NEW c \in Command, SayYes(c) PROVE IInv'
<1>1. /\ pc[c] \in {"commit?", "confirm?", "replace?"} /\ PcHolds(c)
      /\ UNCHANGED <<worldVars, commandVars>>
  BY DEF IInv, Local, SayYes
<1>2. Kind(c) \in Kinds /\ pc[c] \in PcOf[Kind(c)] /\ run[c] # None
  BY <1>1, ActiveCommand
<1>3. ~(Kind(c) = "publish" /\ run[c].nonInteractive)
  BY <1>1 DEF PcHolds, Question
<1>4. CASE pc[c] = "commit?" /\ Ask(c, "message?")
  <2>1. Kind(c) = "publish"
    BY <1>2, <1>4, KindsAt
  <2>2. "message?" \in PcOf[Kind(c)] /\ (Undisturbed(c) => RepoExists)
    BY <1>4, <2>1 DEF PcOf, IInv, Local, ShipsHold, Committing
  <2> QED
    BY <1>1, <1>3, <1>4, <2>2, AskKeeps
       DEF Question, Settled, Answering, Parallel, Requesting, AfterRemove, AfterHash,
           AfterClean
<1>5. CASE /\ pc[c] = "confirm?"
           /\ Return(c, IF Kind(c) = "publish" THEN "hash" ELSE "config")
  <2>1. Kind(c) \in {"publish", "rollback"}
    BY <1>2, <1>5, KindsAt
  <2>2. Kind(c) = "publish" /\ Undisturbed(c) => head = tree /\ RepoExists
    BY <1>5 DEF IInv, Local, ShipsHold, AfterClean
  <2>3. \E s \in {"hash", "config"} : s \in PcOf[Kind(c)] /\ Return(c, s)
    BY <1>5, <2>1 DEF PcOf, PublishStages, RollbackStages
  <2> QED
    BY <1>1, <1>5, <2>1, <2>2, <2>3, ReturnKeeps
       DEF Question, Settled, Answering, Parallel, Requesting, AfterRemove, AfterHash,
           Committing
<1>6. CASE pc[c] = "replace?" /\ Ask(c, "certificate?")
  <2>1. Kind(c) = "init"
    BY <1>2, <1>6, KindsAt
  <2>2. "certificate?" \in PcOf[Kind(c)]
    BY <2>1 DEF PcOf
  <2> QED
    BY <1>1, <1>6, <2>1, <2>2, AskKeeps DEF Question, Settled, Answering
<1> QED
  BY <1>1, <1>4, <1>5, <1>6 DEF SayYes

LEMMA CommitMessageKeeps == ASSUME IInv, NEW c \in Command, CommitMessage(c) PROVE IInv'
<1>1. pc[c] = "message?" /\ PcHolds(c) /\ UNCHANGED <<worldVars, commandVars>>
  BY DEF IInv, Local, CommitMessage
<1>2. Kind(c) \in {"publish", "rollback", "republish"}
  BY <1>1, ActiveCommand, KindsAt
<1>3. ~(Kind(c) = "publish" /\ run[c].nonInteractive)
  BY <1>1 DEF PcHolds, Question
<1>4. Kind(c) = "publish" /\ Undisturbed(c) => RepoExists
  BY <1>1 DEF IInv, Local, ShipsHold, Committing
<1>5. CASE Return(c, "commit")
  <2>1. "commit" \in PcOf[Kind(c)]
    BY <1>2 DEF PcOf
  <2> QED
    BY <1>1, <1>4, <1>5, <2>1, ReturnKeeps
       DEF Question, Settled, Answering, Parallel, Requesting, AfterRemove, AfterHash,
           AfterClean
<1>6. CASE Ask(c, "identity?")
  <2>1. "identity?" \in PcOf[Kind(c)]
    BY <1>2 DEF PcOf
  <2> QED
    BY <1>1, <1>3, <1>4, <1>6, <2>1, AskKeeps
       DEF Question, Settled, Answering, Parallel, Requesting, AfterRemove, AfterHash,
           AfterClean
<1> QED
  BY <1>5, <1>6 DEF CommitMessage

LEMMA SelectRuntimeVersionKeeps ==
  ASSUME IInv, NEW c \in Command, SelectRuntimeVersion(c)
  PROVE  IInv'
<1>1. /\ pc[c] = "version?" /\ PcHolds(c) /\ UNCHANGED <<worldVars, commandVars>>
      /\ Return(c, "updates")
  BY DEF IInv, Local, SelectRuntimeVersion
<1>2. Kind(c) = "republish"
  BY <1>1, ActiveCommand, KindsAt
<1>3. "updates" \in PcOf[Kind(c)]
  BY <1>2 DEF PcOf, RepublishStages
<1> QED
  BY <1>1, <1>2, <1>3, ReturnKeeps DEF Question, Settled, Answering, Parallel, Requesting

LEMMA EnterCertificateKeeps == ASSUME IInv, NEW c \in Command, EnterCertificate(c) PROVE IInv'
<1>1. /\ pc[c] = "certificate?" /\ PcHolds(c) /\ UNCHANGED <<worldVars, commandVars>>
      /\ Return(c, "write")
  BY DEF IInv, Local, EnterCertificate
<1>2. Kind(c) = "init"
  BY <1>1, ActiveCommand, KindsAt
<1>3. "write" \in PcOf[Kind(c)]
  BY <1>2 DEF PcOf
<1> QED
  BY <1>1, <1>2, <1>3, ReturnKeeps DEF Question, Settled, Answering

LEMMA AskUrlKeeps == ASSUME IInv, NEW c \in Command, AskUrl(c) PROVE IInv'
<1>1. /\ pc[c] = "url" /\ Kind(c) = "init" /\ UNCHANGED <<worldVars, commandVars>>
      /\ Ask(c, "url?")
  BY DEF AskUrl
<1>2. "url?" \in PcOf[Kind(c)]
  BY <1>1 DEF PcOf
<1> QED
  BY <1>1, <1>2, AskKeeps DEF Question, Settled, Answering

LEMMA AskWhereKeeps == ASSUME IInv, NEW c \in Command, AskWhere(c) PROVE IInv'
<1>1. /\ pc[c] = "where" /\ PcHolds(c) /\ UNCHANGED <<worldVars, commandVars>>
      /\ Ask(c, "where?")
  BY DEF IInv, Local, AskWhere
<1>2. Kind(c) = "certs"
  BY <1>1, ActiveCommand, KindsAt
<1>3. "where?" \in PcOf[Kind(c)]
  BY <1>2 DEF PcOf
<1> QED
  BY <1>1, <1>2, <1>3, AskKeeps DEF Question, Settled, Answering, Parallel, Requesting

LEMMA EnterCertificateNamesKeeps ==
  ASSUME IInv, NEW c \in Command, EnterCertificateNames(c)
  PROVE  IInv'
<1>1. /\ pc[c] = "where?" /\ PcHolds(c) /\ UNCHANGED <<worldVars, commandVars>>
      /\ Return(c, "keys")
  BY DEF IInv, Local, EnterCertificateNames
<1>2. Kind(c) = "certs"
  BY <1>1, ActiveCommand, KindsAt
<1>3. "keys" \in PcOf[Kind(c)]
  BY <1>2 DEF PcOf, GenerateCertsStages
<1> QED
  BY <1>1, <1>2, <1>3, ReturnKeeps DEF Question, Settled, Answering, Parallel, Requesting

LEMMA StageFailsKeeps == ASSUME IInv, NEW c \in Command, StageFails(c) PROVE IInv'
BY FailureKeeps DEF StageFails, Settled, Answering, Parallel, Requesting

--------------------------------------------------------------------------------
(* Steps that change the sources, the config or what was read of it *)

\* The steps that pass, with a change of the world.
LEMMA PassingKeeps ==
  ASSUME IInv, NEW c \in Command, Passes(c), SourcesBy(c), Clean(c), WorldHolds',
         identity' \in BOOLEAN, changes' \subseteq {"tracked", "untracked"},
         dirtied' \subseteq Command, DOMAIN read' = Command,
         \A d \in Command \ {c} : read'[d] = read[d]
  PROVE  IInv'
<1>1. /\ Moves(c) /\ PcHolds(c)' /\ run' = run
      /\ UNCHANGED <<commit, platforms, files, open, sent, stored, answer, offered,
                     project, branchVars, dist, certs>>
  BY DEF Passes
<1>2. TypeOK'
  <2>1. \A d \in Command : pc'[d] \in Question => run'[d].tty
    BY <1>1 DEF IInv, TypeOK, PcHolds, Moves
  <2>2. /\ exit' \in [Command -> {None, 0, 1, 130}]
        /\ repo' \in BOOLEAN /\ head' \in Nat /\ tree' \in Nat /\ head' <= tree'
    BY <1>1 DEF Moves, WorldHolds
  <2> QED
    BY <1>1, <2>1, <2>2 DEF IInv, TypeOK
<1>3. FunctionsHold'
  <2>1. /\ DOMAIN run' = DOMAIN run /\ DOMAIN open' = DOMAIN open
        /\ DOMAIN sent' = DOMAIN sent /\ DOMAIN offered' = DOMAIN offered
    BY <1>1
  <2>2. DOMAIN pc' = Command
    BY <1>1 DEF Moves
  <2> QED
    BY <2>1, <2>2 DEF IInv, FunctionsHold
<1>4. WorldBy(c)
  BY <1>1, WorldButSources DEF IInv
<1>5. \A d \in Command \ {c} : OwnSame(d)
  BY <1>1 DEF OwnSame, Moves
<1>6. Local(c)'
  BY PassesLocal DEF IInv
<1> QED
  BY <1>2, <1>3, <1>4, <1>5, <1>6, StepKeeps

\* The steps of init: nothing a publish relies on is theirs.
LEMMA InitKeeps ==
  ASSUME IInv, NEW c \in Command, Kind(c) = "init", pc[c] \notin {"idle", "done"},
         Moves(c), PcHolds(c)', SourcesBy(c), WorldHolds',
         UNCHANGED <<run, commit, platforms, files, open, sent, stored, answer, offered,
                     project, branchVars, dist, certs>>,
         identity' \in BOOLEAN, changes' \subseteq {"tracked", "untracked"},
         dirtied' \subseteq Command, DOMAIN read' = Command,
         \A d \in Command \ {c} : read'[d] = read[d]
  PROVE  IInv'
<1>1. PcHolds(c) /\ run[c] # None /\ Kind(c)' = "init"
  BY ActiveCommand DEF IInv, Local, Kind
<1>2. pc[c] \in PcOf["init"] /\ pc'[c] \in PcOf["init"]
  BY <1>1 DEF PcHolds
<1>3. PcOf["init"] \cap Settled = {}
  BY DEF PcOf, InitStages, Settled, Answering
<1>4. Passes(c)
  BY <1>2, <1>3 DEF Passes
<1>5. Clean(c)
  BY DEF Clean
<1> QED
  BY <1>4, <1>5, PassingKeeps

LEMMA InitQuietKeeps ==
  ASSUME IInv, NEW c \in Command, Kind(c) = "init", pc[c] \notin {"idle", "done"},
         Moves(c), PcHolds(c)', UNCHANGED worldVars,
         UNCHANGED <<run, commit, platforms, files, requestVars>>,
         DOMAIN read' = Command, \A d \in Command \ {c} : read'[d] = read[d]
  PROVE  IInv'
<1>1. SourcesBy(c) /\ WorldHolds'
  BY WorldSame DEF IInv, WorldBy
<1>2. /\ identity' \in BOOLEAN /\ changes' \subseteq {"tracked", "untracked"}
      /\ dirtied' \subseteq Command
  BY DEF IInv, TypeOK, worldVars, sourceVars
<1>3. UNCHANGED <<run, commit, platforms, files, open, sent, stored, answer, offered,
                  project, branchVars, dist, certs>>
  BY DEF worldVars, requestVars
<1> QED
  BY <1>1, <1>2, <1>3, InitKeeps

LEMMA ReadsOnlyOwn ==
  ASSUME FunctionsHold, NEW c \in Command, NEW new,
         \/ UNCHANGED read
         \/ read' = [read EXCEPT ![c] = new]
  PROVE  DOMAIN read' = Command /\ \A d \in Command \ {c} : read'[d] = read[d]
BY DEF FunctionsHold

LEMMA SayNoKeeps == ASSUME IInv, NEW c \in Command, SayNo(c) PROVE IInv'
<1>1. /\ pc[c] \in {"commit?", "init?", "confirm?", "replace?", "certificate?"} /\ PcHolds(c)
      /\ UNCHANGED worldVars /\ UNCHANGED <<run, commit, platforms, files, requestVars>>
      /\ run'[c] = run[c]
  BY DEF IInv, Local, SayNo
<1>2. Kind(c) \in Kinds /\ pc[c] \in PcOf[Kind(c)]
  BY <1>1, ActiveCommand
<1>3. CASE pc[c] = "replace?" /\ Ask(c, "certificate?") /\ read' = [read EXCEPT ![c].server = None]
  <2>1. Kind(c) = "init"
    BY <1>2, <1>3, KindsAt
  <2>2. "certificate?" \in PcOf[Kind(c)]
    BY <2>1 DEF PcOf
  <2>3. PcHolds(c)' /\ Moves(c)
    BY <1>1, <1>3, <2>1, <2>2, PcAfterAsk, AskMoves DEF IInv
  <2>4. DOMAIN read' = Command /\ \A d \in Command \ {c} : read'[d] = read[d]
    BY <1>3, ReadsOnlyOwn DEF IInv
  <2> QED
    BY <1>1, <1>3, <2>1, <2>3, <2>4, InitQuietKeeps
<1>4. CASE pc[c] = "certificate?" /\ Exit(c, 0) /\ UNCHANGED read
  <2>1. Kind(c) = "init"
    BY <1>2, <1>4, KindsAt
  <2>2. PcHolds(c)' /\ Moves(c)
    BY <1>1, <1>4, PcAfterExit, ExitMoves DEF IInv
  <2>3. DOMAIN read' = Command /\ \A d \in Command \ {c} : read'[d] = read[d]
    BY <1>4, ReadsOnlyOwn DEF IInv
  <2> QED
    BY <1>1, <1>4, <2>1, <2>2, <2>3, InitQuietKeeps
<1>5. CASE pc[c] \in {"commit?", "init?", "confirm?"} /\ Exit(c, 1) /\ UNCHANGED read
  <2>1. UNCHANGED <<worldVars, commandVars>>
    BY <1>1, <1>5 DEF commandVars
  <2> QED
    BY <1>1, <1>5, <2>1, FailureKeeps DEF Settled, Answering, Parallel, Requesting
<1> QED
  BY <1>1, <1>3, <1>4, <1>5 DEF SayNo

LEMMA EnterUrlKeeps == ASSUME IInv, NEW c \in Command, EnterUrl(c) PROVE IInv'
<1>1. /\ pc[c] = "url?" /\ PcHolds(c)
      /\ UNCHANGED worldVars /\ UNCHANGED <<run, commit, platforms, files, requestVars>>
      /\ run'[c] = run[c]
      /\ \E server \in Origin : read' = [read EXCEPT ![c].server = server]
  BY DEF IInv, Local, EnterUrl
<1>2. Kind(c) = "init"
  BY <1>1, ActiveCommand, KindsAt
<1>3. \E q \in {"replace?", "certificate?"} : q \in PcOf[Kind(c)] /\ Ask(c, q)
  BY <1>2 DEF EnterUrl, PcOf
<1>4. PcHolds(c)' /\ Moves(c)
  BY <1>1, <1>2, <1>3, PcAfterAsk, AskMoves DEF IInv
<1>5. DOMAIN read' = Command /\ \A d \in Command \ {c} : read'[d] = read[d]
  BY <1>1 DEF IInv, FunctionsHold
<1> QED
  BY <1>1, <1>2, <1>4, <1>5, InitQuietKeeps

LEMMA WriteConfigKeeps == ASSUME IInv, NEW c \in Command, WriteConfig(c) PROVE IInv'
<1>1. /\ pc[c] = "write" /\ PcHolds(c) /\ Exit(c, 0)
      /\ UNCHANGED <<project, identity, certs, dist, branchVars, commandVars>>
      /\ run'[c] = run[c]
  BY DEF IInv, Local, WriteConfig, commandVars
<1>2. Kind(c) = "init"
  BY <1>1, ActiveCommand, KindsAt
<1>3. PcHolds(c)' /\ Moves(c)
  BY <1>1, PcAfterExit, ExitMoves DEF IInv
<1>4. /\ UNCHANGED <<run, commit, platforms, files, open, sent, stored, answer, offered,
                     project, branchVars, dist, certs>>
      /\ identity' \in BOOLEAN
      /\ DOMAIN read' = Command /\ \A d \in Command \ {c} : read'[d] = read[d]
  BY <1>1 DEF commandVars, requestVars, IInv, TypeOK, FunctionsHold
<1>5. /\ SourcesBy(c) /\ WorldHolds' /\ changes' \subseteq {"tracked", "untracked"}
      /\ dirtied' \subseteq Command
  <2>1. CASE RewritesConfig(config.form)
    <3>1. /\ config' = [form |-> FormAfterInit(config.form), url |-> Endpoint(c),
                        header |-> "entered"]
          /\ Touch(c, "untracked")
      BY <2>1 DEF WriteConfig
    <3>2. config'.form # "none"
      BY <2>1, <3>1 DEF RewritesConfig, FormAfterInit
    <3> QED
      BY <1>4, <3>1, <3>2, TouchSources, BranchStays DEF IInv, WorldHolds
  <2>2. CASE ~RewritesConfig(config.form)
    <3>1. UNCHANGED <<config, repo, head, tree, changes, dirtied>>
      BY <2>2 DEF WriteConfig, sourceVars
    <3> QED
      BY <1>4, <3>1, SourcesStay, BranchStays DEF IInv, WorldHolds, TypeOK
  <2> QED
    BY <2>1, <2>2
<1> QED
  BY <1>1, <1>2, <1>3, <1>4, <1>5, InitKeeps

LEMMA ReadConfigKeeps == ASSUME IInv, NEW c \in Command, ReadConfig(c) PROVE IInv'
<1>1. /\ pc[c] = "config" /\ PcHolds(c)
      /\ UNCHANGED <<project, identity, certs, dist, branchVars, run, commit, platforms,
                     files, requestVars>>
      /\ Proceed(c) \/ Exit(c, 1)
      /\ run'[c] = run[c]
  BY DEF IInv, Local, ReadConfig
<1>2. Kind(c) \in Kinds /\ pc[c] \in PcOf[Kind(c)]
  BY <1>1, ActiveCommand
<1>3. Kind(c) # "certs"
  BY <1>1, <1>2 DEF PcOf, GenerateCertsStages
<1>4. PcHolds(c)' /\ Moves(c) /\ exit'[c] \in {None, 1}
  <2>1. CASE Proceed(c)
    BY <1>1, <2>1, ProceedMoves, PcAfterProceed, ActiveCommand DEF IInv, Question
  <2>2. CASE Exit(c, 1)
    BY <1>1, <2>2, ExitMoves, PcAfterExit DEF IInv
  <2> QED
    BY <1>1, <2>1, <2>2
<1>5. \/ pc'[c] = "done"
      \/ Kind(c) = "publish" /\ pc'[c] = "confirm"
      \/ Kind(c) = "rollback" /\ pc'[c] = "runtime"
      \/ Kind(c) = "republish" /\ pc'[c] = "versions"
      \/ Kind(c) = "init" /\ pc'[c] = "url"
  <2>1. CASE Proceed(c)
    <3>1. pc'[c] = Stages[Kind(c)]["config"]
      BY <1>1, <2>1, ProceedMoves DEF IInv
    <3> QED
      BY <1>2, <1>3, <3>1
         DEF Kinds, Stages, PublishStages, RollbackStages, RepublishStages, InitStages
  <2>2. CASE Exit(c, 1)
    BY <2>2, ExitMoves DEF IInv
  <2> QED
    BY <1>1, <2>1, <2>2
<1>6. /\ UNCHANGED <<run, commit, platforms, files, open, sent, stored, answer, offered,
                     project, branchVars, dist, certs>>
      /\ identity' \in BOOLEAN
      /\ DOMAIN read' = Command /\ \A d \in Command \ {c} : read'[d] = read[d]
  BY <1>1 DEF requestVars, IInv, TypeOK, FunctionsHold, ReadConfig
<1>7. /\ SourcesBy(c) /\ WorldHolds' /\ changes' \subseteq {"tracked", "untracked"}
      /\ dirtied' \subseteq Command
      /\ \/ UNCHANGED <<project, repo, head, tree>>
         \/ Kind(c) = "publish" => pc'[c] = "done"
  <2>1. CASE config.form = "none"
    <3>1. config' = [config EXCEPT !.form = "static"] /\ Touch(c, "untracked")
      BY <2>1 DEF ReadConfig
    <3>2. Kind(c) = "publish" => pc'[c] = "done"
      <4>1. ServerUrl(config) = None
        BY <2>1 DEF IInv, WorldHolds, ServerUrl
      <4>2. Kind(c) = "publish" => Exit(c, 1)
        BY <4>1 DEF ReadConfig
      <4> QED
        BY <4>2, ExitMoves DEF IInv
    <3>3. config'.form = "none" => config'.url = None
      BY <2>1, <3>1 DEF IInv, WorldHolds
    <3> QED
      BY <1>6, <3>1, <3>2, <3>3, TouchSources, BranchStays DEF IInv, WorldHolds
  <2>2. CASE config.form # "none"
    <3>1. UNCHANGED <<config, repo, head, tree, changes, dirtied>>
      BY <2>2 DEF ReadConfig, sourceVars
    <3> QED
      BY <1>6, <3>1, SourcesStay, BranchStays DEF IInv, WorldHolds, TypeOK
  <2> QED
    BY <2>1, <2>2
<1>8. Passes(c)
  BY <1>1, <1>4, <1>5, <1>6, CommandAssumption
     DEF Passes, Settled, Answering, Parallel, Requesting, AfterRemove
<1>9. Clean(c)
  <2>1. CASE UNCHANGED <<project, repo, head, tree>>
    BY <1>1, <1>5, <2>1, StaysClean DEF IInv, AfterClean, AfterHash, AfterRemove, Committing
  <2>2. CASE Kind(c) = "publish" => pc'[c] = "done"
    BY <2>2 DEF Clean, AfterClean, AfterHash, AfterRemove, Committing
  <2> QED
    BY <1>7, <2>1, <2>2
<1> QED
  BY <1>6, <1>7, <1>8, <1>9, PassingKeeps

LEMMA GitInitKeeps == ASSUME IInv, NEW c \in Command, GitInit(c) PROVE IInv'
<1>1. /\ pc[c] = "init?" /\ PcHolds(c) /\ repo' = TRUE /\ Ask(c, "message?")
      /\ UNCHANGED <<project, config, identity, certs, head, tree, changes, dirtied, dist,
                     branchVars, commandVars>>
      /\ run'[c] = run[c]
  BY DEF IInv, Local, GitInit, commandVars
<1>2. Kind(c) \in {"rollback", "republish"}
  BY <1>1, ActiveCommand, KindsAt
<1>3. "message?" \in PcOf[Kind(c)]
  BY <1>2 DEF PcOf
<1>4. PcHolds(c)' /\ Moves(c) /\ pc'[c] \in {"message?", "done"} /\ exit'[c] \in {None, 1}
  BY <1>1, <1>2, <1>3, PcAfterAsk, AskMoves, ActiveCommand DEF IInv
<1>5. /\ UNCHANGED <<run, commit, platforms, files, open, sent, stored, answer, offered,
                     project, branchVars, dist, certs>>
      /\ identity' \in BOOLEAN /\ changes' \subseteq {"tracked", "untracked"}
      /\ dirtied' \subseteq Command
      /\ DOMAIN read' = Command /\ \A d \in Command \ {c} : read'[d] = read[d]
  BY <1>1 DEF commandVars, requestVars, IInv, TypeOK, FunctionsHold
<1>6. SourcesBy(c) /\ WorldHolds'
  BY <1>1, BranchStays DEF IInv, WorldHolds, SourcesBy
<1>7. Passes(c)
  BY <1>1, <1>2, <1>4, <1>5, CommandAssumption
     DEF Passes, Settled, Answering, Parallel, Requesting, AfterRemove
<1>8. Clean(c)
  BY <1>2 DEF Clean
<1> QED
  BY <1>5, <1>6, <1>7, <1>8, PassingKeeps

LEMMA ConfigureGitKeeps == ASSUME IInv, NEW c \in Command, ConfigureGit(c) PROVE IInv'
<1>1. /\ pc[c] = "identity?" /\ PcHolds(c) /\ identity' = TRUE /\ Return(c, "commit")
      /\ UNCHANGED <<project, config, sourceVars, certs, dist, branchVars, commandVars>>
      /\ run'[c] = run[c]
  BY DEF IInv, Local, ConfigureGit, commandVars
<1>2. Kind(c) \in {"publish", "rollback", "republish"}
  BY <1>1, ActiveCommand, KindsAt
<1>3. "commit" \in PcOf[Kind(c)] /\ "commit" \notin Question
  BY <1>2 DEF PcOf, Question
<1>4. PcHolds(c)' /\ Moves(c) /\ pc'[c] = "commit" /\ exit'[c] = None
  BY <1>1, <1>3, PcAfterReturn, ReturnMoves, ActiveCommand DEF IInv
<1>5. /\ UNCHANGED <<run, commit, platforms, files, open, sent, stored, answer, offered,
                     project, branchVars, dist, certs>>
      /\ identity' \in BOOLEAN /\ changes' \subseteq {"tracked", "untracked"}
      /\ dirtied' \subseteq Command
      /\ DOMAIN read' = Command /\ \A d \in Command \ {c} : read'[d] = read[d]
  BY <1>1 DEF commandVars, requestVars, sourceVars, IInv, TypeOK, FunctionsHold
<1>6. SourcesBy(c) /\ WorldHolds' /\ UNCHANGED <<project, repo, head, tree>>
  BY <1>1, SourcesStay, BranchStays DEF IInv, WorldHolds, sourceVars
<1>7. Passes(c)
  BY <1>1, <1>2, <1>4, <1>5, CommandAssumption
     DEF Passes, Settled, Answering, Parallel, Requesting, AfterRemove
<1>8. Clean(c)
  BY <1>1, <1>4, <1>6, StaysClean DEF IInv, AfterClean, AfterHash, AfterRemove, Committing
<1> QED
  BY <1>5, <1>6, <1>7, <1>8, PassingKeeps

LEMMA CommitKeeps == ASSUME IInv, NEW c \in Command, Commit(c) PROVE IInv'
<1>1. /\ pc[c] = "commit" /\ PcHolds(c)
      /\ UNCHANGED <<project, config, repo, identity, certs, tree, dirtied, dist,
                     branchVars, commandVars>>
      /\ run'[c] = run[c]
  BY DEF IInv, Local, Commit, commandVars
<1>2. Kind(c) \in {"publish", "rollback", "republish"}
  BY <1>1, ActiveCommand, KindsAt
<1>3. CASE changes = {}
  <2>1. Exit(c, 1) /\ UNCHANGED <<worldVars, commandVars>>
    BY <1>1, <1>3 DEF Commit, worldVars, sourceVars
  <2> QED
    BY <1>1, <2>1, FailureKeeps DEF Settled, Answering, Parallel, Requesting
<1>4. CASE changes # {}
  <2>1. head' = tree /\ changes' = {}
    BY <1>4 DEF Commit
  <2>2. \E s \in PcOf[Kind(c)] :
          /\ Return(c, s) /\ s \in {"config", "hash", "expo"}
          /\ Kind(c) = "publish" => s = "config"
    BY <1>2, <1>4 DEF Commit, PcOf, PublishStages, RollbackStages, RepublishStages
  <2>3. /\ PcHolds(c)' /\ Moves(c) /\ pc'[c] \in {"config", "hash", "expo"}
        /\ Kind(c) = "publish" => pc'[c] = "config"
        /\ exit'[c] = None
    BY <1>1, <2>2, PcAfterReturn, ReturnMoves, ActiveCommand DEF IInv, Question
  <2>4. /\ UNCHANGED <<run, commit, platforms, files, open, sent, stored, answer, offered,
                       project, branchVars, dist, certs>>
        /\ identity' \in BOOLEAN /\ changes' \subseteq {"tracked", "untracked"}
        /\ dirtied' \subseteq Command
        /\ DOMAIN read' = Command /\ \A d \in Command \ {c} : read'[d] = read[d]
    BY <1>1, <2>1 DEF commandVars, requestVars, IInv, TypeOK, FunctionsHold
  <2>5. SourcesBy(c) /\ WorldHolds'
    BY <1>1, <2>1, BranchStays DEF IInv, WorldHolds, SourcesBy
  <2>6. Passes(c)
    BY <1>1, <1>2, <2>3, <2>4, CommandAssumption
       DEF Passes, Settled, Answering, Parallel, Requesting, AfterRemove
  <2>7. Clean(c)
    BY <1>1, <2>1, <2>3
       DEF IInv, Local, ShipsHold, Clean, Committing, AfterHash, AfterRemove, RepoExists
  <2> QED
    BY <2>4, <2>5, <2>6, <2>7, PassingKeeps
<1> QED
  BY <1>3, <1>4

--------------------------------------------------------------------------------
(* Steps that change what a command has of its own *)

OnlyAt(c, f, g) == DOMAIN g = DOMAIN f /\ \A d \in DOMAIN f \ {c} : g[d] = f[d]

OwnOnly(c) ==
  /\ OnlyAt(c, run, run') /\ OnlyAt(c, read, read') /\ OnlyAt(c, commit, commit')
  /\ OnlyAt(c, platforms, platforms') /\ OnlyAt(c, files, files') /\ OnlyAt(c, open, open')
  /\ OnlyAt(c, sent, sent') /\ OnlyAt(c, stored, stored') /\ OnlyAt(c, answer, answer')
  /\ OnlyAt(c, offered, offered')

\* What its own types are beyond what Local says.
OwnTypeOK(c) ==
  /\ commit' = [commit EXCEPT ![c] = commit'[c]]
  /\ platforms' = [platforms EXCEPT ![c] = platforms'[c]]
  /\ files' = [files EXCEPT ![c] = files'[c]] /\ files'[c] \subseteq File
  /\ stored' = [stored EXCEPT ![c] = stored'[c]] /\ stored'[c] \subseteq Platform \X File
  /\ answer' = [answer EXCEPT ![c] = answer'[c]]
  /\ answer'[c] \in [Platform -> Answer \cup {None}]

LEMMA OwnStepTypes ==
  ASSUME IInv, NEW c \in Command, Moves(c), OwnOnly(c), OwnTypeOK(c), Local(c)',
         run'[c] \in Invocation[c] \cup {None}
  PROVE  /\ \A d \in Command : run'[d] \in Invocation[d] \cup {None}
         /\ commit' \in [Command -> Nat]
         /\ platforms' \in [Command -> SUBSET Platform]
         /\ files' \in [Command -> SUBSET File]
         /\ stored' \in [Command -> SUBSET (Platform \X File)]
         /\ answer' \in [Command -> [Platform -> Answer \cup {None}]]
         /\ \A d \in Command : \A u \in offered'[d] : u.platform \in Platform
         /\ \A d \in Command : pc'[d] \in Question => run'[d].tty
<1> USE DEF OwnOnly, OnlyAt
<1>1. \A d \in Command : run'[d] \in Invocation[d] \cup {None}
  BY DEF IInv, TypeOK, FunctionsHold
<1>2. commit' \in [Command -> Nat]
  <2>1. commit'[c] \in Nat
    BY DEF Local, CommitHolds
  <2> QED
    BY <2>1 DEF IInv, TypeOK, OwnTypeOK
<1>3. platforms' \in [Command -> SUBSET Platform]
  <2>1. platforms'[c] \in SUBSET Platform
    BY DEF Local, RequestsHold
  <2> QED
    BY <2>1 DEF IInv, TypeOK, OwnTypeOK
<1>4. files' \in [Command -> SUBSET File]
  BY DEF IInv, TypeOK, OwnTypeOK
<1>5. stored' \in [Command -> SUBSET (Platform \X File)]
  BY DEF IInv, TypeOK, OwnTypeOK
<1>6. answer' \in [Command -> [Platform -> Answer \cup {None}]]
  BY DEF IInv, TypeOK, OwnTypeOK
<1>7. \A d \in Command : \A u \in offered'[d] : u.platform \in Platform
  BY DEF IInv, TypeOK, FunctionsHold, Local, RequestsHold
<1>8. \A d \in Command : pc'[d] \in Question => run'[d].tty
  BY DEF IInv, TypeOK, FunctionsHold, Local, PcHolds, Moves
<1> QED
  BY <1>1, <1>2, <1>3, <1>4, <1>5, <1>6, <1>7, <1>8

LEMMA OwnStepKeeps ==
  ASSUME IInv, NEW c \in Command, Moves(c), OwnOnly(c), OwnTypeOK(c), Local(c)',
         run'[c] \in Invocation[c] \cup {None}, WorldBy(c), WorldHolds',
         identity' \in BOOLEAN, changes' \subseteq {"tracked", "untracked"},
         dirtied' \subseteq Command, certs' \in [KeyFile -> Command \cup {None, "before"}]
  PROVE  IInv'
<1>1. TypeOK'
  BY OwnStepTypes DEF TypeOK, WorldHolds, Moves
<1>2. FunctionsHold'
  BY DEF IInv, FunctionsHold, Moves, OwnOnly, OnlyAt
<1>3. \A d \in Command \ {c} : OwnSame(d)
  BY DEF IInv, FunctionsHold, TypeOK, OwnOnly, OnlyAt, OwnSame, Moves
<1> QED
  BY <1>1, <1>2, <1>3, StepKeeps

\* ... with the sources, the config and the keys as they are.
LEMMA OwnKeeps ==
  ASSUME IInv, NEW c \in Command, Moves(c), OwnOnly(c), OwnTypeOK(c), Local(c)',
         run'[c] = run[c], UNCHANGED <<config, sourceVars, identity, certs>>,
         DirectoriesBy(c), DOMAIN dist' = Directories,
         \A dir \in Directories : DOMAIN dist'[dir] = {"export", "config"},
         project' = project, BranchBy(c), BranchHolds'
  PROVE  IInv'
<1>1. SourcesBy(c)
  BY SourcesStay DEF IInv, sourceVars
<1>2. \A d \in Command : run'[d] = run[d]
  BY DEF OwnOnly, OnlyAt, IInv, FunctionsHold
<1>3. WorldBy(c)
  BY <1>1, <1>2 DEF WorldBy
<1>4. WorldHolds'
  BY DEF IInv, WorldHolds, sourceVars
<1>5. /\ run'[c] \in Invocation[c] \cup {None} /\ identity' \in BOOLEAN
      /\ changes' \subseteq {"tracked", "untracked"}
      /\ dirtied' \subseteq Command /\ certs' \in [KeyFile -> Command \cup {None, "before"}]
  BY DEF IInv, TypeOK, sourceVars
<1> QED
  BY <1>3, <1>4, <1>5, OwnStepKeeps

LEMMA StartStages ==
  /\ Stages["publish"].start = "expo" /\ Stages["init"].start = "expo"
  /\ Stages["rollback"].start = "repo" /\ Stages["republish"].start = "repo"
  /\ Stages["certs"].start = "where"
BY DEF Stages, PublishStages, RollbackStages, RepublishStages, InitStages, GenerateCertsStages

LEMMA StartKeeps ==
  ASSUME IInv, NEW c \in Command, NEW i \in Invocation[c], Start(c, i)
  PROVE  IInv'
<1> DEFINE first == Stages[i.kind].start
<1>1. /\ pc[c] = "idle" /\ run' = [run EXCEPT ![c] = i] /\ PcHolds(c) /\ Local(c)
      /\ Return(c, first) \/ Exit(c, 1)
      /\ UNCHANGED <<worldVars, read, commit, platforms, files, requestVars>>
  BY DEF IInv, Local, Start
<1>2. run[c] = None /\ exit[c] = None
  <2>1. run[c] # None => Kind(c) \in Kinds /\ pc[c] \in PcOf[Kind(c)]
    BY <1>1, CommandAssumption DEF PcHolds, Kind, Kinds
  <2>2. run[c] = None
    BY <1>1, <2>1, KindsAt
  <2> QED
    BY <1>1, <2>2 DEF PcHolds
<1>3. run'[c] = i /\ i # None /\ i.kind \in Kinds /\ Kind(c)' = i.kind
  BY <1>1, CommandAssumption DEF IInv, FunctionsHold, Kind, Kinds
<1>4. first \in {"expo", "repo", "where"} /\ first \in PcOf[i.kind]
  BY <1>3, StartStages, NextStage
     DEF Kinds, PcOf, PublishStages, RollbackStages, RepublishStages, InitStages,
         GenerateCertsStages
<1>5. /\ Moves(c) /\ pc'[c] \in {"expo", "repo", "where", "done"} /\ exit'[c] \in {None, 1}
      /\ pc'[c] \in PcOf[i.kind]
      /\ exit'[c] # None => pc'[c] = "done"
  <2>1. CASE Return(c, first)
    BY <1>2, <1>4, <2>1, ReturnMoves DEF IInv
  <2>2. CASE Exit(c, 1)
    <3>1. "done" \in PcOf[i.kind]
      BY <1>3 DEF PcOf, Kinds
    <3> QED
      BY <2>2, <3>1, ExitMoves DEF IInv
  <2> QED
    BY <1>1, <2>1, <2>2
<1>6. UNCHANGED <<read, commit, platforms, files, open, sent, stored, answer, offered,
                  project, branchVars, dist, certs, config, identity, repo, head, tree, changes, dirtied>>
  BY <1>1 DEF worldVars, sourceVars, requestVars
<1>7. /\ open[c] = None /\ DOMAIN sent[c] = {} /\ platforms[c] = {}
      /\ \A p \in Platform : answer[c][p] = None
      /\ \A r \in Submitted : r.by # c
  BY <1>1, <1>2
     DEF Local, RequestsHold, CommitHolds, AnswersHold, ReleasesHold, Parallel, Requesting,
         Answering
<1>8. PcHolds(c)'
  BY <1>3, <1>5 DEF PcHolds, Question
<1>9. RequestsHold(c)'
  BY <1>1, <1>3, <1>5, <1>6, <1>7 DEF Local, RequestsHold, Is
<1>10. AnswersHold(c)'
  BY <1>5, <1>6, <1>7, CommandAssumption DEF AnswersHold, Answering, Answer
<1>11. KeysHold(c)' /\ ReleasesHold(c)'
  BY <1>3, <1>5, <1>6, <1>7, CommandAssumption DEF KeysHold, ReleasesHold, Is
<1>12. CommitHolds(c)' /\ OwnHolds(c)' /\ ShipsHold(c)'
  BY <1>1, <1>5, <1>6, <1>7
     DEF Local, CommitHolds, OwnHolds, ShipsHold, Sent, AfterRemove, AfterHash, AfterClean,
         Committing
<1>13. Local(c)'
  BY <1>8, <1>9, <1>10, <1>11, <1>12 DEF Local
<1>14. OwnOnly(c)
  BY <1>1, <1>6 DEF OwnOnly, OnlyAt
<1>15. OwnTypeOK(c)
  BY <1>6 DEF OwnTypeOK, IInv, TypeOK
<1>16. WorldBy(c)
  <2>1. SourcesBy(c) /\ DirectoriesBy(c)
    BY <1>6, SourcesStay, DirectoriesStay DEF IInv
  <2>2. \A d \in Command : run[d] # None => run'[d] = run[d]
    BY <1>1, <1>2 DEF IInv, FunctionsHold
  <2> QED
    BY <1>6, <2>1, <2>2, BranchStays DEF WorldBy, IInv
<1>17. WorldHolds' /\ identity' \in BOOLEAN /\ changes' \subseteq {"tracked", "untracked"}
       /\ dirtied' \subseteq Command /\ certs' \in [KeyFile -> Command \cup {None, "before"}]
  BY <1>6, BranchStays DEF IInv, TypeOK, WorldHolds
<1> QED
  BY <1>3, <1>5, <1>13, <1>14, <1>15, <1>16, <1>17, OwnStepKeeps

\* What c may leave under way.
LEMMA InFlightHolds ==
  ASSUME NEW c \in Command, Local(c), NEW l \in InFlight(c)
  PROVE  /\ l.of.by = c /\ l.of.platform \in Platform
         /\ l.of.what = "update" => Kind(c) = "publish" /\ pc[c] = "mark" /\ Uploaded(c)
         /\ pc[c] \in Answering /\ open[c] # None /\ l.of.platform \in DOMAIN open[c]
         /\ run[c] # None /\ answer[c][l.of.platform] = None
<1>1. pc[c] \in {"mark", "rollback", "republish"}
  BY DEF InFlight, Answering
<1>2. PICK p \in Outstanding(c) : l = [of |-> Release(c, p), try |-> open[c][p]]
  BY DEF InFlight
<1>3. /\ p \in platforms[c] /\ platforms[c] \subseteq Platform
      /\ open[c] # None /\ p \in DOMAIN open[c]
  BY <1>1, <1>2 DEF Outstanding, Local, RequestsHold, Targets
<1>4. l.of = Release(c, p)
  BY <1>2
<1>5. /\ l.of.by = c /\ l.of.platform = p
      /\ l.of.what = "update" => Kind(c) = "publish"
  BY <1>4 DEF Release
<1>6. Kind(c) = "publish" => pc[c] = "mark"
  BY <1>1, ActiveCommand, KindsAt DEF Local
<1>7. Kind(c) = "publish" => Uploaded(c)
  BY <1>6, ActiveCommand DEF Local, RequestsHold, Is
<1>8. answer[c][p] = None /\ run[c] # None
  BY <1>1, <1>3, ActiveCommand DEF Local, AnswersHold, Answering
<1> QED
  BY <1>1, <1>3, <1>5, <1>6, <1>7, <1>8 DEF Answering

\* Requests of c are left under way.
LEMMA Leaves ==
  ASSUME WorldHolds, NEW c \in Command, Local(c), NEW S \in SUBSET InFlight(c),
         late' = late \cup S, UNCHANGED <<released, published, deleted>>
  PROVE  /\ BranchBy(c) /\ BranchHolds'
         /\ \A r \in Submitted' : r \in Submitted \/ \E l \in S : r = l.of
         /\ \A r \in Coming' : r \in Coming \/ \E l \in S : r = l.of
<1>1. \A l \in S : l.of.by = c /\ l.of.platform \in Platform
  BY InFlightHolds
<1>2. /\ \A r \in Submitted' : r \in Submitted \/ \E l \in S : r = l.of
      /\ \A r \in Coming' : r \in Coming \/ \E l \in S : r = l.of
  OBVIOUS
<1> HIDE DEF Submitted, Coming
<1> QED
  BY <1>1, <1>2 DEF BranchBy, WorldHolds, BranchHolds

LEMMA DiesKeeps ==
  ASSUME IInv, NEW c \in Command, NEW code \in {1, 130}, Dies(c, code),
         pc[c] \notin {"idle", "done"},
         UNCHANGED <<project, config, sourceVars, identity, certs, dist, run, read,
                     commit, platforms, files, sent, stored, answer, offered>>
  PROVE  IInv'
<1>1. late' = late \cup InFlight(c) /\ UNCHANGED <<released, published, deleted>>
  BY DEF Dies
<1>2. /\ open' = [open EXCEPT ![c] = None] /\ open'[c] = None
      /\ Moves(c) /\ pc'[c] = "done" /\ exit'[c] = code /\ PcHolds(c)' /\ run'[c] = run[c]
      /\ Local(c) /\ PcHolds(c)
  <2>1. open' = [open EXCEPT ![c] = None] /\ open'[c] = None
    BY DEF IInv, FunctionsHold, Dies
  <2>2. Local(c) /\ PcHolds(c) /\ run'[c] = run[c]
    BY DEF IInv, Local
  <2>3. Moves(c) /\ pc'[c] = "done" /\ exit'[c] = code
    BY DiesMoves DEF IInv
  <2>4. PcHolds(c)'
    BY <2>2, PcAfterDies DEF IInv
  <2> QED
    BY <2>1, <2>2, <2>3, <2>4
<1>3. /\ run[c] # None /\ Kind(c) \in Kinds /\ Kind(c)' = Kind(c)
      /\ \A kind : Is(c, kind)' = Is(c, kind)
  BY <1>2, ActiveCommand DEF Is, Kind
<1>4. \A l \in InFlight(c) :
        /\ l.of.by = c /\ answer[c][l.of.platform] = None
        /\ l.of.what = "update" => Kind(c) = "publish" /\ Uploaded(c)
  BY <1>2, InFlightHolds
<1>5. /\ BranchBy(c) /\ BranchHolds'
      /\ \A r \in Submitted' : r \in Submitted \/ \E l \in InFlight(c) : r = l.of
      /\ \A r \in Coming' : r \in Coming \/ \E l \in InFlight(c) : r = l.of
  BY <1>1, <1>2, Leaves DEF IInv
<1>6. RequestsHold(c)'
  BY <1>2, <1>3 DEF Local, RequestsHold, Is
<1>7. AnswersHold(c)'
  <2>1. \A p \in Platform : Release(c, p)' = Release(c, p)
    BY <1>3 DEF Release
  <2>2. \A p \in Platform : Same(Release(c, p))' = Same(Release(c, p))
    BY <1>1, <2>1 DEF Same
  <2>3. ASSUME NEW p \in Platform, answer[c][p] = "deployed", Release(c, p) \in Coming'
        PROVE  Release(c, p) \in Coming
    <3>1. ASSUME NEW l \in InFlight(c), l.of = Release(c, p)
          PROVE  FALSE
      <4>1. l.of.platform = p
        BY <3>1 DEF Release
      <4> QED
        BY <1>4, <2>3, <4>1, CommandAssumption DEF Answer
    <3> QED
      BY <1>5, <2>3, <3>1
  <2>4. UNCHANGED <<answer, released, platforms>>
    BY <1>1
  <2> HIDE DEF Coming
  <2> QED
    BY <1>2, <1>3, <2>1, <2>2, <2>3, <2>4, CommandAssumption DEF Local, AnswersHold, Answering
<1>8. KeysHold(c)'
  BY <1>2, CommandAssumption DEF KeysHold
<1>9. ReleasesHold(c)'
  <2> HIDE DEF Submitted, Coming
  <2> QED
    BY <1>2, <1>3, <1>4, <1>5 DEF Local, ReleasesHold, Uploaded, Answering
<1>10. UNCHANGED <<project, repo, head, tree, dirtied>>
  BY DEF sourceVars
<1>11. Sent(c)' = Sent(c) /\ Exclusive(c)' = Exclusive(c) /\ Undisturbed(c)' = Undisturbed(c)
  BY <1>10 DEF Sent, Exclusive, Kind, Undisturbed, VcsClient
<1>12. CommitHolds(c)' /\ OwnHolds(c)'
  BY <1>2, <1>3, <1>10, <1>11 DEF Local, CommitHolds, OwnHolds, AfterRemove
<1>13. ShipsHold(c)'
  BY <1>2, <1>3, <1>11
     DEF Local, ShipsHold, AfterRemove, AfterHash, AfterClean, Committing
<1>14. Local(c)'
  BY <1>2, <1>6, <1>7, <1>8, <1>9, <1>12, <1>13 DEF Local
<1>15. OwnOnly(c) /\ OwnTypeOK(c)
  BY <1>2 DEF OwnOnly, OnlyAt, OwnTypeOK, IInv, TypeOK
<1>16. DirectoriesBy(c) /\ DOMAIN dist' = Directories
       /\ \A dir \in Directories : DOMAIN dist'[dir] = {"export", "config"}
  BY DirectoriesStay DEF IInv, WorldHolds
<1> QED
  BY <1>2, <1>5, <1>14, <1>15, <1>16, OwnKeeps

LEMMA InterruptKeeps == ASSUME IInv, NEW c \in Command, Interrupt(c) PROVE IInv'
BY DiesKeeps DEF Interrupt, Running

LEMMA RefuseKeeps == ASSUME IInv, NEW c \in Command, NEW t, Refuse(c, t) PROVE IInv'
BY DiesKeeps DEF Refuse

\* ... and the world as it is.
LEMMA OwnQuietKeeps ==
  ASSUME IInv, NEW c \in Command, Moves(c), OwnOnly(c), OwnTypeOK(c), Local(c)',
         run'[c] = run[c], UNCHANGED worldVars
  PROVE  IInv'
<1>1. /\ UNCHANGED <<config, sourceVars, identity, certs, dist, project, branchVars>>
      /\ DirectoriesBy(c)
  BY DirectoriesStay DEF worldVars
<1>2. /\ DOMAIN dist' = Directories
      /\ \A dir \in Directories : DOMAIN dist'[dir] = {"export", "config"}
      /\ BranchBy(c) /\ BranchHolds'
  BY <1>1, BranchStays DEF IInv, WorldHolds
<1> QED
  BY <1>1, <1>2, OwnKeeps

\* Before the requests that count.
LEMMA EarlyOwn ==
  ASSUME NEW c \in Command, Local(c), PcHolds(c)', Kind(c) # "certs",
         pc[c] \notin Settled \cup Parallel \cup {"idle", "done"},
         UNCHANGED <<run, read, open, sent, stored, answer, project, branchVars, certs>>,
         platforms'[c] \subseteq Platform, \A u \in offered'[c] : u.platform \in Platform,
         pc'[c] \notin {"upload", "mark", "report"}, exit'[c] \in {None, 1}
  PROVE  RequestsHold(c)' /\ AnswersHold(c)' /\ KeysHold(c)' /\ ReleasesHold(c)'
<1>1. /\ run[c] # None /\ Kind(c)' = Kind(c) /\ exit'[c] # 0
      /\ \A kind : Is(c, kind)' = Is(c, kind)
  BY ActiveCommand, CommandAssumption DEF Local, Kind, Is
<1>2. open[c] = None
  BY DEF Local, RequestsHold
<1>3. RequestsHold(c)'
  BY <1>1, <1>2 DEF RequestsHold, Is
<1>4. AnswersHold(c)'
  <2>1. \A p \in Platform : answer[c][p] = None
    BY DEF Local, AnswersHold, Settled
  <2> QED
    BY <1>1, <1>2, <2>1, CommandAssumption DEF AnswersHold, Answer
<1>5. KeysHold(c)'
  BY <1>1 DEF KeysHold, Is
<1>6. ReleasesHold(c)'
  BY <1>1 DEF Local, ReleasesHold, Settled, Answering
<1> QED
  BY <1>3, <1>4, <1>5, <1>6

LEMMA EarlyContents ==
  ASSUME NEW c \in Command, Local(c), WorldHolds,
         pc[c] \notin {"upload", "mark", "report", "done"},
         UNCHANGED <<run, sent, sourceVars, project>>, commit'[c] \in Nat, commit'[c] <= head,
         Is(c, "publish") /\ pc'[c] \in AfterRemove =>
           \A content \in Contents(c)' :
             /\ content.of >= commit'[c]
             /\ Exclusive(c) => content.by = c
             /\ Undisturbed(c) /\ Exclusive(c) => content.of = tree,
         Is(c, "publish") /\ Undisturbed(c) =>
           /\ pc'[c] \in Committing \cup AfterClean => RepoExists
           /\ pc'[c] \in AfterClean => head = tree
           /\ pc'[c] \in AfterHash => commit'[c] = tree
  PROVE  CommitHolds(c)' /\ OwnHolds(c)' /\ ShipsHold(c)'
<1>1. /\ DOMAIN sent'[c] = {} /\ Sent(c)' = {}
      /\ UNCHANGED <<project, repo, head, tree, dirtied>>
  BY DEF Local, CommitHolds, Sent, sourceVars
<1>2. /\ Exclusive(c)' = Exclusive(c) /\ Kind(c)' = Kind(c)
      /\ Undisturbed(c)' = Undisturbed(c) /\ Is(c, "publish")' = Is(c, "publish")
  BY <1>1 DEF Exclusive, Kind, Undisturbed, VcsClient, Is
<1>3. Undisturbed(c) /\ Kind(c) = "publish" => Is(c, "publish")
  BY DEF Undisturbed, Is
<1>4. CommitHolds(c)'
  BY <1>1, <1>2 DEF CommitHolds
<1>5. OwnHolds(c)'
  BY <1>1, <1>2 DEF OwnHolds
<1>6. ShipsHold(c)'
  BY <1>1, <1>2, <1>3 DEF ShipsHold, RepoExists
<1> QED
  BY <1>4, <1>5, <1>6

LEMMA GetCommitHashKeeps == ASSUME IInv, NEW c \in Command, GetCommitHash(c) PROVE IInv'
<1>1. /\ pc[c] = "hash" /\ PcHolds(c) /\ Local(c) /\ Proceed(c)
      /\ commit' = [commit EXCEPT ![c] = IF VcsClient(run[c]) = "git" /\ RepoExists THEN head ELSE 0]
      /\ UNCHANGED <<worldVars, run, read, platforms, files, requestVars>>
      /\ run'[c] = run[c]
  BY DEF IInv, Local, GetCommitHash
<1>2. Kind(c) \in {"publish", "rollback"} /\ exit[c] = None
  BY <1>1, ActiveCommand, KindsAt
<1>3. PcHolds(c)' /\ Moves(c) /\ exit'[c] = None
  BY <1>1, <1>2, ProceedMoves, PcAfterProceed DEF IInv, Question
<1>4. pc'[c] = IF Kind(c) = "publish" THEN "runtime" ELSE "expo"
  BY <1>1, <1>2, ProceedMoves DEF IInv, Stages, PublishStages, RollbackStages
<1>5. UNCHANGED <<run, read, platforms, files, open, sent, stored, answer, offered,
                  project, branchVars, dist, certs, repo, head, tree, sourceVars>>
  BY <1>1 DEF worldVars, sourceVars, requestVars
<1>6. commit'[c] = IF VcsClient(run[c]) = "git" /\ RepoExists THEN head ELSE 0
  BY <1>1 DEF IInv, TypeOK
<1>7. commit'[c] \in Nat /\ commit'[c] <= head
  BY <1>6 DEF IInv, WorldHolds
<1>8. RequestsHold(c)' /\ AnswersHold(c)' /\ KeysHold(c)' /\ ReleasesHold(c)'
  <2>1. platforms'[c] \subseteq Platform /\ \A u \in offered'[c] : u.platform \in Platform
    BY <1>1, <1>5 DEF Local, RequestsHold
  <2> QED
    BY <1>1, <1>2, <1>3, <1>4, <1>5, <2>1, EarlyOwn DEF Settled, Answering, Parallel, Requesting
<1>9. CommitHolds(c)' /\ OwnHolds(c)' /\ ShipsHold(c)'
  <2>1. Is(c, "publish") => pc'[c] \notin AfterRemove
    BY <1>4 DEF Is, AfterRemove
  <2>2. Is(c, "publish") /\ Undisturbed(c) => RepoExists /\ head = tree /\ commit'[c] = tree
    BY <1>1, <1>6 DEF Local, ShipsHold, Is, AfterClean, Undisturbed
  <2> QED
    BY <1>1, <1>5, <1>7, <2>1, <2>2, EarlyContents DEF IInv
<1>10. OwnOnly(c) /\ OwnTypeOK(c)
  BY <1>1, <1>5 DEF OwnOnly, OnlyAt, OwnTypeOK, IInv, TypeOK
<1> QED
  BY <1>1, <1>3, <1>8, <1>9, <1>10, OwnQuietKeeps DEF Local

LEMMA ResolveRuntimeVersionsKeeps ==
  ASSUME IInv, NEW c \in Command, ResolveRuntimeVersions(c)
  PROVE  IInv'
<1> DEFINE resolved == {p \in Requested(run[c].platform) :
                          RuntimeVersion(VcsClient(run[c]), project, p) # None}
<1>1. /\ pc[c] = "runtime" /\ PcHolds(c) /\ Local(c)
      /\ Proceed(c) \/ Exit(c, 1)
      /\ platforms' = [platforms EXCEPT ![c] = resolved]
      /\ UNCHANGED <<worldVars, run, read, commit, files, requestVars>>
      /\ run'[c] = run[c]
  BY DEF IInv, Local, ResolveRuntimeVersions
<1>2. /\ Kind(c) \in {"publish", "rollback"} /\ exit[c] = None
      /\ run[c] # None /\ run[c] \in Invocation[c]
  BY <1>1, ActiveCommand, KindsAt DEF IInv, Local
<1>3. PcHolds(c)' /\ Moves(c) /\ exit'[c] \in {None, 1} /\ pc'[c] \in {"remove", "rollback", "done"}
  <2>1. CASE Proceed(c)
    BY <1>1, <1>2, <2>1, ProceedMoves, PcAfterProceed
       DEF IInv, Local, Question, Stages, PublishStages, RollbackStages
  <2>2. CASE Exit(c, 1)
    BY <1>1, <2>2, ExitMoves, PcAfterExit DEF IInv, Local
  <2> QED
    BY <2>1, <2>2, <1>1
<1>4. UNCHANGED <<run, read, commit, files, open, sent, stored, answer, offered,
                  project, branchVars, dist, certs, repo, head, tree, sourceVars>>
  BY <1>1 DEF worldVars, sourceVars, requestVars
<1>5. platforms'[c] \subseteq Platform
  <2>1. run[c].platform \in Platform \cup {"all"}
    BY <1>2, CommandAssumption
  <2> QED
    BY <1>1, <2>1 DEF IInv, TypeOK, Requested
<1>6. RequestsHold(c)' /\ AnswersHold(c)' /\ KeysHold(c)' /\ ReleasesHold(c)'
  <2>1. \A u \in offered'[c] : u.platform \in Platform
    BY <1>1, <1>4 DEF IInv, Local, RequestsHold
  <2> QED
    BY <1>1, <1>2, <1>3, <1>4, <1>5, <2>1, EarlyOwn
       DEF IInv, Settled, Answering, Parallel, Requesting
<1>7. CommitHolds(c)' /\ OwnHolds(c)' /\ ShipsHold(c)'
  <2>1. pc'[c] \notin AfterRemove /\ pc'[c] \notin Committing
    BY <1>3 DEF AfterRemove, Committing
  <2>2. Is(c, "publish") /\ Undisturbed(c) => RepoExists /\ head = tree /\ commit'[c] = tree
    BY <1>1, <1>4 DEF IInv, Local, ShipsHold, Is, AfterClean, AfterHash
  <2>3. commit'[c] \in Nat /\ commit'[c] <= head
    BY <1>1, <1>4 DEF IInv, Local, CommitHolds
  <2> QED
    BY <1>1, <1>4, <2>1, <2>2, <2>3, EarlyContents DEF IInv
<1>8. OwnOnly(c) /\ OwnTypeOK(c)
  BY <1>1, <1>4 DEF OwnOnly, OnlyAt, OwnTypeOK, IInv, TypeOK
<1> QED
  BY <1>1, <1>3, <1>6, <1>7, <1>8, OwnQuietKeeps DEF Local

LEMMA SelectUpdateKeeps == ASSUME IInv, NEW c \in Command, SelectUpdate(c) PROVE IInv'
<1>1. /\ pc[c] = "update?" /\ PcHolds(c) /\ Local(c) /\ Return(c, "republish")
      /\ UNCHANGED <<worldVars, run, read, commit, files, open, sent, stored, answer>>
      /\ run'[c] = run[c]
  BY DEF IInv, Local, SelectUpdate
<1>2. PICK u \in offered[c] :
        /\ offered' = [offered EXCEPT ![c] = {u}]
        /\ platforms' = [platforms EXCEPT ![c] = {u.platform}]
  BY DEF SelectUpdate
<1>3. Kind(c) = "republish" /\ exit[c] = None
  BY <1>1, ActiveCommand, KindsAt
<1>4. "republish" \in PcOf[Kind(c)] /\ "republish" \notin Question
  BY <1>3 DEF PcOf, RepublishStages, Question
<1>5. PcHolds(c)' /\ Moves(c) /\ exit'[c] = None /\ pc'[c] = "republish"
  BY <1>1, <1>3, <1>4, PcAfterReturn, ReturnMoves DEF IInv
<1>6. UNCHANGED <<run, read, commit, files, open, sent, stored, answer,
                  project, branchVars, dist, certs, repo, head, tree, sourceVars>>
  BY <1>1 DEF worldVars, sourceVars
<1>7. RequestsHold(c)' /\ AnswersHold(c)' /\ KeysHold(c)' /\ ReleasesHold(c)'
  <2>1. u.platform \in Platform
    BY <1>1, <1>2 DEF Local, RequestsHold
  <2>2. platforms'[c] \subseteq Platform /\ \A v \in offered'[c] : v.platform \in Platform
    BY <1>2, <2>1 DEF IInv, TypeOK, FunctionsHold
  <2> QED
    BY <1>1, <1>3, <1>5, <1>6, <2>2, EarlyOwn DEF Settled, Answering, Parallel, Requesting
<1>8. CommitHolds(c)' /\ OwnHolds(c)' /\ ShipsHold(c)'
  <2>1. ~Is(c, "publish")
    BY <1>3 DEF Is
  <2>2. commit'[c] \in Nat /\ commit'[c] <= head
    BY <1>1, <1>6 DEF Local, CommitHolds
  <2> QED
    BY <1>1, <1>6, <2>1, <2>2, EarlyContents DEF IInv
<1>9. OwnOnly(c) /\ OwnTypeOK(c)
  BY <1>2, <1>6 DEF OwnOnly, OnlyAt, OwnTypeOK, IInv, TypeOK
<1> QED
  BY <1>1, <1>5, <1>7, <1>8, <1>9, OwnQuietKeeps DEF Local

--------------------------------------------------------------------------------
(* The output directory *)

\* A step of a publish that changes its output directory or works out its files.
LEMMA DirectoryKeeps ==
  ASSUME IInv, NEW c \in Command, Kind(c) = "publish", PcHolds(c)', Moves(c),
         pc[c] \in {"remove", "export", "public", "files"},
         pc'[c] \in {"export", "public", "files", "url", "done"}, exit'[c] \in {None, 1},
         UNCHANGED <<config, sourceVars, identity, certs, project, branchVars>>,
         UNCHANGED <<run, read, commit, platforms, requestVars>>,
         files' = [files EXCEPT ![c] = files'[c]], files'[c] \subseteq File,
         DirectoriesBy(c), DOMAIN dist' = Directories,
         \A dir \in Directories : DOMAIN dist'[dir] = {"export", "config"},
         pc'[c] \in AfterRemove =>
           \A content \in Contents(c)' :
             \/ content.of = tree /\ content.by = c
             \/ pc[c] \in AfterRemove /\ content \in Contents(c)
  PROVE  IInv'
<1>1. /\ PcHolds(c) /\ Local(c) /\ run'[c] = run[c] /\ run[c] # None /\ Is(c, "publish")
      /\ exit[c] = None
  BY ActiveCommand DEF IInv, Local, Is
<1>2. UNCHANGED <<run, read, commit, platforms, open, sent, stored, answer, offered,
                  repo, head, tree, dirtied>>
  BY DEF requestVars, sourceVars
<1>3. RequestsHold(c)' /\ AnswersHold(c)' /\ KeysHold(c)' /\ ReleasesHold(c)'
  <2>1. platforms'[c] \subseteq Platform /\ \A u \in offered'[c] : u.platform \in Platform
    BY <1>1, <1>2 DEF Local, RequestsHold
  <2> QED
    BY <1>1, <1>2, <2>1, EarlyOwn DEF Settled, Answering, Parallel, Requesting
<1>4. commit[c] \in Nat /\ commit[c] <= head /\ head <= tree /\ head \in Nat /\ tree \in Nat
  BY <1>1 DEF IInv, WorldHolds, Local, CommitHolds
<1>5. ASSUME pc'[c] \in AfterRemove, NEW content \in Contents(c)'
      PROVE  /\ content.of >= commit'[c]
             /\ Exclusive(c) => content.by = c
             /\ Undisturbed(c) /\ Exclusive(c) => content.of = tree
  <2>1. CASE content.of = tree /\ content.by = c
    BY <1>2, <1>4, <2>1
  <2>2. CASE pc[c] \in AfterRemove /\ content \in Contents(c)
    BY <1>1, <1>2, <2>2 DEF Local, CommitHolds, OwnHolds, ShipsHold, Is
  <2> QED
    BY <1>5, <2>1, <2>2
<1>6. Undisturbed(c) => RepoExists /\ head = tree /\ commit'[c] = tree
  BY <1>1, <1>2 DEF Local, ShipsHold, AfterClean, AfterHash, AfterRemove, Is
<1>7. CommitHolds(c)' /\ OwnHolds(c)' /\ ShipsHold(c)'
  BY <1>1, <1>2, <1>4, <1>5, <1>6, EarlyContents DEF IInv
<1>8. OwnOnly(c) /\ OwnTypeOK(c)
  <2>1. DOMAIN files' = DOMAIN files /\ \A d \in DOMAIN files \ {c} : files'[d] = files[d]
    BY DEF IInv, TypeOK
  <2>2. OwnOnly(c)
    BY <1>2, <2>1 DEF OwnOnly, OnlyAt
  <2> QED
    BY <1>2, <2>2 DEF OwnTypeOK, IInv, TypeOK
<1>9. BranchBy(c) /\ BranchHolds'
  BY BranchStays DEF IInv
<1> QED
  BY <1>1, <1>3, <1>7, <1>8, <1>9, OwnKeeps DEF Local

LEMMA DirectoryStage ==
  ASSUME IInv, NEW c \in Command, pc[c] \in {"remove", "export", "public", "files"},
         run'[c] = run[c], Proceed(c) \/ Exit(c, 1)
  PROVE  /\ Is(c, "publish") /\ Kind(c) = "publish" /\ run[c].dir \in Directories
         /\ PcHolds(c)' /\ Moves(c) /\ exit'[c] \in {None, 1}
         /\ \/ pc'[c] = "done"
            \/ pc[c] = "remove" /\ pc'[c] = "export"
            \/ pc[c] = "export" /\ pc'[c] = "public"
            \/ pc[c] = "public" /\ pc'[c] = "files"
            \/ pc[c] = "files" /\ pc'[c] = "url"
<1>1. PcHolds(c)
  BY DEF IInv, Local
<1>2. Kind(c) = "publish" /\ run[c] # None /\ exit[c] = None
  BY <1>1, ActiveCommand, KindsAt
<1>3. run[c].dir \in Directories
  BY <1>1, <1>2, DirIsDirectory
<1>4. CASE Proceed(c)
  <2>1. PcHolds(c)' /\ Moves(c) /\ exit'[c] = None /\ pc'[c] = PublishStages[pc[c]]
    BY <1>1, <1>2, <1>4, ProceedMoves, PcAfterProceed DEF IInv, Question, Stages
  <2> QED
    BY <1>2, <1>3, <2>1 DEF PublishStages, Is
<1>5. CASE Exit(c, 1)
  BY <1>1, <1>2, <1>3, <1>5, ExitMoves, PcAfterExit DEF IInv, Is
<1> QED
  BY <1>4, <1>5

\* A step that puts new things into the output directory of c.
LEMMA PutsInto ==
  ASSUME IInv, NEW c \in Command, Is(c, "publish"), run'[c] = run[c], UNCHANGED tree,
         NEW export, NEW cfg, NEW dir \in Directories, dir = run[c].dir,
         \/ dist' = [dist EXCEPT ![dir] = [export |-> export, config |-> cfg]]
         \/ dist' = [dist EXCEPT ![dir].export = export] /\ cfg = dist[dir].config
         \/ dist' = [dist EXCEPT ![dir].config = cfg] /\ export = dist[dir].export,
         export \in {Nothing, Build(c), dist[dir].export},
         cfg \in {Nothing, Build(c), dist[dir].config}
  PROVE  /\ DirectoriesBy(c) /\ DOMAIN dist' = Directories
         /\ \A d \in Directories : DOMAIN dist'[d] = {"export", "config"}
         /\ Contents(c)' = {export, cfg} \ {Nothing}
<1>1. DOMAIN dist = Directories /\ \A d \in Directories : DOMAIN dist[d] = {"export", "config"}
  BY DEF IInv, WorldHolds
<1>2. \A d \in Directories \ {dir} : dist'[d] = dist[d]
  BY <1>1
<1>3. dist'[dir].export = export /\ dist'[dir].config = cfg
  BY <1>1
<1>4. DOMAIN dist' = Directories /\ DOMAIN dist'[dir] = {"export", "config"}
  BY <1>1
<1>5. Build(c).by = c /\ Build(c).of = tree
  BY DEF Build
<1>6. DirectoriesBy(c)
  <2>1. ASSUME NEW d \in Directories
        PROVE  /\ ContentBy(c, d, dist[d].export, dist'[d].export)
               /\ ContentBy(c, d, dist[d].config, dist'[d].config)
    <3>1. CASE d = dir
      BY <1>3, <1>5, <3>1 DEF ContentBy
    <3>2. CASE d # dir
      BY <1>2, <3>2 DEF ContentBy
    <3> QED
      BY <3>1, <3>2
  <2> QED
    BY <2>1 DEF DirectoriesBy
<1> QED
  BY <1>1, <1>2, <1>3, <1>4, <1>6 DEF Contents, Nothing

LEMMA RemoveOutputKeeps == ASSUME IInv, NEW c \in Command, RemoveOutput(c) PROVE IInv'
<1>1. /\ pc[c] = "remove" /\ Proceed(c)
      /\ dist' = [dist EXCEPT ![run[c].dir] = [export |-> Nothing, config |-> Nothing]]
      /\ UNCHANGED <<project, config, sourceVars, identity, certs, branchVars, commandVars>>
      /\ run'[c] = run[c]
  BY DEF RemoveOutput, Removed, commandVars
<1>2. UNCHANGED <<tree, run, read, commit, platforms, files, requestVars>>
  BY <1>1 DEF sourceVars, commandVars
<1>3. /\ Is(c, "publish") /\ Kind(c) = "publish" /\ run[c].dir \in Directories
      /\ PcHolds(c)' /\ Moves(c) /\ exit'[c] \in {None, 1} /\ pc'[c] \in {"export", "done"}
  BY <1>1, DirectoryStage
<1>4. /\ DirectoriesBy(c) /\ DOMAIN dist' = Directories
      /\ \A d \in Directories : DOMAIN dist'[d] = {"export", "config"}
      /\ Contents(c)' = {Nothing, Nothing} \ {Nothing}
  BY <1>1, <1>2, <1>3, PutsInto
<1>5. files' = [files EXCEPT ![c] = files'[c]] /\ files'[c] \subseteq File
  BY <1>2 DEF IInv, TypeOK
<1> QED
  BY <1>1, <1>2, <1>3, <1>4, <1>5, DirectoryKeeps

LEMMA ExportProjectKeeps == ASSUME IInv, NEW c \in Command, ExportProject(c) PROVE IInv'
<1>1. /\ pc[c] = "export"
      /\ Proceed(c) \/ Exit(c, 1)
      /\ UNCHANGED <<project, config, sourceVars, identity, certs, branchVars, commandVars>>
      /\ run'[c] = run[c]
  BY DEF ExportProject, commandVars
<1>2. UNCHANGED <<tree, run, read, commit, platforms, files, requestVars>>
  BY <1>1 DEF sourceVars, commandVars
<1>3. /\ Is(c, "publish") /\ Kind(c) = "publish" /\ run[c].dir \in Directories
      /\ PcHolds(c)' /\ Moves(c) /\ exit'[c] \in {None, 1} /\ pc'[c] \in {"public", "done"}
  BY <1>1, DirectoryStage
<1>4. files' = [files EXCEPT ![c] = files'[c]] /\ files'[c] \subseteq File
  BY <1>2 DEF IInv, TypeOK
<1>5. CASE dist' = [dist EXCEPT ![run[c].dir].export = Build(c)]
  <2>1. /\ DirectoriesBy(c) /\ DOMAIN dist' = Directories
        /\ \A d \in Directories : DOMAIN dist'[d] = {"export", "config"}
        /\ Contents(c)' = {Build(c), dist[run[c].dir].config} \ {Nothing}
    BY <1>2, <1>3, <1>5, PutsInto
  <2>2. \A content \in Contents(c)' :
          \/ content.of = tree /\ content.by = c
          \/ content \in Contents(c)
    BY <2>1 DEF Build, Contents
  <2> QED
    BY <1>1, <1>2, <1>3, <1>4, <2>1, <2>2, DirectoryKeeps DEF AfterRemove
<1>6. CASE UNCHANGED dist
  <2>1. Contents(c)' = Contents(c)
    BY <1>1, <1>6 DEF Contents
  <2> QED
    BY <1>1, <1>2, <1>3, <1>4, <1>6, <2>1, DirectoriesStay, DirectoryKeeps
       DEF AfterRemove, IInv, WorldHolds
<1> QED
  BY <1>5, <1>6 DEF ExportProject

LEMMA WriteExpoConfigKeeps == ASSUME IInv, NEW c \in Command, WriteExpoConfig(c) PROVE IInv'
<1>1. /\ pc[c] = "public"
      /\ Proceed(c) \/ Exit(c, 1)
      /\ UNCHANGED <<project, config, sourceVars, identity, certs, branchVars, commandVars>>
      /\ run'[c] = run[c]
  BY DEF WriteExpoConfig, commandVars
<1>2. UNCHANGED <<tree, run, read, commit, platforms, files, requestVars>>
  BY <1>1 DEF sourceVars, commandVars
<1>3. /\ Is(c, "publish") /\ Kind(c) = "publish" /\ run[c].dir \in Directories
      /\ PcHolds(c)' /\ Moves(c) /\ exit'[c] \in {None, 1} /\ pc'[c] \in {"files", "done"}
  BY <1>1, DirectoryStage
<1>4. files' = [files EXCEPT ![c] = files'[c]] /\ files'[c] \subseteq File
  BY <1>2 DEF IInv, TypeOK
<1>5. CASE dist' = [dist EXCEPT ![run[c].dir].config = Build(c)]
  <2>1. /\ DirectoriesBy(c) /\ DOMAIN dist' = Directories
        /\ \A d \in Directories : DOMAIN dist'[d] = {"export", "config"}
        /\ Contents(c)' = {dist[run[c].dir].export, Build(c)} \ {Nothing}
    BY <1>2, <1>3, <1>5, PutsInto
  <2>2. \A content \in Contents(c)' :
          \/ content.of = tree /\ content.by = c
          \/ content \in Contents(c)
    BY <2>1 DEF Build, Contents
  <2> QED
    BY <1>1, <1>2, <1>3, <1>4, <2>1, <2>2, DirectoryKeeps DEF AfterRemove
<1>6. CASE UNCHANGED dist
  <2>1. Contents(c)' = Contents(c)
    BY <1>1, <1>6 DEF Contents
  <2> QED
    BY <1>1, <1>2, <1>3, <1>4, <1>6, <2>1, DirectoriesStay, DirectoryKeeps
       DEF AfterRemove, IInv, WorldHolds
<1> QED
  BY <1>5, <1>6 DEF WriteExpoConfig

LEMMA ComputeFilesKeeps == ASSUME IInv, NEW c \in Command, ComputeFiles(c) PROVE IInv'
<1>1. /\ pc[c] = "files"
      /\ Proceed(c) \/ Exit(c, 1)
      /\ UNCHANGED <<worldVars, run, read, commit, platforms, requestVars>>
      /\ run'[c] = run[c]
  BY DEF ComputeFiles
<1>2. UNCHANGED <<config, sourceVars, identity, certs, project, branchVars, dist, tree>>
  BY <1>1 DEF worldVars, sourceVars
<1>3. /\ Kind(c) = "publish" /\ PcHolds(c)' /\ Moves(c) /\ exit'[c] \in {None, 1}
      /\ pc'[c] \in {"url", "done"}
  BY <1>1, DirectoryStage
<1>4. files' = [files EXCEPT ![c] = files'[c]] /\ files'[c] \subseteq File
  <2>1. CASE UNCHANGED files
    BY <2>1 DEF IInv, TypeOK
  <2>2. CASE files' = [files EXCEPT ![c] = FilesRequests(dist[run[c].dir].export,
                                                         run[c].platform)]
    BY <2>2 DEF IInv, TypeOK, FilesRequests, File
  <2> QED
    BY <2>1, <2>2 DEF ComputeFiles
<1>5. Contents(c)' = Contents(c)
  BY <1>1, <1>2 DEF Contents
<1>6. /\ DirectoriesBy(c) /\ DOMAIN dist' = Directories
      /\ \A dir \in Directories : DOMAIN dist'[dir] = {"export", "config"}
  BY <1>2, DirectoriesStay DEF IInv, WorldHolds
<1> QED
  BY <1>1, <1>2, <1>3, <1>4, <1>5, <1>6, DirectoryKeeps DEF AfterRemove

--------------------------------------------------------------------------------
(* Requests and what comes of them *)

\* What was sent stays, and so does what a publish relies on.
LEMMA SameContents ==
  ASSUME NEW c \in Command, Local(c), WorldHolds,
         UNCHANGED <<run, commit, sent, dist, sourceVars, project>>,
         pc[c] \in {"upload", "mark", "report", "done"}
           => pc'[c] \in {"upload", "mark", "report", "done"},
         Kind(c) = "publish" =>
           /\ pc'[c] \in Committing \cup AfterClean => pc[c] \in Committing \cup AfterClean
           /\ pc'[c] \in AfterClean => pc[c] \in AfterClean
           /\ pc'[c] \in AfterHash => pc[c] \in AfterHash
           /\ pc'[c] \in AfterRemove => pc[c] \in AfterRemove
  PROVE  CommitHolds(c)' /\ OwnHolds(c)' /\ ShipsHold(c)'
<1>1. UNCHANGED <<project, repo, head, tree, dirtied>>
  BY DEF sourceVars
<1>2. /\ Exclusive(c)' = Exclusive(c) /\ Kind(c)' = Kind(c) /\ Sent(c)' = Sent(c)
      /\ Undisturbed(c)' = Undisturbed(c) /\ Is(c, "publish")' = Is(c, "publish")
      /\ Contents(c)' = Contents(c)
  BY <1>1 DEF Exclusive, Kind, Undisturbed, VcsClient, Is, Sent, Contents
<1>3. CommitHolds(c)'
  BY <1>1, <1>2 DEF Local, CommitHolds, Is
<1>4. OwnHolds(c)'
  BY <1>1, <1>2 DEF Local, OwnHolds, Is
<1>5. ShipsHold(c)'
  BY <1>1, <1>2 DEF Local, ShipsHold, RepoExists
<1> QED
  BY <1>3, <1>4, <1>5

\* The branch and what the command goes by stay.
LEMMA SameReleases ==
  ASSUME NEW c, UNCHANGED <<branchVars, run, read>>
  PROVE  /\ UNCHANGED released /\ Submitted' = Submitted /\ Coming' = Coming
         /\ \A p : Release(c, p)' = Release(c, p)
         /\ \A p : Same(Release(c, p))' = Same(Release(c, p))
BY DEF Release, Same, Kind

LEMMA SendRequestsKeeps == ASSUME IInv, NEW c \in Command, SendRequests(c) PROVE IInv'
<1>1. /\ pc[c] \in Parallel /\ Kind(c) # "init" /\ Local(c) /\ PcHolds(c)
      /\ open' = [open EXCEPT ![c] = [t \in Targets(c) |-> 0]]
      /\ UNCHANGED <<worldVars, run, read, commit, platforms, files, sent, stored, answer,
                     offered, pc, exit>>
      /\ run'[c] = run[c]
  BY DEF IInv, Local, SendRequests
<1>2. UNCHANGED <<sourceVars, dist, project, branchVars, certs>>
  BY <1>1 DEF worldVars
<1>3. DOMAIN open'[c] = Targets(c) /\ Targets(c)' = Targets(c)
  BY <1>1 DEF IInv, FunctionsHold, Targets
<1>4. /\ Moves(c) /\ PcHolds(c)' /\ pc'[c] = pc[c] /\ exit'[c] = exit[c] /\ Kind(c)' = Kind(c)
      /\ \A kind : Is(c, kind)' = Is(c, kind)
  BY <1>1, SameMoves, PcAfterSame DEF IInv, Kind, Is
<1>5. RequestsHold(c)'
  <2>1. pc[c] = "upload" => Targets(c) = platforms[c] \X files[c]
    BY DEF Targets
  <2>2. \A t \in DOMAIN open'[c] : open'[c][t] \in 0 .. Retries
    BY <1>1, CommandAssumption DEF IInv, FunctionsHold
  <2> QED
    BY <1>1, <1>3, <1>4, <2>1, <2>2 DEF Local, RequestsHold, Uploaded, Is
<1>6. AnswersHold(c)'
  <2>1. pc[c] \in Answering => Targets(c) = platforms[c]
    BY DEF Targets, Answering
  <2>2. pc[c] \in Answering => \A p \in Platform : answer[c][p] = None
    BY <1>1 DEF Local, AnswersHold, SendRequests
  <2>3. platforms[c] \subseteq Platform
    BY <1>1 DEF Local, RequestsHold
  <2> HIDE DEF Submitted, Coming
  <2> QED
    BY <1>1, <1>2, <1>3, <1>4, <2>1, <2>2, <2>3, SameReleases DEF Local, AnswersHold
<1>7. KeysHold(c)'
  <2>1. pc[c] = "keys" => Targets(c) = KeyFile
    BY DEF Targets
  <2>2. Another(c)' = Another(c)
    BY <1>1 DEF Another, Is, Kind
  <2> QED
    BY <1>1, <1>2, <1>3, <1>4, <2>1, <2>2 DEF Local, KeysHold
<1>8. ReleasesHold(c)'
  <2>1. open[c] = None
    BY DEF SendRequests
  <2> HIDE DEF Submitted, Coming
  <2> QED
    BY <1>1, <1>2, <1>4, <2>1, SameReleases
       DEF Local, ReleasesHold, Uploaded, Answering, Parallel, Requesting
<1>9. CommitHolds(c)' /\ OwnHolds(c)' /\ ShipsHold(c)'
  BY <1>1, <1>2, <1>4, SameContents DEF IInv, worldVars
<1>10. OwnOnly(c) /\ OwnTypeOK(c)
  BY <1>1 DEF OwnOnly, OnlyAt, OwnTypeOK, IInv, TypeOK
<1> QED
  BY <1>1, <1>4, <1>5, <1>6, <1>7, <1>8, <1>9, <1>10, OwnQuietKeeps DEF Local

LEMMA AllAnsweredKeeps == ASSUME IInv, NEW c \in Command, AllAnswered(c) PROVE IInv'
<1>1. /\ pc[c] \in Parallel /\ open[c] # None /\ DOMAIN open[c] = {} /\ Local(c) /\ PcHolds(c)
      /\ open' = [open EXCEPT ![c] = None] /\ Proceed(c)
      /\ UNCHANGED <<worldVars, run, read, commit, platforms, files, sent, stored, answer,
                     offered>>
      /\ run'[c] = run[c]
  BY DEF IInv, Local, AllAnswered
<1>2. UNCHANGED <<sourceVars, dist, project, branchVars, certs>>
  BY <1>1 DEF worldVars
<1>3. /\ open'[c] = None /\ Kind(c) # "init" /\ Kind(c) \in Kinds /\ exit[c] = None
      /\ pc[c] \in PcOf[Kind(c)] /\ pc[c] \notin Question \cup {"idle", "done"}
  BY <1>1, ActiveCommand
     DEF IInv, FunctionsHold, Local, RequestsHold, Parallel, Requesting, Question
<1>4. /\ Moves(c) /\ PcHolds(c)' /\ exit'[c] = None /\ pc'[c] = Stages[Kind(c)][pc[c]]
      /\ Kind(c)' = Kind(c) /\ \A kind : Is(c, kind)' = Is(c, kind)
  BY <1>1, <1>3, ProceedMoves, PcAfterProceed DEF IInv, Kind, Is, Parallel, Requesting
<1>5. \/ Kind(c) = "publish" /\ pc[c] = "url" /\ pc'[c] = "upload"
      \/ Kind(c) = "publish" /\ pc[c] = "upload" /\ pc'[c] = "mark"
      \/ Kind(c) = "publish" /\ pc[c] = "mark" /\ pc'[c] = "report"
      \/ Kind(c) = "rollback" /\ pc[c] = "rollback" /\ pc'[c] = "report"
      \/ Kind(c) = "republish" /\ pc[c] = "versions" /\ pc'[c] = "updates"
      \/ Kind(c) = "republish" /\ pc[c] = "updates" /\ pc'[c] = "republish"
      \/ Kind(c) = "republish" /\ pc[c] = "republish" /\ pc'[c] = "report"
      \/ Kind(c) = "certs" /\ pc[c] = "keys" /\ pc'[c] = "report"
  <2>1. \/ Kind(c) = "publish" /\ pc[c] \in {"url", "upload", "mark"}
        \/ Kind(c) = "rollback" /\ pc[c] = "rollback"
        \/ Kind(c) = "republish" /\ pc[c] \in {"versions", "updates", "republish"}
        \/ Kind(c) = "certs" /\ pc[c] = "keys"
    BY <1>1, <1>3, KindsAt DEF Parallel, Requesting
  <2> QED
    BY <1>4, <2>1
       DEF Stages, PublishStages, RollbackStages, RepublishStages, GenerateCertsStages
<1>6. RequestsHold(c)'
  <2>1. Kind(c) = "publish" /\ pc'[c] \in {"mark", "report"} => Uploaded(c)
    BY <1>1, <1>5 DEF Local, RequestsHold, Uploaded, Is, PcHolds
  <2> QED
    BY <1>1, <1>3, <1>4, <2>1 DEF Local, RequestsHold, Uploaded, Is
<1>7. AnswersHold(c)'
  <2>1. pc'[c] = "report" => \A p \in platforms[c] : answer[c][p] # None
    <3>1. pc[c] = "keys" => platforms[c] = {}
      BY <1>1, <1>5 DEF Local, RequestsHold, Is, PcHolds
    <3> QED
      BY <1>1, <1>5, <3>1 DEF Local, AnswersHold, Answering
  <2>2. pc'[c] \notin {"report", "done"} => \A p \in Platform : answer[c][p] = None
    BY <1>1, <1>5 DEF Local, AnswersHold, Answering
  <2>3. exit'[c] # 0 /\ UNCHANGED <<answer, platforms, released>>
    BY <1>1, <1>2, <1>4, CommandAssumption
  <2> HIDE DEF Submitted, Coming
  <2> QED
    BY <1>1, <1>2, <1>3, <1>4, <2>1, <2>2, <2>3, SameReleases DEF Local, AnswersHold, Answering
<1>8. KeysHold(c)'
  <2>1. Another(c)' = Another(c)
    BY <1>1 DEF Another, Is, Kind
  <2>2. Is(c, "certs") /\ pc'[c] = "report" => \A f \in KeyFile : certs[f] = c \/ Another(c)
    BY <1>1, <1>5 DEF Local, KeysHold, Is
  <2> QED
    BY <1>2, <1>3, <1>4, <2>1, <2>2, CommandAssumption DEF KeysHold
<1>9. ReleasesHold(c)'
  <2> HIDE DEF Submitted, Coming
  <2> QED
    BY <1>1, <1>2, <1>4, <1>5, SameReleases DEF Local, ReleasesHold, Uploaded, Answering
<1>10. CommitHolds(c)' /\ OwnHolds(c)' /\ ShipsHold(c)'
  BY <1>1, <1>2, <1>5, SameContents
     DEF IInv, AfterRemove, AfterHash, AfterClean, Committing
<1>11. OwnOnly(c) /\ OwnTypeOK(c)
  BY <1>1 DEF OwnOnly, OnlyAt, OwnTypeOK, IInv, TypeOK
<1> QED
  BY <1>1, <1>4, <1>6, <1>7, <1>8, <1>9, <1>10, <1>11, OwnQuietKeeps DEF Local

LEMMA ReportKeeps == ASSUME IInv, NEW c \in Command, Report(c) PROVE IInv'
<1>1. /\ pc[c] = "report" /\ Local(c) /\ PcHolds(c)
      /\ Exit(c, IF "error" \in {answer[c][p] : p \in platforms[c]} THEN 1 ELSE 0)
      /\ UNCHANGED <<worldVars, commandVars>>
  BY DEF IInv, Local, Report
<1>2. UNCHANGED <<sourceVars, dist, project, branchVars, certs, run, read, commit, platforms, files, open,
                  sent, stored, answer, offered>>
  BY <1>1 DEF worldVars, commandVars, requestVars
<1>3. PICK code \in {0, 1} :
        /\ Exit(c, code)
        /\ code = 0 => \A p \in platforms[c] : answer[c][p] # "error"
  BY <1>1
<1>4. /\ Moves(c) /\ PcHolds(c)' /\ pc'[c] = "done" /\ exit'[c] = code /\ run'[c] = run[c]
      /\ Kind(c)' = Kind(c) /\ \A kind : Is(c, kind)' = Is(c, kind)
  BY <1>1, <1>2, <1>3, ExitMoves, PcAfterExit DEF IInv, Kind, Is
<1>5. RequestsHold(c)'
  BY <1>1, <1>2, <1>4 DEF Local, RequestsHold, Uploaded, Is, Parallel, Requesting
<1>6. AnswersHold(c)'
  <2> HIDE DEF Submitted, Coming
  <2>1. ASSUME code = 0, NEW p \in platforms[c]
        PROVE  answer[c][p] \in Answer \ {"error"}
    <3>1. answer[c][p] # None /\ answer[c][p] # "error" /\ p \in Platform
      BY <1>1, <1>3, <2>1 DEF Local, AnswersHold, RequestsHold
    <3>2. answer[c][p] \in Answer \cup {None}
      BY <3>1 DEF IInv, TypeOK
    <3> QED
      BY <3>1, <3>2
  <2> QED
    BY <1>1, <1>2, <1>4, <2>1, SameReleases DEF Local, AnswersHold, Answering
<1>7. KeysHold(c)'
  <2>1. Another(c)' = Another(c)
    BY <1>2 DEF Another, Is, Kind
  <2> QED
    BY <1>1, <1>2, <1>4, <2>1 DEF Local, KeysHold
<1>8. ReleasesHold(c)'
  <2> HIDE DEF Submitted, Coming
  <2> QED
    BY <1>1, <1>2, <1>4, SameReleases DEF Local, ReleasesHold, Uploaded, Answering
<1>9. CommitHolds(c)' /\ OwnHolds(c)' /\ ShipsHold(c)'
  BY <1>1, <1>2, <1>4, SameContents
     DEF IInv, AfterRemove, AfterHash, AfterClean, Committing
<1>10. OwnOnly(c) /\ OwnTypeOK(c)
  BY <1>2 DEF OwnOnly, OnlyAt, OwnTypeOK, IInv, TypeOK
<1> QED
  BY <1>1, <1>4, <1>5, <1>6, <1>7, <1>8, <1>9, <1>10, OwnQuietKeeps DEF Local

LEMMA GetUploadUrlKeeps ==
  ASSUME IInv, NEW c \in Command, NEW p \in Outstanding(c), GetUploadUrl(c, p)
  PROVE  IInv'
<1>1. /\ pc[c] = "url" /\ Local(c) /\ PcHolds(c) /\ open[c] # None
      /\ open' = [open EXCEPT ![c] = [u \in DOMAIN open[c] \ {p} |-> open[c][u]]]
      /\ UNCHANGED <<worldVars, run, read, commit, platforms, files, sent, stored, answer,
                     offered, pc, exit>>
      /\ run'[c] = run[c]
  BY DEF IInv, Local, GetUploadUrl, Answered, Outstanding
<1>2. UNCHANGED <<sourceVars, dist, project, branchVars, certs>>
  BY <1>1 DEF worldVars
<1>3. Kind(c) = "publish"
  BY <1>1, ActiveCommand, KindsAt DEF Local, RequestsHold
<1>4. DOMAIN open'[c] \subseteq DOMAIN open[c] /\ Targets(c)' = Targets(c)
  BY <1>1 DEF IInv, FunctionsHold, Targets
<1>5. /\ Moves(c) /\ PcHolds(c)' /\ pc'[c] = pc[c] /\ exit'[c] = exit[c] /\ Kind(c)' = Kind(c)
      /\ \A kind : Is(c, kind)' = Is(c, kind)
  BY <1>1, SameMoves, PcAfterSame DEF IInv, Kind, Is
<1>6. RequestsHold(c)'
  BY <1>1, <1>4, <1>5 DEF Local, RequestsHold, Uploaded, Is
<1>7. AnswersHold(c)'
  <2> HIDE DEF Submitted, Coming
  <2> QED
    BY <1>1, <1>2, <1>5, SameReleases DEF Local, AnswersHold, Answering
<1>8. KeysHold(c)'
  BY <1>3, <1>5 DEF KeysHold, Is
<1>9. ReleasesHold(c)'
  <2> HIDE DEF Submitted, Coming
  <2> QED
    BY <1>1, <1>2, <1>5, SameReleases DEF Local, ReleasesHold, Answering
<1>10. CommitHolds(c)' /\ OwnHolds(c)' /\ ShipsHold(c)'
  BY <1>1, <1>2, <1>5, SameContents DEF IInv
<1>11. OwnOnly(c) /\ OwnTypeOK(c)
  BY <1>1 DEF OwnOnly, OnlyAt, OwnTypeOK, IInv, TypeOK
<1> QED
  BY <1>1, <1>5, <1>6, <1>7, <1>8, <1>9, <1>10, <1>11, OwnQuietKeeps DEF Local

LEMMA StoreFileKeeps ==
  ASSUME IInv, NEW c \in Command, NEW t \in Outstanding(c), StoreFile(c, t)
  PROVE  IInv'
<1>1. /\ pc[c] = "upload" /\ Local(c) /\ PcHolds(c) /\ open[c] # None
      /\ open' = [open EXCEPT ![c] = [u \in DOMAIN open[c] \ {t} |-> open[c][u]]]
      /\ stored' = [stored EXCEPT ![c] = stored[c] \cup {t}]
      /\ UNCHANGED <<worldVars, run, read, commit, platforms, files, sent, answer,
                     offered, pc, exit>>
      /\ run'[c] = run[c] /\ t \in DOMAIN open[c]
  BY DEF IInv, Local, StoreFile, Answered, Outstanding
<1>2. UNCHANGED <<sourceVars, dist, project, branchVars, certs>>
  BY <1>1 DEF worldVars
<1>3. Kind(c) = "publish" /\ run[c] # None
  BY <1>1, ActiveCommand, KindsAt
<1>4. DOMAIN open'[c] = DOMAIN open[c] \ {t} /\ Targets(c)' = Targets(c)
      /\ Targets(c) = platforms[c] \X files[c]
  BY <1>1 DEF IInv, FunctionsHold, Targets
<1>5. /\ Moves(c) /\ PcHolds(c)' /\ pc'[c] = pc[c] /\ exit'[c] = exit[c] /\ Kind(c)' = Kind(c)
      /\ \A kind : Is(c, kind)' = Is(c, kind)
  BY <1>1, SameMoves, PcAfterSame DEF IInv, Kind, Is
<1>6. stored'[c] = stored[c] \cup {t}
  BY <1>1 DEF IInv, TypeOK
<1>7. RequestsHold(c)'
  BY <1>1, <1>3, <1>4, <1>5, <1>6 DEF Local, RequestsHold, Uploaded, Is
<1>8. AnswersHold(c)'
  <2> HIDE DEF Submitted, Coming
  <2> QED
    BY <1>1, <1>2, <1>5, SameReleases DEF Local, AnswersHold, Answering
<1>9. KeysHold(c)'
  BY <1>3, <1>5 DEF KeysHold, Is
<1>10. ReleasesHold(c)'
  <2> HIDE DEF Submitted, Coming
  <2> QED
    BY <1>1, <1>2, <1>5, SameReleases DEF Local, ReleasesHold, Answering
<1>11. CommitHolds(c)' /\ OwnHolds(c)' /\ ShipsHold(c)'
  BY <1>1, <1>2, <1>5, SameContents DEF IInv
<1>12. t \in Platform \X File
  BY <1>1, <1>4 DEF Local, RequestsHold, IInv, TypeOK
<1>13. OwnOnly(c)
  BY <1>1 DEF OwnOnly, OnlyAt, IInv, TypeOK
<1>14. OwnTypeOK(c)
  BY <1>1, <1>6, <1>12 DEF OwnTypeOK, IInv, TypeOK
<1> QED
  BY <1>1, <1>5, <1>7, <1>8, <1>9, <1>10, <1>11, <1>13, <1>14, OwnQuietKeeps DEF Local

LEMMA ReadFileKeeps ==
  ASSUME IInv, NEW c \in Command, NEW t \in Outstanding(c), ReadFile(c, t)
  PROVE  IInv'
<1> DEFINE content == IF t[2] = "bundle" THEN dist[run[c].dir].export
                      ELSE dist[run[c].dir].config
<1>1. CASE content = Nothing
  BY <1>1, DiesKeeps DEF ReadFile
<1>2. CASE content # Nothing
  <2>1. /\ pc[c] = "upload" /\ Local(c) /\ PcHolds(c)
        /\ sent' = [sent EXCEPT ![c] = [u \in DOMAIN sent[c] \cup {t} |->
                                          IF u = t THEN content ELSE sent[c][u]]]
        /\ UNCHANGED <<project, config, sourceVars, identity, certs, dist, run, read,
                       commit, platforms, files, stored, answer, offered>>
        /\ UNCHANGED <<project, branchVars, open, pc, exit>>
        /\ run'[c] = run[c]
    BY <1>2 DEF IInv, Local, ReadFile
  <2>2. Kind(c) = "publish" /\ run[c] # None /\ Is(c, "publish")
    BY <2>1, ActiveCommand, KindsAt DEF Is
  <2>3. /\ Moves(c) /\ PcHolds(c)' /\ pc'[c] = pc[c] /\ exit'[c] = exit[c] /\ Kind(c)' = Kind(c)
        /\ \A kind : Is(c, kind)' = Is(c, kind)
    BY <2>1, SameMoves, PcAfterSame DEF IInv, Kind, Is
  <2>4. RequestsHold(c)'
    BY <2>1, <2>3 DEF Local, RequestsHold, Uploaded, Is, Targets
  <2>5. AnswersHold(c)'
    <3> HIDE DEF Submitted, Coming
    <3> QED
      BY <2>1, <2>3, SameReleases DEF Local, AnswersHold, Answering
  <2>6. KeysHold(c)' /\ ReleasesHold(c)'
    BY <2>1, <2>2, <2>3 DEF Local, KeysHold, ReleasesHold, Uploaded, Is, Answering
  <2>7. /\ UNCHANGED <<project, repo, head, tree, dirtied>>
        /\ Exclusive(c)' = Exclusive(c) /\ Undisturbed(c)' = Undisturbed(c)
        /\ Contents(c)' = Contents(c)
    BY <2>1 DEF sourceVars, Exclusive, Undisturbed, VcsClient, Contents, Kind
  <2>8. content \in Contents(c) /\ Sent(c)' \subseteq Sent(c) \cup {content}
    BY <1>2, <2>1 DEF Contents, Sent, IInv, FunctionsHold
  <2>9. pc[c] \in AfterRemove /\ pc[c] \in AfterHash
    BY <2>1 DEF AfterRemove, AfterHash
  <2>10. CommitHolds(c)'
    BY <2>1, <2>2, <2>3, <2>7, <2>8, <2>9 DEF Local, CommitHolds
  <2>11. OwnHolds(c)'
    BY <2>1, <2>2, <2>3, <2>7, <2>8, <2>9 DEF Local, OwnHolds
  <2>12. ShipsHold(c)'
    BY <2>1, <2>2, <2>3, <2>7, <2>8, <2>9 DEF Local, ShipsHold, RepoExists
  <2>13. OwnOnly(c) /\ OwnTypeOK(c)
    BY <2>1 DEF OwnOnly, OnlyAt, OwnTypeOK, IInv, TypeOK
  <2>14. UNCHANGED worldVars
    BY <2>1 DEF worldVars
  <2> QED
    BY <2>1, <2>3, <2>4, <2>5, <2>6, <2>10, <2>11, <2>12, <2>13, <2>14, OwnQuietKeeps
       DEF Local
<1> QED
  BY <1>1, <1>2

\* The server's answer about one platform.
\* What the server does with a request.
LEMMA Served ==
  ASSUME BranchHolds, NEW r, r.platform \in Platform, r.by \in Command,
         NEW told \in {"deployed", "identical", "error"}, Serve(r, told),
         late' \subseteq late
  PROVE  /\ BranchBy(r.by) /\ BranchHolds'
         /\ Submitted' \subseteq Submitted \cup {r} /\ Coming' \subseteq Coming
         /\ \A x \in released : x # r \/ r.what # "update" => x \in released'
         /\ told = "deployed" /\ (r.what = "update" => r \notin Submitted) => r \in released'
         /\ told = "identical" => r.what = "update" /\ Same(r) # {}
<1>1. /\ released' \subseteq released \cup {r} /\ published' = published \cup released'
      /\ released \subseteq published
      /\ deleted' \subseteq deleted \cup {r} /\ deleted \subseteq deleted'
      /\ told # "identical" => deleted' = deleted /\ released \subseteq released'
      /\ told = "identical" => released' = released \ {r} /\ r.what = "update" /\ Same(r) # {}
      /\ told = "deployed" => released' = released \cup ({r} \ deleted)
  BY DEF Serve, BranchHolds
<1>2. Coming' \subseteq Coming
  OBVIOUS
<1>3. published' \subseteq published \cup {r} /\ published \subseteq published'
  BY <1>1
<1> HIDE DEF Coming
<1>4. Submitted' \subseteq Submitted \cup {r}
  BY <1>1, <1>2, <1>3
<1>5. \A x \in released : x # r \/ r.what # "update" => x \in released'
  BY <1>1
<1>6. told = "deployed" /\ (r.what = "update" => r \notin Submitted) => r \in released'
  BY <1>1 DEF BranchHolds
<1>7. BranchHolds'
  <2>1. released' \subseteq published'
    BY <1>1
  <2>2. \A x \in deleted' : x.what = "update"
    BY <1>1 DEF BranchHolds
  <2>3. \A x \in Submitted' : x.platform \in Platform
    BY <1>4 DEF BranchHolds
  <2> QED
    BY <1>2, <2>1, <2>2, <2>3 DEF BranchHolds
<1>8. BranchBy(r.by)
  BY <1>2, <1>3, <1>4, <1>5 DEF BranchBy
<1> QED
  BY <1>1, <1>2, <1>4, <1>5, <1>6, <1>7, <1>8

\* c is told of a request; without doubt only if it made it once.
LEMMA AnswerKeeps ==
  ASSUME IInv, NEW c \in Command, NEW p \in Outstanding(c), pc[c] \in Answering, Answered(c, p),
         NEW told \in {"deployed", "identical", "error"}, NEW said \in Answer,
         answer' = [answer EXCEPT ![c][p] = said],
         said = "deployed" => told = "deployed",
         said = "deployed" /\ Kind(c) = "publish" => open[c][p] = 0,
         said = "identical" => told = "identical" /\ open[c][p] = 0,
         Serve(Release(c, p), told), late' = late,
         UNCHANGED <<project, config, sourceVars, identity, certs, dist, run, read,
                     commit, platforms, files, sent, stored, offered, pc, exit>>
  PROVE  IInv'
<1> DEFINE r == Release(c, p)
<1>1. /\ Local(c) /\ PcHolds(c) /\ open[c] # None /\ p \in DOMAIN open[c] /\ run'[c] = run[c]
      /\ open' = [open EXCEPT ![c] = [u \in DOMAIN open[c] \ {p} |-> open[c][u]]]
  BY DEF IInv, Local, Outstanding, Answered
<1>2. /\ Targets(c) = platforms[c] /\ Targets(c)' = Targets(c) /\ run[c] # None
      /\ exit[c] = None /\ pc[c] # "report" /\ pc[c] # "done"
  BY <1>1, ActiveCommand DEF Targets, Answering
<1>3. open'[c] = [u \in DOMAIN open[c] \ {p} |-> open[c][u]]
  BY <1>1 DEF IInv, FunctionsHold
<1>4. /\ p \in platforms[c] /\ p \in Platform /\ platforms[c] \subseteq Platform
      /\ DOMAIN open[c] \subseteq Platform
      /\ \A q \in DOMAIN open[c] : open[c][q] \in 0 .. Retries
  BY <1>1, <1>2 DEF Local, RequestsHold
<1>5. /\ answer[c] \in [Platform -> Answer \cup {None}]
      /\ answer'[c] = [answer[c] EXCEPT ![p] = said]
  BY DEF IInv, TypeOK
<1>6. answer'[c][p] = said /\ \A q \in Platform \ {p} : answer'[c][q] = answer[c][q]
  BY <1>4, <1>5
<1>7. /\ Moves(c) /\ PcHolds(c)' /\ pc'[c] = pc[c] /\ exit'[c] = exit[c] /\ Kind(c)' = Kind(c)
      /\ \A kind : Is(c, kind)' = Is(c, kind)
  BY <1>1, SameMoves, PcAfterSame DEF IInv, Kind, Is
<1>8. \A q \in Platform : Release(c, q)' = Release(c, q)
  BY <1>7 DEF Release
<1>9. DOMAIN open'[c] = DOMAIN open[c] \ {p} /\ open'[c] # None
  <2>1. open'[c] \in [DOMAIN open[c] \ {p} -> 0 .. Retries]
    BY <1>3, <1>4
  <2> QED
    BY <1>3, <1>4, <2>1, CommandAssumption
<1>10. RequestsHold(c)'
  BY <1>1, <1>2, <1>3, <1>4, <1>7, <1>9 DEF Local, RequestsHold, Uploaded, Is, Answering
<1>11. /\ r.by = c /\ r.platform = p /\ (r.what = "update" <=> Kind(c) = "publish")
       /\ \A q \in Platform : Release(c, q) = r => q = p
  BY DEF Release
<1>12. open[c][p] = 0 => r \notin Submitted
  <2> HIDE DEF r, Submitted, Coming
  <2> QED
    BY <1>1, <1>11 DEF Local, ReleasesHold
<1>13. /\ BranchBy(c) /\ BranchHolds'
       /\ Submitted' \subseteq Submitted \cup {r} /\ Coming' \subseteq Coming
       /\ \A x \in released : x # r \/ r.what # "update" => x \in released'
       /\ told = "deployed" /\ (r.what = "update" => r \notin Submitted) => r \in released'
       /\ told = "identical" => Same(r) # {}
  <2> HIDE DEF r, Submitted, Coming
  <2>1. BranchHolds /\ Serve(r, told) /\ r.by \in Command /\ r.platform \in Platform
    BY <1>4, <1>11 DEF IInv, WorldHolds, r
  <2> QED
    BY <1>11, <2>1, Served
<1>14. AnswersHold(c)'
  <2>1. ASSUME NEW q \in Platform, answer'[c][q] = "deployed"
        PROVE  /\ Release(c, q) \in released'
               /\ Kind(c) = "publish" => Release(c, q) \notin Coming'
    <3>1. CASE q = p
      <4>1. Kind(c) = "publish" => r \notin Submitted
        BY <1>6, <1>12, <2>1, <3>1
      <4>2. r \in released'
        BY <1>6, <1>11, <1>13, <2>1, <3>1, <4>1
      <4>3. r \notin Submitted => r \notin Coming'
        BY <1>13
      <4> QED
        BY <3>1, <4>1, <4>2, <4>3
    <3>2. CASE q # p
      <4>1. Release(c, q) # r
        BY <1>11, <3>2
      <4>2. Release(c, q) \in released /\ (Kind(c) = "publish" => Release(c, q) \notin Coming)
        BY <1>1, <1>6, <2>1, <3>2 DEF Local, AnswersHold
      <4> QED
        BY <1>13, <4>1, <4>2
    <3> QED
      BY <3>1, <3>2
  <2>2. ASSUME NEW q \in Platform, answer'[c][q] = "identical"
        PROVE  Same(Release(c, q))' \ {Release(c, q)} # {}
    <3>a. Same(Release(c, q)) \subseteq Same(Release(c, q))'
      BY <1>8, <1>13 DEF Same, BranchBy
    <3>1. CASE q = p
      <4>1. Same(r) # {} /\ r \notin Submitted
        BY <1>6, <1>12, <1>13, <2>2, <3>1
      <4>2. r \notin Same(r)
        BY <4>1 DEF Same
      <4> QED
        BY <3>1, <3>a, <4>1, <4>2
    <3>2. CASE q # p
      <4>1. Same(Release(c, q)) \ {Release(c, q)} # {}
        BY <1>1, <1>6, <2>2, <3>2 DEF Local, AnswersHold
      <4> QED
        BY <3>a, <4>1
    <3> QED
      BY <3>1, <3>2
  <2>4. \A q \in platforms[c] \ DOMAIN open'[c] : answer'[c][q] # None
    <3>1. said # None
      BY CommandAssumption
    <3> QED
      BY <1>1, <1>4, <1>6, <1>9, <3>1 DEF Local, AnswersHold
  <2>5. \A q \in DOMAIN open'[c] : answer'[c][q] = None
    BY <1>1, <1>4, <1>6, <1>9 DEF Local, AnswersHold
  <2> HIDE DEF r, Submitted, Coming
  <2> QED
    BY <1>2, <1>7, <1>8, <1>9, <2>1, <2>2, <2>4, <2>5, CommandAssumption DEF AnswersHold
<1>15. KeysHold(c)'
  BY <1>1, <1>7, ActiveCommand, CommandAssumption DEF KeysHold, Answering
<1>16. ReleasesHold(c)'
  <2>1. Kind(c) = "publish" => pc[c] = "mark"
    BY <1>1, ActiveCommand, KindsAt DEF Answering
  <2>2. Kind(c) = "publish" => Uploaded(c)
    BY <1>1, <1>2, <2>1 DEF Local, RequestsHold, Is
  <2>3. ASSUME NEW x \in Submitted', x.by = c
        PROVE  /\ x.platform \in DOMAIN open'[c] => open'[c][x.platform] > 0
               /\ x.what = "update" => Kind(c) = "publish"
    <3>1. CASE x = r
      BY <1>9, <1>11, <3>1
    <3>2. CASE x \in Submitted
      <4> HIDE DEF r, Submitted, Coming
      <4> QED
        BY <1>1, <1>3, <1>9, <2>3, <3>2 DEF Local, ReleasesHold
    <3> QED
      BY <1>13, <3>1, <3>2
  <2> HIDE DEF r, Submitted, Coming
  <2> QED
    BY <1>2, <1>7, <1>9, <2>1, <2>2, <2>3 DEF ReleasesHold, Uploaded
<1>17. CommitHolds(c)' /\ OwnHolds(c)' /\ ShipsHold(c)'
  BY <1>1, <1>7, SameContents DEF IInv
<1>18. OwnOnly(c)
  BY <1>1 DEF OwnOnly, OnlyAt, IInv, TypeOK
<1>19. OwnTypeOK(c)
  <2>1. answer'[c] \in [Platform -> Answer \cup {None}]
    BY <1>5
  <2>2. answer' = [answer EXCEPT ![c] = answer'[c]]
    BY <1>5
  <2> QED
    BY <2>1, <2>2 DEF OwnTypeOK, IInv, TypeOK
<1>20. /\ DirectoriesBy(c) /\ DOMAIN dist' = Directories
       /\ \A dir \in Directories : DOMAIN dist'[dir] = {"export", "config"}
  BY DirectoriesStay DEF IInv, WorldHolds
<1> QED
  BY <1>1, <1>7, <1>10, <1>13, <1>14, <1>15, <1>16, <1>17, <1>18, <1>19, <1>20, OwnKeeps
     DEF Local

LEMMA MarkUpdateKeeps ==
  ASSUME IInv, NEW c \in Command, NEW p \in Outstanding(c), MarkUpdate(c, p)
  PROVE  IInv'
<1>1. PICK told \in {"deployed", "identical", "error"} :
        /\ Serve(Release(c, p), told)
        /\ answer' = [answer EXCEPT ![c][p] =
                        CASE told = "error" \/ open[c][p] = 0 -> told
                          [] told = "deployed" -> "deployed?"
                          [] told = "identical" -> "identical?"]
  BY DEF MarkUpdate
<1> DEFINE said == CASE told = "error" \/ open[c][p] = 0 -> told
                     [] told = "deployed" -> "deployed?"
                     [] told = "identical" -> "identical?"
<1>2. /\ said \in Answer
      /\ said = "deployed" => told = "deployed" /\ open[c][p] = 0
      /\ said = "identical" => told = "identical" /\ open[c][p] = 0
  <2>1. CASE told = "error" \/ open[c][p] = 0
    BY <2>1 DEF Answer
  <2>2. CASE told # "error" /\ open[c][p] # 0
    BY <2>2 DEF Answer
  <2> QED
    BY <2>1, <2>2
<1>3. answer' = [answer EXCEPT ![c][p] = said]
  BY <1>1
<1> HIDE DEF said
<1>4. /\ pc[c] \in Answering /\ Answered(c, p) /\ late' = late
      /\ UNCHANGED <<project, config, sourceVars, identity, certs, dist, run, read,
                     commit, platforms, files, sent, stored, offered, pc, exit>>
  BY DEF MarkUpdate, Answering
<1>5. Serve(Release(c, p), told) /\ told \in {"deployed", "identical", "error"}
  BY <1>1
<1> HIDE DEF Submitted, Coming, branchVars
<1> QED
  BY <1>2, <1>3, <1>4, <1>5, AnswerKeeps

LEMMA RollbackKeeps ==
  ASSUME IInv, NEW c \in Command, NEW p \in Outstanding(c), Rollback(c, p)
  PROVE  IInv'
<1>1. PICK told \in {"deployed", "error"} :
        /\ Serve(Release(c, p), told)
        /\ answer' = [answer EXCEPT ![c][p] = told]
  BY DEF Rollback
<1>2. told \in Answer /\ told # "identical"
  BY DEF Answer
<1>3. Kind(c) # "publish"
  BY ActiveCommand, KindsAt DEF Rollback, IInv, Local
<1> QED
  BY <1>1, <1>2, <1>3, AnswerKeeps DEF Rollback, Answering

LEMMA RepublishKeeps ==
  ASSUME IInv, NEW c \in Command, NEW p \in Outstanding(c), Republish(c, p)
  PROVE  IInv'
<1>1. PICK told \in {"deployed", "error"} :
        /\ Serve(Release(c, p), told)
        /\ answer' = [answer EXCEPT ![c][p] = told]
  BY DEF Republish
<1>2. told \in Answer /\ told # "identical"
  BY DEF Answer
<1>3. Kind(c) # "publish"
  BY ActiveCommand, KindsAt DEF Republish, IInv, Local
<1> QED
  BY <1>1, <1>2, <1>3, AnswerKeeps DEF Republish, Answering

\* What republish is told of the branch.
LEMMA ListKeeps ==
  ASSUME IInv, NEW c \in Command, pc[c] \in {"versions", "updates"},
         Ask(c, "version?") \/ Ask(c, "update?") \/ Exit(c, 1),
         open' = [open EXCEPT ![c] = None],
         OnlyAt(c, offered, offered'),
         \A u \in offered'[c] : u.platform \in Platform,
         UNCHANGED <<worldVars, run, read, commit, platforms, files, sent, stored, answer>>
  PROVE  IInv'
<1>1. Local(c) /\ PcHolds(c) /\ run'[c] = run[c]
  BY DEF IInv, Local
<1>2. Kind(c) = "republish" /\ exit[c] = None
  BY <1>1, ActiveCommand, KindsAt
<1>3. UNCHANGED <<sourceVars, dist, project, branchVars, certs>>
  BY DEF worldVars
<1>4. open'[c] = None
  BY DEF IInv, FunctionsHold
<1>5. /\ PcHolds(c)' /\ Moves(c) /\ exit'[c] \in {None, 1}
      /\ pc'[c] \in {"version?", "update?", "done"}
  <2>1. CASE Exit(c, 1)
    BY <1>1, <2>1, ExitMoves, PcAfterExit DEF IInv
  <2>2. CASE Ask(c, "version?") \/ Ask(c, "update?")
    <3>1. "version?" \in PcOf[Kind(c)] /\ "update?" \in PcOf[Kind(c)]
      BY <1>2 DEF PcOf
    <3> QED
      BY <1>1, <1>2, <2>2, <3>1, AskMoves, PcAfterAsk DEF IInv
  <2> QED
    BY <2>1, <2>2
<1>6. /\ Kind(c)' = Kind(c) /\ exit'[c] # 0
      /\ \A kind : Is(c, kind)' = Is(c, kind)
  BY <1>5, CommandAssumption DEF Kind, Is
<1>7. RequestsHold(c)'
  BY <1>1, <1>2, <1>4, <1>6 DEF Local, RequestsHold, Is
<1>8. AnswersHold(c)'
  <2>1. \A p \in Platform : answer[c][p] = None
    BY <1>1 DEF Local, AnswersHold, Answering
  <2> QED
    BY <1>5, <1>6, <2>1, CommandAssumption DEF AnswersHold, Answering, Answer
<1>9. KeysHold(c)' /\ ReleasesHold(c)'
  BY <1>1, <1>2, <1>3, <1>6 DEF Local, KeysHold, ReleasesHold, Is, Answering
<1>10. CommitHolds(c)' /\ OwnHolds(c)' /\ ShipsHold(c)'
  BY <1>1, <1>2, <1>3, SameContents DEF IInv
<1>11. OwnOnly(c) /\ OwnTypeOK(c)
  <2>1. OwnOnly(c)
    BY DEF OwnOnly, OnlyAt
  <2> QED
    BY <2>1 DEF OwnTypeOK, IInv, TypeOK
<1> QED
  BY <1>1, <1>5, <1>7, <1>8, <1>9, <1>10, <1>11, OwnQuietKeeps DEF Local

LEMMA ListRuntimeVersionsKeeps ==
  ASSUME IInv, NEW c \in Command, ListRuntimeVersions(c)
  PROVE  IInv'
<1>1. UNCHANGED offered
  BY DEF ListRuntimeVersions
<1>2. OnlyAt(c, offered, offered') /\ \A u \in offered'[c] : u.platform \in Platform
  BY <1>1 DEF IInv, TypeOK, OnlyAt
<1> QED
  BY <1>2, ListKeeps DEF ListRuntimeVersions

LEMMA ListUpdatesKeeps == ASSUME IInv, NEW c \in Command, ListUpdates(c) PROVE IInv'
<1>1. OnlyAt(c, offered, offered') /\ offered'[c] \subseteq released
  BY DEF ListUpdates, IInv, FunctionsHold, OnlyAt
<1>2. \A u \in offered'[c] : u.platform \in Platform
  BY <1>1 DEF IInv, WorldHolds, BranchHolds
<1> QED
  BY <1>1, <1>2, ListKeeps DEF ListUpdates

LEMMA LoseAnswerKeeps ==
  ASSUME IInv, NEW c \in Command, NEW t \in Outstanding(c), LoseAnswer(c, t)
  PROVE  IInv'
<1>1. pc[c] \in Requesting /\ pc[c] \notin {"idle", "done"}
  BY DEF LoseAnswer, Requesting
<1>2. CASE ~(open[c][t] < Retries)
  BY <1>1, <1>2, DiesKeeps DEF LoseAnswer
<1>3. CASE open[c][t] < Retries
  <2>1. /\ Local(c) /\ PcHolds(c) /\ open[c] # None /\ t \in DOMAIN open[c] /\ run'[c] = run[c]
        /\ open' = [open EXCEPT ![c][t] = open[c][t] + 1]
        /\ UNCHANGED <<pc, exit>>
        /\ UNCHANGED <<project, config, sourceVars, identity, certs, dist, run, read,
                       commit, platforms, files, sent, stored, answer, offered>>
    BY <1>3 DEF IInv, Local, Outstanding, LoseAnswer
  <2> DEFINE S == {l \in InFlight(c) : l.of.platform = t}
  <2>2. late' = late \cup S /\ UNCHANGED <<released, published, deleted>>
    BY <1>3 DEF LoseAnswer
  <2>3. /\ open'[c] = [open[c] EXCEPT ![t] = open[c][t] + 1]
        /\ Targets(c)' = Targets(c)
    BY <2>1 DEF IInv, FunctionsHold, Targets
  <2>a. DOMAIN open'[c] = DOMAIN open[c]
    BY <2>3
  <2>4. /\ Moves(c) /\ PcHolds(c)' /\ pc'[c] = pc[c] /\ exit'[c] = exit[c] /\ Kind(c)' = Kind(c)
        /\ run[c] # None /\ exit[c] = None
        /\ \A kind : Is(c, kind)' = Is(c, kind)
    BY <1>1, <2>1, SameMoves, PcAfterSame, ActiveCommand DEF IInv, Kind, Is
  <2>5. \A l \in S :
          /\ l.of.by = c /\ l.of.platform = t /\ answer[c][t] = None
          /\ l.of.what = "update" => Kind(c) = "publish" /\ pc[c] = "mark" /\ Uploaded(c)
          /\ pc[c] \in Answering
    BY <2>1, InFlightHolds
  <2>6. /\ BranchBy(c) /\ BranchHolds'
        /\ \A r \in Submitted' : r \in Submitted \/ \E l \in S : r = l.of
        /\ \A r \in Coming' : r \in Coming \/ \E l \in S : r = l.of
    <3>1. S \in SUBSET InFlight(c)
      OBVIOUS
    <3> HIDE DEF S, Submitted, Coming
    <3> QED
      BY <2>1, <2>2, <3>1, Leaves DEF IInv
  <2>b. ASSUME pc[c] \in Answering
        PROVE  /\ \A q \in DOMAIN open[c] : open'[c][q] \in 0 .. Retries
               /\ open'[c][t] > 0
               /\ \A q \in DOMAIN open[c] : open[c][q] > 0 => open'[c][q] > 0
               /\ open'[c] # None
    <3>1. \A q \in DOMAIN open[c] : open[c][q] \in 0 .. Retries
      BY <2>1, <2>b DEF Local, RequestsHold
    <3>2. DOMAIN open[c] \subseteq Platform
      BY <2>1, <2>b DEF Local, RequestsHold, Targets, Answering
    <3>3. /\ open'[c][t] = open[c][t] + 1
          /\ \A q \in DOMAIN open[c] \ {t} : open'[c][q] = open[c][q]
      BY <2>1, <2>3
    <3>4. open'[c][t] \in 1 .. Retries
      BY <1>3, <2>1, <3>1, <3>3, CommandAssumption
    <3>5. \A q \in DOMAIN open[c] : open'[c][q] \in 0 .. Retries
      BY <3>1, <3>3, <3>4
    <3>6. open'[c] \in [DOMAIN open[c] -> 0 .. Retries]
      BY <2>3, <3>5
    <3> QED
      BY <3>1, <3>2, <3>3, <3>4, <3>5, <3>6, CommandAssumption
  <2> HIDE DEF S
  <2>c. RequestsHold(c)'
    BY <2>1, <2>3, <2>a, <2>4, <2>b DEF Local, RequestsHold, Uploaded, Is
  <2>7. AnswersHold(c)'
    <3>1. \A p \in Platform : Release(c, p)' = Release(c, p)
      BY <2>1, <2>4 DEF Release
    <3>2. \A p \in Platform : Same(Release(c, p))' = Same(Release(c, p))
      BY <2>2, <3>1 DEF Same
    <3>3. ASSUME NEW p \in Platform, answer[c][p] = "deployed", Release(c, p) \in Coming'
          PROVE  Release(c, p) \in Coming
      <4>1. ASSUME NEW l \in S, l.of = Release(c, p)
            PROVE  FALSE
        <5>1. p = t
          BY <2>5, <4>1 DEF Release
        <5> QED
          BY <2>5, <3>3, <5>1, CommandAssumption DEF Answer
      <4> QED
        BY <2>6, <3>3, <4>1
    <3>4. exit[c] # 0 /\ pc[c] # "report" /\ UNCHANGED <<answer, platforms, released>>
      BY <1>1, <2>1, <2>2, <2>4, CommandAssumption DEF Requesting
    <3> HIDE DEF Submitted, Coming
    <3> QED
      BY <2>1, <2>a, <2>4, <2>b, <3>1, <3>2, <3>3, <3>4 DEF Local, AnswersHold
  <2>8. KeysHold(c)'
    BY <1>1, <2>4, CommandAssumption DEF KeysHold, Requesting
  <2>9. ReleasesHold(c)'
    <3> HIDE DEF Submitted, Coming
    <3>1. ASSUME NEW r \in Submitted', r.by = c
          PROVE  /\ pc[c] \in Answering \cup {"report", "done"}
                 /\ pc[c] \in Answering =>
                      open'[c] # None /\ (r.platform \in DOMAIN open'[c] => open'[c][r.platform] > 0)
                 /\ r.what = "update" =>
                      /\ Kind(c) = "publish" /\ pc[c] \in {"mark", "report", "done"}
                      /\ Uploaded(c)
      <4>1. CASE r \in Submitted
        BY <2>1, <2>a, <2>b, <3>1, <4>1 DEF Local, ReleasesHold
      <4>2. CASE \E l \in S : r = l.of
        BY <2>5, <2>b, <4>2
      <4> QED
        BY <2>6, <3>1, <4>1, <4>2
    <3> QED
      BY <2>1, <2>4, <3>1 DEF ReleasesHold, Uploaded
  <2>10. CommitHolds(c)' /\ OwnHolds(c)' /\ ShipsHold(c)'
    BY <2>1, <2>4, SameContents DEF IInv
  <2>11. OwnOnly(c) /\ OwnTypeOK(c)
    BY <2>1 DEF OwnOnly, OnlyAt, OwnTypeOK, IInv, TypeOK
  <2>12. /\ DirectoriesBy(c) /\ DOMAIN dist' = Directories
         /\ \A dir \in Directories : DOMAIN dist'[dir] = {"export", "config"}
    BY <2>1, DirectoriesStay DEF IInv, WorldHolds
  <2> QED
    BY <2>1, <2>4, <2>c, <2>6, <2>7, <2>8, <2>9, <2>10, <2>11, <2>12, OwnKeeps DEF Local
<1> QED
  BY <1>2, <1>3

LEMMA WriteKeyFileKeeps ==
  ASSUME IInv, NEW c \in Command, NEW f \in Outstanding(c), WriteKeyFile(c, f)
  PROVE  IInv'
<1>1. /\ pc[c] = "keys" /\ Local(c) /\ PcHolds(c) /\ open[c] # None /\ f \in DOMAIN open[c]
      /\ certs' = [certs EXCEPT ![f] = c] /\ Touch(c, "untracked") /\ run'[c] = run[c]
      /\ open' = [open EXCEPT ![c] = [u \in DOMAIN open[c] \ {f} |-> open[c][u]]]
      /\ UNCHANGED <<project, config, identity, dist, branchVars, run, read, commit,
                     platforms, files, sent, stored, answer, offered, pc, exit>>
  BY DEF IInv, Local, Outstanding, Answered, WriteKeyFile
<1>2. Kind(c) = "certs" /\ run[c] # None /\ exit[c] = None /\ Is(c, "certs")
  BY <1>1, ActiveCommand, KindsAt DEF Is
<1>3. DOMAIN open'[c] = DOMAIN open[c] \ {f} /\ Targets(c)' = Targets(c) /\ Targets(c) = KeyFile
  BY <1>1 DEF IInv, FunctionsHold, Targets
<1>4. f \in KeyFile
  BY <1>1, <1>3 DEF Local, RequestsHold
<1>5. /\ Moves(c) /\ PcHolds(c)' /\ pc'[c] = pc[c] /\ exit'[c] = exit[c] /\ Kind(c)' = Kind(c)
      /\ \A kind : Is(c, kind)' = Is(c, kind)
  BY <1>1, SameMoves, PcAfterSame DEF IInv, Kind, Is
<1>6. certs'[f] = c /\ \A g \in KeyFile \ {f} : certs'[g] = certs[g]
  BY <1>1, <1>4 DEF IInv, TypeOK
<1>7. certs' \in [KeyFile -> Command \cup {None, "before"}]
  BY <1>1, <1>4 DEF IInv, TypeOK
<1>8. /\ SourcesBy(c) /\ UNCHANGED <<repo, head>> /\ tree' = tree + 1 /\ tree' \in Nat
      /\ changes' # {} /\ changes' \subseteq {"tracked", "untracked"}
      /\ dirtied' \subseteq Command
  BY <1>1, TouchSources DEF IInv
<1>9. RequestsHold(c)'
  BY <1>1, <1>2, <1>3, <1>5 DEF Local, RequestsHold, Is
<1>10. AnswersHold(c)'
  <2> HIDE DEF Submitted, Coming
  <2> QED
    BY <1>1, <1>5, SameReleases DEF Local, AnswersHold, Answering
<1>11. KeysHold(c)'
  <2>1. Another(c)' = Another(c)
    BY <1>1 DEF Another, Is, Kind
  <2> QED
    BY <1>1, <1>2, <1>3, <1>5, <1>6, <2>1, CommandAssumption DEF Local, KeysHold
<1>12. ReleasesHold(c)'
  <2> HIDE DEF Submitted, Coming
  <2> QED
    BY <1>1, <1>5, SameReleases DEF Local, ReleasesHold, Answering
<1>13. CommitHolds(c)'
  BY <1>1, <1>2, <1>5, <1>8 DEF Local, CommitHolds, Is, Sent
<1>14. OwnHolds(c)' /\ ShipsHold(c)'
  BY <1>2, <1>5 DEF OwnHolds, ShipsHold, Is
<1>15. Local(c)'
  BY <1>5, <1>9, <1>10, <1>11, <1>12, <1>13, <1>14 DEF Local
<1>16. OwnOnly(c)
  BY <1>1 DEF OwnOnly, OnlyAt
<1>17. OwnTypeOK(c)
  BY <1>1 DEF OwnTypeOK, IInv, TypeOK
<1>18. WorldBy(c)
  BY <1>1, <1>2, <1>8, DirectoriesStay, BranchStays DEF WorldBy, IInv
<1>19. WorldHolds' /\ identity' \in BOOLEAN /\ run'[c] \in Invocation[c] \cup {None}
  <2>1. BranchHolds'
    BY <1>1, BranchStays DEF IInv
  <2>2. head' \in Nat /\ head' <= tree' /\ WorldHolds
    BY <1>8 DEF IInv, WorldHolds
  <2> HIDE DEF Submitted, Coming
  <2> QED
    BY <1>1, <1>8, <2>1, <2>2 DEF IInv, WorldHolds, TypeOK
<1> QED
  BY <1>5, <1>7, <1>8, <1>15, <1>16, <1>17, <1>18, <1>19, OwnStepKeeps

--------------------------------------------------------------------------------
(* Every step *)

LEMMA EditKeeps ==
  ASSUME IInv, NEW kind \in {"tracked", "untracked"}, Edit(kind)
  PROVE  IInv'
<1>1. /\ Touch(None, kind)
      /\ UNCHANGED <<project, config, identity, certs, dist, branchVars, run, read, commit,
                     platforms, files, open, sent, stored, answer, offered, pc, exit>>
  BY DEF Edit, commandVars, requestVars
<1>2. /\ SourcesBy(None) /\ UNCHANGED <<repo, head>> /\ tree' = tree + 1 /\ tree' \in Nat
      /\ changes' # {} /\ changes' \subseteq {"tracked", "untracked"}
      /\ dirtied' \subseteq Command
  BY <1>1, TouchSources DEF IInv
<1>3. WorldBy(None)
  BY <1>1, <1>2, WorldButSources DEF IInv
<1>4. ASSUME NEW d \in Command
      PROVE  Local(d)'
  <2>1. OwnSame(d) /\ Local(d) /\ d # None
    BY <1>1, CommandAssumption DEF OwnSame, IInv
  <2> QED
    BY <1>3, <2>1, Frame DEF IInv
<1>5. WorldHolds'
  <2>1. UNCHANGED <<repo, head, config, dist, project, branchVars>>
    BY <1>1, <1>2
  <2>2. WorldHolds
    BY DEF IInv
  <2>3. head' \in Nat /\ head' <= tree'
    BY <1>2, <2>1, <2>2 DEF WorldHolds
  <2> QED
    BY <1>2, <2>1, <2>2, <2>3, BranchStays DEF WorldHolds
<1>6. TypeOK'
  BY <1>1, <1>2 DEF IInv, WorldHolds, TypeOK
<1>7. FunctionsHold'
  BY <1>1 DEF IInv, FunctionsHold
<1> QED
  BY <1>4, <1>5, <1>6, <1>7 DEF IInv

LEMMA StutterKeeps == ASSUME IInv, UNCHANGED vars PROVE IInv'
<1>1. UNCHANGED <<project, config, repo, head, tree, changes, dirtied, identity, certs, dist,
                  branchVars, run, read, commit, platforms, files, open, sent, stored, answer,
                  offered, pc, exit>>
  BY DEF vars, worldVars, sourceVars, commandVars, requestVars
<1>2. WorldBy(None)
  BY <1>1, SourcesStay, WorldButSources DEF IInv
<1>3. ASSUME NEW d \in Command
      PROVE  Local(d)'
  <2>1. OwnSame(d) /\ Local(d) /\ d # None
    BY <1>1, CommandAssumption DEF OwnSame, IInv
  <2> QED
    BY <1>2, <2>1, Frame DEF IInv
<1>4. TypeOK' /\ FunctionsHold' /\ WorldHolds'
  BY <1>1, BranchStays DEF IInv, TypeOK, FunctionsHold, WorldHolds
<1> QED
  BY <1>3, <1>4 DEF IInv

\* The branch changes as it does with a step of the command that has left the request.
LEMMA ServeLateKeeps == ASSUME IInv, NEW l \in late, ServeLate(l) PROVE IInv'
<1> DEFINE r == l.of
<1>1. /\ UNCHANGED <<project, config, repo, head, tree, changes, dirtied, identity, certs, dist,
                     run, read, commit, platforms, files, open, sent, stored, answer,
                     offered, pc, exit>>
      /\ late' \subseteq late
  BY DEF ServeLate, sourceVars, commandVars, requestVars
<1>2. PICK told \in {"deployed", "identical", "error"} : Serve(r, told)
  BY DEF ServeLate
<1>3. r \in Coming /\ r.by \in Command /\ r.platform \in Platform /\ BranchHolds
  BY DEF IInv, WorldHolds, BranchHolds
<1> DEFINE c == r.by
<1> HIDE DEF r, Submitted, Coming
<1>4. /\ BranchBy(c) /\ BranchHolds'
      /\ Submitted' \subseteq Submitted \cup {r} /\ Coming' \subseteq Coming
      /\ \A x \in released : x # r \/ r.what # "update" => x \in released'
  BY <1>1, <1>2, <1>3, Served
<1>5. Submitted' \subseteq Submitted
  BY <1>3, <1>4 DEF Submitted
<1>6. WorldBy(c) /\ WorldHolds'
  BY <1>1, <1>4, SourcesStay, DirectoriesStay DEF WorldBy, IInv, WorldHolds
<1>7. \A d \in Command : OwnSame(d) /\ Local(d)
  BY <1>1 DEF OwnSame, IInv
<1>8. \A d \in Command \ {c} : Local(d)'
  BY <1>6, <1>7, Frame DEF IInv
<1>9. Local(c)'
  <2> HIDE DEF c
  <2>1. c \in Command /\ Local(c) /\ UNCHANGED <<run, read>>
    BY <1>1, <1>3, <1>7 DEF c
  <2>2. \A p \in Platform : Release(c, p)' = Release(c, p)
    BY <1>1 DEF Release, Kind
  <2>3. PcHolds(c)' /\ RequestsHold(c)' /\ KeysHold(c)'
    BY <1>1, <2>1
       DEF Local, PcHolds, RequestsHold, KeysHold, Kind, Is, Targets, Uploaded, Another
  <2>4. ReleasesHold(c)'
    BY <1>1, <1>5, <2>1 DEF Local, ReleasesHold, Kind, Uploaded
  <2>5. AnswersHold(c)'
    <3>1. ASSUME NEW p \in Platform, answer[c][p] = "deployed"
          PROVE  /\ Release(c, p) \in released'
                 /\ Kind(c) = "publish" => Release(c, p) \notin Coming'
      <4>1. /\ Release(c, p) \in released
            /\ Kind(c) = "publish" => Release(c, p) \notin Coming
        BY <2>1, <3>1 DEF Local, AnswersHold
      <4>2. Release(c, p).what = "update" => Kind(c) = "publish"
        BY DEF Release
      <4> QED
        BY <1>3, <1>4, <4>1, <4>2
    <3>2. ASSUME NEW p \in Platform, answer[c][p] = "identical"
          PROVE  Same(Release(c, p))' \ {Release(c, p)} # {}
      <4>1. Same(Release(c, p)) \subseteq Same(Release(c, p))'
        BY <1>4, <2>2 DEF Same, BranchBy
      <4> QED
        BY <2>1, <3>2, <4>1 DEF Local, AnswersHold
    <3> QED
      BY <1>1, <2>1, <2>2, <3>1, <3>2 DEF Local, AnswersHold, Kind
  <2>6. CommitHolds(c)' /\ OwnHolds(c)' /\ ShipsHold(c)'
    BY <1>1, <2>1, SameContents DEF IInv, sourceVars
  <2> QED
    BY <2>3, <2>4, <2>5, <2>6 DEF Local
<1>10. TypeOK' /\ FunctionsHold'
  BY <1>1 DEF IInv, TypeOK, FunctionsHold
<1> QED
  BY <1>6, <1>8, <1>9, <1>10 DEF IInv

LEMMA StepOfKeeps == ASSUME IInv, NEW c \in Command, Step(c) PROVE IInv'
BY CheckExpoKeeps, EnsureRepoIsCleanKeeps, EnsureRepoExistsKeeps, CommitKeeps, ReadConfigKeeps,
   ConfirmKeeps, GetCommitHashKeeps, ResolveRuntimeVersionsKeeps, AskUrlKeeps, WriteConfigKeeps,
   AskWhereKeeps, RemoveOutputKeeps, ExportProjectKeeps, WriteExpoConfigKeeps, ComputeFilesKeeps,
   StageFailsKeeps, SendRequestsKeeps, AllAnsweredKeeps, ReportKeeps
   DEF Step

LEMMA ReplyKeeps == ASSUME IInv, NEW c \in Command, Reply(c) PROVE IInv'
BY SayNoKeeps, SayYesKeeps, GitInitKeeps, CommitMessageKeeps, ConfigureGitKeeps,
   SelectRuntimeVersionKeeps, SelectUpdateKeeps, EnterUrlKeeps, EnterCertificateKeeps,
   EnterCertificateNamesKeeps
   DEF Reply

LEMMA ReceiveKeeps ==
  ASSUME IInv, NEW c \in Command, NEW t \in Outstanding(c), Receive(c, t)
  PROVE  IInv'
BY GetUploadUrlKeeps, ReadFileKeeps, StoreFileKeeps, MarkUpdateKeeps, RollbackKeeps,
   RepublishKeeps, ListRuntimeVersionsKeeps, ListUpdatesKeeps, WriteKeyFileKeeps,
   LoseAnswerKeeps, RefuseKeeps
   DEF Receive

LEMMA NextKeeps == ASSUME IInv, [Next]_vars PROVE IInv'
<1>1. CASE UNCHANGED vars
  BY <1>1, StutterKeeps
<1>2. ASSUME NEW kind \in {"tracked", "untracked"}, Edit(kind)
      PROVE  IInv'
  BY <1>2, EditKeeps
<1>a. ASSUME NEW l \in late, ServeLate(l)
      PROVE  IInv'
  BY <1>a, ServeLateKeeps
<1>3. ASSUME NEW c \in Command,
             \/ \E i \in Invocation[c] : Start(c, i)
             \/ \E t \in Outstanding(c) : Receive(c, t)
             \/ Step(c) \/ Reply(c) \/ Interrupt(c)
      PROVE  IInv'
  BY <1>3, StartKeeps, ReceiveKeeps, StepOfKeeps, ReplyKeeps, InterruptKeeps
<1> QED
  BY <1>1, <1>2, <1>3, <1>a DEF Next

LEMMA InitHolds == ASSUME Init PROVE IInv
<1>0. /\ run = [c \in Command |-> None] /\ pc = [c \in Command |-> "idle"]
      /\ exit = [c \in Command |-> None] /\ read = [c \in Command |-> None]
      /\ commit = [c \in Command |-> 0] /\ platforms = [c \in Command |-> {}]
      /\ files = [c \in Command |-> {}] /\ open = [c \in Command |-> None]
      /\ sent = [c \in Command |-> <<>>] /\ stored = [c \in Command |-> {}]
      /\ answer = [c \in Command |-> [p \in Platform |-> None]]
      /\ offered = [c \in Command |-> {}]
  BY DEF Init
<1>a. /\ repo \in BOOLEAN /\ head \in Nat /\ tree \in Nat /\ head <= tree
      /\ changes \subseteq {"tracked", "untracked"}
      /\ changes = {} => head = tree
  <2>1. /\ \/ repo = FALSE /\ head = 0 /\ changes = {"untracked"}
           \/ repo = TRUE /\ head = 1 /\ changes = {}
           \/ repo = TRUE /\ head = 1 /\ changes = {"untracked"}
        /\ tree = IF changes = {} THEN 1 ELSE 2
    BY DEF Init
  <2>2. repo \in BOOLEAN
    BY <2>1
  <2>3. /\ head = 0 \/ head = 1
        /\ changes = {} \/ changes = {"untracked"}
        /\ changes = {} => head = 1
    BY <2>1
  <2>4. CASE changes = {}
    <3>1. tree = 1 /\ head = 1
      BY <2>1, <2>3, <2>4
    <3> QED
      BY <2>2, <2>4, <3>1
  <2>5. CASE changes = {"untracked"}
    <3>1. tree = 2
      BY <2>1, <2>5
    <3>2. head \in Nat /\ tree \in Nat /\ head <= tree
      BY <2>3, <3>1
    <3> QED
      BY <2>2, <2>5, <3>2
  <2> QED
    BY <2>3, <2>4, <2>5
<1>b. released = Seed /\ published = Seed /\ Submitted = Seed /\ Coming = {} /\ deleted = {}
  BY DEF Init
<1>1. TypeOK
  <2>1. identity \in BOOLEAN /\ dirtied \subseteq Command
    BY DEF Init
  <2>2. certs \in [KeyFile -> Command \cup {None, "before"}]
    BY DEF Init
  <2>3. /\ exit \in [Command -> {None, 0, 1, 130}]
        /\ commit \in [Command -> Nat]
        /\ platforms \in [Command -> SUBSET Platform]
        /\ files \in [Command -> SUBSET File]
        /\ stored \in [Command -> SUBSET (Platform \X File)]
        /\ answer \in [Command -> [Platform -> Answer \cup {None}]]
    BY <1>0
  <2>4. \A c \in Command :
          /\ run[c] \in Invocation[c] \cup {None}
          /\ \A u \in offered[c] : u.platform \in Platform
          /\ pc[c] \in Question => run[c].tty
    BY <1>0 DEF Question
  <2> QED
    BY <1>a, <2>1, <2>2, <2>3, <2>4 DEF TypeOK
<1>2. FunctionsHold
  BY <1>0 DEF FunctionsHold
<1>3. WorldHolds
  <2>1. /\ config \in Config
        /\ dist = [d \in Directories |-> [export |-> Nothing, config |-> Nothing]]
    BY DEF Init
  <2>2. /\ DOMAIN dist = Directories
        /\ \A dir \in Directories : DOMAIN dist[dir] = {"export", "config"}
    BY <2>1
  <2>3. config.form = "none" => config.url = None
    BY <2>1, CommandAssumption
  <2>4. BranchHolds
    BY <1>b, CommandAssumption DEF BranchHolds
  <2> QED
    BY <1>a, <2>2, <2>3, <2>4 DEF WorldHolds
<1>4. ASSUME NEW c \in Command
      PROVE  Local(c)
  <2>1. /\ run[c] = None /\ pc[c] = "idle" /\ exit[c] = None /\ commit[c] = 0
        /\ platforms[c] = {} /\ files[c] = {} /\ open[c] = None /\ DOMAIN sent[c] = {}
        /\ stored[c] = {} /\ offered[c] = {}
        /\ \A p \in Platform : answer[c][p] = None
    BY <1>4 DEF Init
  <2>2. ~Undisturbed(c) /\ \A kind : ~Is(c, kind)
    BY <2>1 DEF Undisturbed, Is
  <2>3. PcHolds(c) /\ RequestsHold(c) /\ KeysHold(c)
    BY <2>1, <2>2 DEF PcHolds, RequestsHold, KeysHold, Question
  <2>4. AnswersHold(c)
    <3>1. None # "deployed" /\ None # "identical" /\ None # 0
      BY CommandAssumption DEF Answer
    <3> QED
      BY <2>1, <3>1 DEF AnswersHold, Answering
  <2>a. ReleasesHold(c)
    <3> HIDE DEF Submitted
    <3> QED
      BY <1>b, CommandAssumption DEF ReleasesHold
  <2>5. CommitHolds(c) /\ OwnHolds(c) /\ ShipsHold(c)
    BY <1>3, <2>1, <2>2 DEF CommitHolds, OwnHolds, ShipsHold, Sent, WorldHolds
  <2> QED
    BY <2>3, <2>4, <2>5, <2>a DEF Local
<1> QED
  BY <1>1, <1>2, <1>3, <1>4 DEF IInv

LEMMA AlwaysIInv == Spec => []IInv
<1>1. Init => IInv
  BY InitHolds
<1>2. IInv /\ [Next]_vars => IInv'
  BY NextKeeps
<1> QED
  BY <1>1, <1>2, PTL DEF Spec

--------------------------------------------------------------------------------
(* Theorems *)

\* The state of the commands, and of what they share, has its type.
THEOREM CommandsTypeCorrect == Spec => []TypeOK
BY AlwaysIInv, PTL DEF IInv

\* Nothing of a publish goes live before the server has confirmed every file of
\* every platform (publish.ts waits for the uploads before it marks), whatever
\* requests fail or are repeated and whenever a command is killed.
THEOREM UploadsComeFirst == Spec => []LiveAfterUploads
<1>1. IInv => LiveAfterUploads
  BY DEF IInv, WorldHolds, BranchHolds, Local, ReleasesHold, LiveAfterUploads, Uploaded
<1> QED
  BY <1>1, AlwaysIInv, PTL

\* The commit a publish names to the server is never later than the sources it
\* has built, as the hash is taken before the export.
THEOREM CommitsAreNotLater == Spec => []NamesNoLaterCommit
<1>1. IInv => NamesNoLaterCommit
  BY DEF IInv, Local, CommitHolds, NamesNoLaterCommit, Sent
<1> QED
  BY <1>1, AlwaysIInv, PTL

\* A publish that checks the repository ships the commit it names, if nobody
\* changes the sources meanwhile and it has its output directory for itself.
THEOREM CommitIsShipped == Spec => []ShipsItsCommit
<1>1. IInv => ShipsItsCommit
  <2> SUFFICES ASSUME IInv, NEW c \in Command, Undisturbed(c), Exclusive(c),
                      NEW t \in DOMAIN sent[c]
               PROVE  sent[c][t].of = commit[c]
    BY DEF ShipsItsCommit, Undisturbed
  <2>1. Kind(c) = "publish" /\ sent[c][t] \in Sent(c)
    BY DEF IInv, Local, CommitHolds, Is, Sent
  <2> QED
    BY <2>1 DEF IInv, Local, ShipsHold
<1> QED
  BY <1>1, AlwaysIInv, PTL

\* What a publish sends is its own export, when no other command uses its output
\* directory (--outputDir).
THEOREM ExportsStayApart == Spec => []OwnExport
<1>1. IInv => OwnExport
  <2> SUFFICES ASSUME IInv, NEW c \in Command, NEW t \in DOMAIN sent[c], Exclusive(c)
               PROVE  sent[c][t].by = c
    BY DEF OwnExport
  <2>1. Is(c, "publish") /\ sent[c][t] \in Sent(c)
    BY DEF IInv, Local, CommitHolds, Sent
  <2> QED
    BY <2>1 DEF IInv, Local, OwnHolds
<1> QED
  BY <1>1, AlwaysIInv, PTL

\* eoas publish --nonInteractive never waits for an answer: where it would ask, it
\* goes on or exits.
THEOREM NonInteractiveNeverAsks == Spec => []PublishNeverAsks
<1>1. IInv => PublishNeverAsks
  BY DEF IInv, Local, PcHolds, PublishNeverAsks
<1> QED
  BY <1>1, AlwaysIInv, PTL

\* A publish, rollback or republish that exits with 0 is released for each of its
\* platforms, or the server had another update there that its own brings nothing new
\* to.  Nothing is promised of a mark that was repeated because its answer was lost
\* (fetch.ts): of that one DeployedIsReleased does not hold.
THEOREM SuccessIsTrue == Spec => []SuccessIsReleased
<1>1. ASSUME IInv, NEW c \in Command, exit[c] = 0, Kind(c) # "init", NEW p \in platforms[c]
      PROVE  \/ answer[c][p] = "deployed" /\ Release(c, p) \in released
             \/ answer[c][p] = "identical" /\ Same(Release(c, p)) \ {Release(c, p)} # {}
             \/ answer[c][p] \in {"deployed?", "identical?"}
  <2>1. RequestsHold(c) /\ AnswersHold(c)
    BY <1>1 DEF IInv, Local
  <2>2. p \in Platform /\ answer[c][p] \in Answer \ {"error"}
    BY <1>1, <2>1 DEF RequestsHold, AnswersHold
  <2>3. answer[c][p] \in {"deployed", "identical", "deployed?", "identical?"}
    BY <2>2 DEF Answer
  <2> HIDE DEF Submitted, Coming
  <2> QED
    BY <2>1, <2>2, <2>3 DEF AnswersHold
<1>2. IInv => SuccessIsReleased
  BY <1>1 DEF SuccessIsReleased
<1> QED
  BY <1>2, AlwaysIInv, PTL

\* The key files of a generate-certs that succeeded are of one pair, if no other
\* one runs.
THEOREM KeysAreOnePair == Spec => []KeysMatch
<1>1. IInv => KeysMatch
  <2> SUFFICES ASSUME IInv, NEW c \in Command, exit[c] = 0, Kind(c) = "certs"
               PROVE  \/ \A f \in KeyFile : certs[f] = c
                      \/ \E d \in Command \ {c} : run[d] # None /\ Kind(d) = "certs"
    BY DEF KeysMatch
  <2>1. Is(c, "certs")
    BY CommandAssumption DEF IInv, Local, PcHolds, Is
  <2>2. \A f \in KeyFile : certs[f] = c \/ Another(c)
    BY <2>1 DEF IInv, Local, KeysHold
  <2> QED
    BY <2>2 DEF Another, Is
<1> QED
  BY <1>1, AlwaysIInv, PTL

--------------------------------------------------------------------------------
(* Where the releases go.  What PolledInv says of a command only depends on its *)
(* own steps: the first lemmas say which stages those lead to.                  *)

HIDE DEF Submitted, Coming

Kept(c) ==
  /\ run' = run /\ \A d \in Command \ {c} : pc'[d] = pc[d]
  /\ pc'[c] \in PastConfig[Kind(c)] => pc[c] \in PastConfig[Kind(c)]
  /\ pc[c] \in Releasing => pc'[c] \in Releasing

LEMMA StagePast ==
  ASSUME NEW kind \in Kinds, NEW s \in DOMAIN Stages[kind]
  PROVE  /\ Stages[kind][s] \in PastConfig[kind] /\ s # "config" => s \in PastConfig[kind]
         /\ s \in Answering => Stages[kind][s] = "report"
<1> USE DEF PastConfig, AfterClean, AfterHash, AfterRemove, Answering
<1>1. CASE kind = "publish"
  BY <1>1 DEF Stages, PublishStages
<1>2. CASE kind = "rollback"
  BY <1>2 DEF Stages, RollbackStages
<1>3. CASE kind = "republish"
  BY <1>3 DEF Stages, RepublishStages
<1>4. CASE kind = "init"
  BY <1>4 DEF Stages, InitStages
<1>5. CASE kind = "certs"
  BY <1>5 DEF Stages, GenerateCertsStages
<1> QED
  BY <1>1, <1>2, <1>3, <1>4, <1>5 DEF Kinds

LEMMA OutsidePast ==
  ASSUME NEW kind \in Kinds
  PROVE  /\ {"idle", "done", "start", "repo", "expo", "clean", "config", "commit?", "init?",
             "message?", "identity?", "commit", "where", "where?", "keys"}
              \cap PastConfig[kind] = {}
         /\ kind # "publish" => {"hash", "confirm", "confirm?"} \cap PastConfig[kind] = {}
BY DEF Kinds, PastConfig, AfterClean, AfterHash, AfterRemove

LEMMA KeptSame ==
  ASSUME NEW c \in Command, UNCHANGED <<run, pc>>
  PROVE  Kept(c)
BY DEF Kept

LEMMA KeptExit ==
  ASSUME IInv, NEW c \in Command, pc[c] # "idle", run' = run, NEW code, Exit(c, code)
  PROVE  Kept(c)
<1>1. pc' = [pc EXCEPT ![c] = "done"] /\ DOMAIN pc = Command
  BY DEF Exit, Goto, IInv, FunctionsHold
<1>2. Kind(c) \in Kinds
  BY ActiveCommand DEF IInv, Local
<1>3. "done" \notin PastConfig[Kind(c)]
  BY <1>2, OutsidePast
<1> QED
  BY <1>1, <1>3 DEF Kept, Releasing

LEMMA KeptReturn ==
  ASSUME IInv, NEW c \in Command, pc[c] \notin Releasing, run' = run, NEW s, Return(c, s),
         s \in PastConfig[Kind(c)] => pc[c] \in PastConfig[Kind(c)]
  PROVE  Kept(c)
BY DEF Return, Goto, IInv, FunctionsHold, Kept

LEMMA KeptAsk ==
  ASSUME IInv, NEW c \in Command, pc[c] \notin Releasing \cup {"idle"}, run' = run,
         NEW q, Ask(c, q), q \in PastConfig[Kind(c)] => pc[c] \in PastConfig[Kind(c)]
  PROVE  Kept(c)
BY KeptReturn, KeptExit DEF Ask

LEMMA KeptProceed ==
  ASSUME IInv, NEW c \in Command, run' = run, Proceed(c),
         pc[c] \notin Question \cup {"idle", "commit", "report", "done", "write", "config"}
  PROVE  Kept(c)
<1>1. /\ Kind(c) \in Kinds /\ pc[c] \in DOMAIN Stages[Kind(c)]
  BY ActiveCommand, InStages DEF IInv, Local
<1>2. pc' = [pc EXCEPT ![c] = Stages[Kind(c)][pc[c]]] /\ DOMAIN pc = Command
  BY DEF Proceed, Goto, IInv, FunctionsHold
<1> QED
  BY <1>1, <1>2, StagePast DEF Kept, Releasing

LEMMA StepKept ==
  ASSUME IInv, NEW c \in Command, Step(c)
  PROVE  \/ ReadConfig(c)
         \/ Kept(c) /\ UNCHANGED <<read, project, branchVars>>
<1> SUFFICES ASSUME ~ReadConfig(c)
             PROVE  Kept(c) /\ UNCHANGED <<read, project, branchVars>>
  OBVIOUS
<1>0. PcHolds(c)
  BY DEF IInv, Local
<1>1. CASE CheckExpo(c) \/ EnsureRepoIsClean(c) \/ EnsureRepoExists(c) \/ AskUrl(c) \/ AskWhere(c)
  <2>1. /\ pc[c] \in {"expo", "clean", "repo", "url", "where"} /\ run' = run
        /\ UNCHANGED <<read, project, branchVars>>
    BY <1>1 DEF CheckExpo, EnsureRepoIsClean, EnsureRepoExists, AskUrl, AskWhere, worldVars,
                commandVars
  <2>2. \/ Proceed(c) \/ \E code : Exit(c, code)
        \/ \E q \in {"commit?", "init?", "where?"} : Ask(c, q)
        \/ pc[c] = "url" /\ Kind(c) = "init" /\ Ask(c, "url?")
    BY <1>1 DEF CheckExpo, EnsureRepoIsClean, EnsureRepoExists, AskUrl, AskWhere
  <2>3. Kind(c) \in Kinds
    BY <1>0, <2>1, ActiveCommand
  <2>4. pc[c] \notin Releasing \cup Question \cup {"idle"}
    BY <2>1 DEF Releasing, Answering, Question
  <2>5. CASE \E q \in {"commit?", "init?", "where?"} : Ask(c, q)
    BY <2>1, <2>3, <2>4, <2>5, OutsidePast, KeptAsk
  <2>6. CASE pc[c] = "url" /\ Kind(c) = "init" /\ Ask(c, "url?")
    <3>1. "url" \in PastConfig["init"]
      BY DEF PastConfig
    <3> QED
      BY <2>1, <2>4, <2>6, <3>1, KeptAsk
  <2> QED
    BY <2>1, <2>2, <2>4, <2>5, <2>6, KeptProceed, KeptExit
<1>2. CASE Commit(c)
  <2>1. /\ pc[c] = "commit" /\ run' = run /\ UNCHANGED <<read, project, branchVars>>
        /\ \/ Exit(c, 1)
           \/ Return(c, CASE Kind(c) = "publish" -> "config"
                          [] Kind(c) = "rollback" -> "hash"
                          [] OTHER -> "expo")
    BY <1>2 DEF Commit, commandVars
  <2>2. Kind(c) \in Kinds
    BY <1>0, <2>1, ActiveCommand
  <2>3. \/ Exit(c, 1) \/ Return(c, "config") \/ Return(c, "expo")
        \/ Kind(c) = "rollback" /\ Return(c, "hash")
    BY <2>1
  <2>4. /\ {"config", "expo"} \cap PastConfig[Kind(c)] = {}
        /\ (Kind(c) = "rollback" => "hash" \notin PastConfig[Kind(c)])
    BY <2>2, OutsidePast
  <2>5. pc[c] \notin Releasing \cup {"idle"}
    BY <2>1 DEF Releasing, Answering
  <2> QED
    BY <2>1, <2>3, <2>4, <2>5, KeptReturn, KeptExit
<1>3. CASE Confirm(c)
  <2>1. /\ pc[c] = "confirm" /\ run' = run /\ UNCHANGED <<read, project, branchVars>>
        /\ Proceed(c) \/ Ask(c, "confirm?")
    BY <1>3 DEF Confirm, worldVars, commandVars
  <2>2. Kind(c) \in Kinds
    BY <1>0, <2>1, ActiveCommand
  <2>3. "confirm?" \in PastConfig[Kind(c)] => "confirm" \in PastConfig[Kind(c)]
    BY <2>2 DEF Kinds, PastConfig, AfterClean, AfterHash, AfterRemove
  <2>4. pc[c] \notin Releasing \cup Question \cup
                     {"idle", "commit", "report", "done", "write", "config"}
    BY <2>1 DEF Releasing, Answering, Question
  <2> QED
    BY <2>1, <2>3, <2>4, KeptProceed, KeptAsk
<1>4. CASE \/ GetCommitHash(c) \/ ResolveRuntimeVersions(c) \/ RemoveOutput(c)
           \/ ExportProject(c) \/ WriteExpoConfig(c) \/ ComputeFiles(c) \/ AllAnswered(c)
  <2>1. /\ run' = run /\ UNCHANGED <<read, project, branchVars>>
        /\ Proceed(c) \/ \E code : Exit(c, code)
        /\ pc[c] \in {"hash", "runtime", "remove", "export", "public", "files"} \cup Parallel
    BY <1>4 DEF GetCommitHash, ResolveRuntimeVersions, RemoveOutput, ExportProject,
                WriteExpoConfig, ComputeFiles, AllAnswered, worldVars, commandVars
  <2>2. pc[c] \notin Question \cup {"idle", "commit", "report", "done", "write", "config"}
    BY <2>1 DEF Question, Parallel, Requesting
  <2> QED
    BY <2>1, <2>2, KeptProceed, KeptExit
<1>5. CASE WriteConfig(c) \/ StageFails(c) \/ Report(c)
  <2>1. /\ run' = run /\ UNCHANGED <<read, project, branchVars>> /\ pc[c] # "idle"
        /\ \E code : Exit(c, code)
    BY <1>5 DEF WriteConfig, StageFails, Report, worldVars, commandVars
  <2> QED
    BY <2>1, KeptExit
<1>6. CASE SendRequests(c)
  BY <1>6, KeptSame DEF SendRequests, worldVars
<1> QED
  BY <1>1, <1>2, <1>3, <1>4, <1>5, <1>6 DEF Step

\* What init is answered changes the server it has read.
LEMMA ReplyKept ==
  ASSUME IInv, NEW c \in Command, Reply(c)
  PROVE  /\ Kept(c) /\ UNCHANGED <<config, project, branchVars>>
         /\ \/ UNCHANGED read
            \/ /\ Kind(c) = "init" /\ pc[c] \in PastConfig[Kind(c)]
               /\ \E server : read' = [read EXCEPT ![c].server = server]
<1>0. PcHolds(c)
  BY DEF IInv, Local
<1>1. pc[c] \in Question
  BY DEF Reply, SayNo, SayYes, GitInit, CommitMessage, ConfigureGit, SelectRuntimeVersion,
         SelectUpdate, EnterUrl, EnterCertificate, EnterCertificateNames, Question
<1>2. Kind(c) \in Kinds /\ pc[c] \in PcOf[Kind(c)] /\ pc[c] \notin Releasing \cup {"idle"}
  <2>1. pc[c] \notin Releasing \cup {"idle"}
    BY <1>1 DEF Releasing, Answering, Question
  <2> QED
    BY <1>0, <2>1, ActiveCommand
<1>3. /\ pc[c] \in {"url?", "replace?", "certificate?"} =>
           Kind(c) = "init" /\ pc[c] \in PastConfig[Kind(c)]
      /\ pc[c] \in {"version?", "update?"} => pc[c] \in PastConfig[Kind(c)]
      /\ pc[c] = "confirm?" /\ Kind(c) = "publish" => pc[c] \in PastConfig[Kind(c)]
  <2>1. /\ pc[c] \in {"url?", "replace?", "certificate?"} => Kind(c) = "init"
        /\ pc[c] \in {"version?", "update?"} => Kind(c) = "republish"
    BY <1>2, KindsAt
  <2>2. /\ {"url?", "replace?", "certificate?"} \subseteq PastConfig["init"]
        /\ {"version?", "update?"} \subseteq PastConfig["republish"]
        /\ "confirm?" \in PastConfig["publish"]
    BY DEF PastConfig, AfterClean, AfterHash, AfterRemove
  <2> QED
    BY <2>1, <2>2
<1>4. /\ {"message?", "identity?", "commit", "config", "keys"} \cap PastConfig[Kind(c)] = {}
      /\ Kind(c) # "publish" => "hash" \notin PastConfig[Kind(c)]
  BY <1>2, OutsidePast
<1>5. CASE SayNo(c)
  <2>1. /\ run' = run /\ UNCHANGED <<config, project, branchVars>>
        /\ \/ /\ pc[c] = "replace?" /\ Ask(c, "certificate?")
              /\ read' = [read EXCEPT ![c].server = None]
           \/ UNCHANGED read /\ \E code : Exit(c, code)
    BY <1>5 DEF SayNo, worldVars
  <2> QED
    BY <1>2, <1>3, <2>1, KeptAsk, KeptExit
<1>6. CASE SayYes(c)
  <2>1. /\ run' = run /\ UNCHANGED <<config, project, branchVars, read>>
        /\ \/ Ask(c, "message?")
           \/ pc[c] = "confirm?" /\ Kind(c) = "publish" /\ Return(c, "hash")
           \/ Return(c, "config")
           \/ pc[c] = "replace?" /\ Ask(c, "certificate?")
    BY <1>6 DEF SayYes, worldVars, commandVars
  <2> QED
    BY <1>2, <1>3, <1>4, <2>1, KeptAsk, KeptReturn
<1>7. CASE GitInit(c) \/ CommitMessage(c) \/ ConfigureGit(c) \/ EnterCertificateNames(c)
  <2>1. /\ run' = run /\ UNCHANGED <<config, project, branchVars, read>>
        /\ \/ \E q \in {"message?", "identity?"} : Ask(c, q)
           \/ \E s \in {"commit", "keys"} : Return(c, s)
    BY <1>7 DEF GitInit, CommitMessage, ConfigureGit, EnterCertificateNames, worldVars,
                commandVars
  <2> QED
    BY <1>2, <1>4, <2>1, KeptAsk, KeptReturn
<1>8. CASE SelectRuntimeVersion(c) \/ SelectUpdate(c) \/ EnterCertificate(c)
  <2>1. /\ run' = run /\ UNCHANGED <<config, project, branchVars, read>>
        /\ \E s : Return(c, s)
        /\ pc[c] \in {"version?", "update?", "certificate?"}
    BY <1>8 DEF SelectRuntimeVersion, SelectUpdate, EnterCertificate, worldVars, commandVars
  <2> QED
    BY <1>2, <1>3, <2>1, KeptReturn
<1>9. CASE EnterUrl(c)
  <2>1. /\ run' = run /\ UNCHANGED <<config, project, branchVars>> /\ pc[c] = "url?"
        /\ \E q : Ask(c, q)
        /\ \E server : read' = [read EXCEPT ![c].server = server]
    BY <1>9 DEF EnterUrl, worldVars
  <2> QED
    BY <1>2, <1>3, <2>1, KeptAsk
<1> QED
  BY <1>5, <1>6, <1>7, <1>8, <1>9 DEF Reply

\* What c submits is for the server and the app it has read.
Submits(c) ==
  \A r \in Submitted' \ Submitted :
    r.by = c /\ pc[c] \in Answering /\ r.server = read[c].server /\ r.app = read[c].app

LEMMA SameSubmitted ==
  ASSUME UNCHANGED branchVars
  PROVE  Submitted' = Submitted
BY DEF Submitted, Coming

LEMMA ReleaseRead ==
  ASSUME NEW c, NEW p
  PROVE  Release(c, p).by = c /\ Release(c, p).server = read[c].server
         /\ Release(c, p).app = read[c].app
BY DEF Release

LEMMA LateRead ==
  ASSUME NEW c, late' \subseteq late \cup InFlight(c), UNCHANGED <<released, published, deleted>>
  PROVE  Submits(c)
<1>1. \A l \in InFlight(c) : pc[c] \in Answering /\ \E p : l.of = Release(c, p)
  BY DEF InFlight
<1>2. \A r \in Submitted' \ Submitted : \E l \in InFlight(c) : r = l.of
  BY DEF Submitted, Coming
<1> QED
  BY <1>1, <1>2, ReleaseRead DEF Submits

LEMMA ServeRead ==
  ASSUME IInv, NEW r, NEW told \in {"deployed", "identical", "error"}, Serve(r, told),
         late' \subseteq late
  PROVE  Submitted' \subseteq Submitted \cup {r}
<1>1. /\ released \subseteq published /\ published' = published \cup released'
      /\ released' \subseteq released \cup {r} /\ deleted' \subseteq deleted \cup {r}
  BY DEF Serve, IInv, WorldHolds, BranchHolds
<1>2. Coming' \subseteq Coming
  BY DEF Coming
<1> QED
  BY <1>1, <1>2 DEF Submitted

LEMMA SameSubmits ==
  ASSUME NEW c, UNCHANGED branchVars
  PROVE  Submits(c)
BY SameSubmitted DEF Submits

LEMMA DiesKept ==
  ASSUME IInv, NEW c \in Command, pc[c] # "idle", run' = run, NEW code, Dies(c, code)
  PROVE  Kept(c) /\ Submits(c)
BY KeptExit, LateRead DEF Dies

LEMMA ReceiveKept ==
  ASSUME IInv, NEW c \in Command, NEW t, Receive(c, t)
  PROVE  Kept(c) /\ Submits(c) /\ UNCHANGED <<config, read>>
<1>0. PcHolds(c)
  BY DEF IInv, Local
<1>1. CASE GetUploadUrl(c, t) \/ StoreFile(c, t) \/ WriteKeyFile(c, t)
  <2>1. UNCHANGED <<run, pc, config, read, project, branchVars>>
    BY <1>1 DEF GetUploadUrl, StoreFile, WriteKeyFile, worldVars
  <2> QED
    BY <2>1, KeptSame, SameSubmits
<1>2. CASE MarkUpdate(c, t) \/ Rollback(c, t) \/ Republish(c, t)
  <2>1. UNCHANGED <<run, pc, config, read, late>> /\ pc[c] \in Answering
    BY <1>2 DEF MarkUpdate, Rollback, Republish, Answering
  <2>2. \E told \in {"deployed", "identical", "error"} : Serve(Release(c, t), told)
    BY <1>2 DEF MarkUpdate, Rollback, Republish
  <2>3. Submitted' \subseteq Submitted \cup {Release(c, t)}
    BY <2>1, <2>2, ServeRead
  <2> QED
    BY <2>1, <2>3, KeptSame, ReleaseRead DEF Submits
<1>3. CASE Refuse(c, t)
  <2>1. /\ UNCHANGED <<run, config, read>> /\ pc[c] # "idle" /\ Dies(c, 1)
    BY <1>3 DEF Refuse
  <2> QED
    BY <2>1, DiesKept
<1>4. CASE LoseAnswer(c, t)
  <2>1. /\ UNCHANGED <<run, config, read>> /\ pc[c] # "idle"
        /\ \/ Dies(c, 1)
           \/ /\ UNCHANGED <<released, published, deleted, pc>>
              /\ late' \subseteq late \cup InFlight(c)
    BY <1>4 DEF LoseAnswer, Requesting
  <2> QED
    BY <2>1, DiesKept, KeptSame, LateRead
<1>5. CASE ReadFile(c, t)
  <2>1. /\ UNCHANGED <<run, config, read>> /\ pc[c] # "idle"
        /\ Dies(c, 1) \/ UNCHANGED <<pc, project, branchVars>>
    BY <1>5 DEF ReadFile
  <2> QED
    BY <2>1, DiesKept, KeptSame, SameSubmits
<1>6. CASE ListRuntimeVersions(c) \/ ListUpdates(c)
  <2>1. /\ UNCHANGED <<run, config, read, project, branchVars>> /\ pc[c] \in {"versions", "updates"}
        /\ \/ \E code : Exit(c, code)
           \/ \E q : Ask(c, q)
    BY <1>6 DEF ListRuntimeVersions, ListUpdates, worldVars
  <2>2. pc[c] \in PastConfig[Kind(c)] /\ pc[c] \notin Releasing \cup {"idle"}
    <3>1. Kind(c) = "republish" /\ pc[c] \notin Releasing \cup {"idle"}
      BY <1>0, <2>1, ActiveCommand, KindsAt DEF Releasing, Answering
    <3> QED
      BY <2>1, <3>1 DEF PastConfig
  <2> QED
    BY <2>1, <2>2, KeptAsk, KeptExit, SameSubmits
<1> QED
  BY <1>1, <1>2, <1>3, <1>4, <1>5, <1>6 DEF Receive

\* A step that changes neither the config nor what c has read keeps the invariant.
LEMMA KeptReads ==
  ASSUME IInv, PolledInv, NEW c \in Command, Kept(c), Submits(c), UNCHANGED <<config, read>>
  PROVE  PolledInv'
<1>1. ASSUME NEW d \in Command PROVE ReadHolds(d)'
  <2>0. ReadHolds(d) /\ Kind(d)' = Kind(d) /\ (PolledThere(d) <=> PolledThere(d)')
        /\ (HasRead(d) <=> HasRead(d)')
    BY DEF PolledInv, Kind, Kept, PolledThere, HasRead
  <2>1. run'[d] # None /\ pc'[d] \in PastConfig[Kind(d)] => pc[d] \in PastConfig[Kind(d)]
    BY DEF Kept
  <2>2. ASSUME NEW r \in Submitted', r.by = d
        PROVE  /\ run[d] # None /\ Kind(d) # "init" /\ pc'[d] \in Releasing
               /\ r.server = read[d].server /\ r.app = read[d].app /\ PolledThere(d)
    <3>1. CASE r \in Submitted
      <4>1. pc[d] \in Releasing => pc'[d] \in Releasing
        BY DEF Kept
      <4> QED
        BY <2>0, <2>2, <3>1, <4>1 DEF ReadHolds
    <3>2. CASE r \notin Submitted
      <4>1. d = c /\ pc[d] \in Answering /\ r.server = read[d].server /\ r.app = read[d].app
        BY <2>2, <3>2 DEF Submits
      <4>2. pc[d] \in Releasing /\ pc'[d] \in Releasing
        BY <4>1 DEF Kept, Releasing
      <4>3. run[d] # None /\ Kind(d) \in Kinds /\ pc[d] \in PcOf[Kind(d)]
        BY <4>1, ActiveCommand DEF IInv, Local, Answering
      <4>4. Kind(d) # "init" /\ pc[d] \in PastConfig[Kind(d)]
        <5>1. \/ pc[d] = "mark" /\ Kind(d) = "publish"
              \/ pc[d] = "rollback" /\ Kind(d) = "rollback"
              \/ pc[d] = "republish" /\ Kind(d) = "republish"
          BY <4>1, <4>3, KindsAt DEF Answering
        <5> QED
          BY <5>1 DEF PastConfig, AfterClean, AfterHash, AfterRemove
      <4> QED
        BY <2>0, <4>1, <4>2, <4>3, <4>4 DEF ReadHolds
    <3> QED
      BY <3>1, <3>2
  <2> QED
    BY <2>0, <2>1, <2>2 DEF ReadHolds, Kept
<1> QED
  BY <1>1 DEF PolledInv, NamesAnApp

\* Nor does one that changes the config to a good one, or what init has read.
LEMMA KeptOthers ==
  ASSUME IInv, PolledInv, NEW c \in Command, Kept(c), UNCHANGED branchVars,
         \A d \in Command \ {c} : read'[d] = read[d],
         DOMAIN config' = {"form", "url", "header"}, NamesAnApp(config'.url),
         ReadHolds(c)'
  PROVE  PolledInv'
<1>1. ASSUME NEW d \in Command, d # c PROVE ReadHolds(d)'
  <2>1. /\ ReadHolds(d) /\ read'[d] = read[d] /\ pc'[d] = pc[d] /\ run'[d] = run[d]
    BY <1>1 DEF PolledInv, Kept
  <2> QED
    BY <2>1, SameSubmitted DEF ReadHolds, HasRead, PolledThere, Kind, NamesAnApp
<1> QED
  BY <1>1 DEF PolledInv, NamesAnApp

\* expoConfig.ts: an application id in the path goes before the header.
LEMMA AppOfThePath ==
  ASSUME NEW cfg, NamesAnApp(cfg.url), ServerUrl(cfg) # None,
         NEW r, r.server = ServerUrl(cfg), r.app = ExpoAppId(cfg), r.url = cfg.url
  PROVE  LET last == Len(r.url.path)
         IN /\ r.url.origin = r.server
            /\ last >= 2 /\ r.url.path[last] = "manifest" => r.url.path[last - 1] = r.app
<1>1. cfg.url # None /\ cfg.url.origin # None /\ r.url.origin = r.server
  BY DEF ServerUrl
<1>2. ASSUME Len(cfg.url.path) >= 2, cfg.url.path[Len(cfg.url.path)] = "manifest"
      PROVE  cfg.url.path[Len(cfg.url.path) - 1] = r.app
  BY <1>1, <1>2 DEF NamesAnApp, ExpoAppId, AppIdFromUpdateUrl
<1> QED
  BY <1>1, <1>2

LEMMA ReadConfigReads ==
  ASSUME IInv, PolledInv, NEW c \in Command, ReadConfig(c)
  PROVE  PolledInv'
<1>1. /\ pc[c] = "config" /\ UNCHANGED <<run, project, branchVars>>
      /\ read' = [read EXCEPT ![c] = [server |-> ServerUrl(config), app |-> ExpoAppId(config),
                                     url |-> config.url]]
  BY DEF ReadConfig
<1>2. /\ DOMAIN pc = Command /\ DOMAIN read = Command
      /\ run[c] # None /\ Kind(c) \in Kinds
      /\ DOMAIN config = {"form", "url", "header"} /\ NamesAnApp(config.url)
  BY <1>1, ActiveCommand DEF IInv, FunctionsHold, Local, PolledInv
<1>3. config' = config \/ config' = [config EXCEPT !.form = "static"]
  BY DEF ReadConfig
<1>4. DOMAIN config' = {"form", "url", "header"} /\ config'.url = config.url
  BY <1>2, <1>3
<1>5. read'[c] = [server |-> ServerUrl(config), app |-> ExpoAppId(config), url |-> config.url]
      /\ \A d \in Command \ {c} : read'[d] = read[d]
  BY <1>1, <1>2
<1>6. /\ \A d \in Command \ {c} : pc'[d] = pc[d]
      /\ \/ pc'[c] = "done"
         \/ Kind(c) = "init"
         \/ ServerUrl(config) # None
  BY <1>1, <1>2 DEF ReadConfig, Proceed, Exit, Goto
<1>7. HasRead(c)'
  BY <1>2, <1>5 DEF HasRead, NamesAnApp
<1>8. ASSUME ServerUrl(config) # None
      PROVE  PolledThere(c)'
  BY <1>2, <1>5, <1>8, AppOfThePath DEF PolledThere
<1>9. "done" \notin PastConfig[Kind(c)] /\ pc[c] \notin Releasing /\ Kind(c)' = Kind(c)
  BY <1>1, <1>2, OutsidePast DEF Releasing, Answering, Kind
<1>10. ~\E r \in Submitted : r.by = c
  BY <1>9 DEF PolledInv, ReadHolds
<1>11. ReadHolds(c)'
  BY <1>1, <1>6, <1>7, <1>8, <1>9, <1>10, SameSubmitted DEF ReadHolds
<1>12. ASSUME NEW d \in Command, d # c PROVE ReadHolds(d)'
  <2>1. /\ ReadHolds(d) /\ read'[d] = read[d] /\ pc'[d] = pc[d] /\ run'[d] = run[d]
    BY <1>1, <1>5, <1>6, <1>12 DEF PolledInv
  <2> QED
    BY <1>1, <2>1, SameSubmitted DEF ReadHolds, HasRead, PolledThere, Kind, NamesAnApp
<1> QED
  BY <1>2, <1>4, <1>11, <1>12 DEF PolledInv, NamesAnApp

LEMMA WriteConfigReads ==
  ASSUME IInv, PolledInv, NEW c \in Command, WriteConfig(c)
  PROVE  PolledInv'
<1>1. /\ pc[c] = "write" /\ UNCHANGED <<run, read, project, branchVars>> /\ Exit(c, 0)
      /\ \/ UNCHANGED config
         \/ config' = [form |-> FormAfterInit(config.form), url |-> Endpoint(c),
                       header |-> "entered"]
  BY DEF WriteConfig, commandVars
<1>2. Kept(c) /\ pc'[c] = "done"
  BY <1>1, KeptExit DEF Exit, Goto, IInv, FunctionsHold
<1>3. run[c] # None /\ Kind(c) \in Kinds /\ Kind(c) = "init"
  BY <1>1, ActiveCommand, KindsAt DEF IInv, Local
<1>4. HasRead(c) /\ ~\E r \in Submitted : r.by = c
  <2>1. "write" \in PastConfig["init"]
    BY DEF PastConfig
  <2> QED
    BY <1>1, <1>3, <2>1 DEF PolledInv, ReadHolds
<1>5. NamesAnApp(Endpoint(c))
  <2>1. CASE read[c].server = None
    BY <1>4, <2>1 DEF Endpoint, HasRead
  <2>2. CASE read[c].server # None
    <3>1. Endpoint(c).path = <<"manifest">> /\ Len(<<"manifest">>) = 1
      BY <2>2 DEF Endpoint
    <3> QED
      BY <3>1 DEF NamesAnApp
  <2> QED
    BY <2>1, <2>2
<1>6. DOMAIN config' = {"form", "url", "header"} /\ NamesAnApp(config'.url)
  BY <1>1, <1>5 DEF PolledInv
<1>7. ReadHolds(c)'
  <2>1. "done" \notin PastConfig[Kind(c)] /\ Kind(c)' = Kind(c)
    BY <1>1, <1>3, OutsidePast DEF Kind
  <2> QED
    BY <1>1, <1>2, <1>4, <2>1, SameSubmitted DEF ReadHolds
<1> QED
  BY <1>1, <1>2, <1>6, <1>7, KeptOthers

LEMMA ReplyReads ==
  ASSUME IInv, PolledInv, NEW c \in Command, Reply(c)
  PROVE  PolledInv'
<1>1. Kept(c) /\ UNCHANGED <<config, project, branchVars>>
  BY ReplyKept
<1>2. CASE UNCHANGED read
  BY <1>1, <1>2, KeptReads, SameSubmits
<1>3. ASSUME Kind(c) = "init", pc[c] \in PastConfig[Kind(c)],
             NEW server, read' = [read EXCEPT ![c].server = server]
      PROVE  PolledInv'
  <2>1. DOMAIN read = Command /\ run[c] # None
    <3>1. pc[c] # "idle"
      BY <1>3 DEF PastConfig
    <3> QED
      BY <3>1, ActiveCommand DEF IInv, FunctionsHold, Local
  <2>2. HasRead(c) /\ ~\E r \in Submitted : r.by = c
    BY <1>3, <2>1 DEF PolledInv, ReadHolds
  <2>3. /\ read'[c] = [read[c] EXCEPT !.server = server]
        /\ \A d \in Command \ {c} : read'[d] = read[d]
    BY <1>3, <2>1
  <2>4. DOMAIN read'[c] = {"server", "app", "url"} /\ read'[c].url = read[c].url
    BY <2>2, <2>3 DEF HasRead
  <2>5. HasRead(c)'
    BY <2>2, <2>4 DEF HasRead, NamesAnApp
  <2>6. Kind(c)' = "init"
    BY <1>1, <1>3 DEF Kept, Kind
  <2>7. ReadHolds(c)'
    BY <1>1, <2>2, <2>5, <2>6, SameSubmitted DEF ReadHolds
  <2> QED
    BY <1>1, <2>3, <2>7, KeptOthers DEF PolledInv
<1> QED
  BY <1>2, <1>3, ReplyKept

LEMMA StartReads ==
  ASSUME IInv, PolledInv, NEW c \in Command, NEW i \in Invocation[c], Start(c, i)
  PROVE  PolledInv'
<1>1. /\ pc[c] = "idle" /\ run' = [run EXCEPT ![c] = i]
      /\ Return(c, Stages[i.kind].start) \/ Exit(c, 1)
      /\ UNCHANGED <<config, project, branchVars, read>>
  BY DEF Start, worldVars
<1>2. DOMAIN run = Command /\ DOMAIN pc = Command /\ i.kind \in Kinds
  BY CommandAssumption DEF IInv, FunctionsHold, Kinds
<1>3. ~\E r \in Submitted : r.by = c
  BY <1>1 DEF PolledInv, ReadHolds, Releasing, Answering
<1>4. pc'[c] \in {Stages[i.kind].start, "done"} /\ run'[c] = i
      /\ \A d \in Command \ {c} : pc'[d] = pc[d] /\ run'[d] = run[d]
  BY <1>1, <1>2 DEF Return, Exit, Goto
<1>5. Stages[i.kind].start \in {"expo", "repo", "where"}
  BY <1>2 DEF Kinds, Stages, PublishStages, RollbackStages, RepublishStages, InitStages,
              GenerateCertsStages
<1>6. ReadHolds(c)'
  <2>1. Kind(c)' = i.kind
    BY <1>4 DEF Kind
  <2>2. pc'[c] \notin PastConfig[i.kind]
    BY <1>2, <1>4, <1>5, OutsidePast
  <2> QED
    BY <1>1, <1>3, <2>1, <2>2, SameSubmitted DEF ReadHolds
<1>7. ASSUME NEW d \in Command, d # c PROVE ReadHolds(d)'
  <2>1. ReadHolds(d) /\ pc'[d] = pc[d] /\ run'[d] = run[d]
    BY <1>4, <1>7 DEF PolledInv
  <2> QED
    BY <1>1, <2>1, SameSubmitted DEF ReadHolds, HasRead, PolledThere, Kind, NamesAnApp
<1> QED
  BY <1>1, <1>6, <1>7 DEF PolledInv, NamesAnApp

LEMMA StepReads ==
  ASSUME IInv, PolledInv, NEW c \in Command, Step(c)
  PROVE  PolledInv'
<1>1. CASE ReadConfig(c)
  BY <1>1, ReadConfigReads
<1>2. CASE WriteConfig(c)
  BY <1>2, WriteConfigReads
<1>3. CASE ~ReadConfig(c) /\ ~WriteConfig(c)
  <2>1. Kept(c) /\ UNCHANGED <<read, project, branchVars>>
    BY <1>3, StepKept
  <2>2. UNCHANGED config
    BY <1>3
       DEF Step, CheckExpo, EnsureRepoIsClean, EnsureRepoExists, Commit, Confirm,
           GetCommitHash, ResolveRuntimeVersions, AskUrl, AskWhere, RemoveOutput,
           ExportProject, WriteExpoConfig, ComputeFiles, StageFails, SendRequests,
           AllAnswered, Report, worldVars
  <2> QED
    BY <2>1, <2>2, KeptReads, SameSubmits
<1> QED
  BY <1>1, <1>2, <1>3

LEMMA NextReads == ASSUME IInv, PolledInv, [Next]_vars PROVE PolledInv'
<1>1. CASE UNCHANGED vars \/ \E kind \in {"tracked", "untracked"} : Edit(kind)
  <2>1. UNCHANGED <<config, project, branchVars, run, read, pc>>
    BY <1>1 DEF vars, worldVars, commandVars, Edit
  <2> QED
    BY <2>1, SameSubmitted DEF PolledInv, ReadHolds, HasRead, PolledThere, Kind, NamesAnApp
<1>2. ASSUME NEW c \in Command, Interrupt(c) PROVE PolledInv'
  <2>1. UNCHANGED <<run, config, read>> /\ pc[c] # "idle" /\ Dies(c, 130)
    BY <1>2 DEF Interrupt, Running
  <2> QED
    BY <2>1, DiesKept, KeptReads
<1>3. ASSUME NEW c \in Command, NEW t, Receive(c, t) PROVE PolledInv'
  BY <1>3, ReceiveKept, KeptReads
<1>4. ASSUME NEW l \in late, ServeLate(l) PROVE PolledInv'
  <2>1. /\ UNCHANGED <<config, project, run, read, pc>> /\ late' \subseteq late
        /\ \E told \in {"deployed", "identical", "error"} : Serve(l.of, told)
    BY <1>4 DEF ServeLate, commandVars
  <2>2. Submitted' \subseteq Submitted \cup {l.of} /\ l.of \in Submitted
    BY <1>4, <2>1, ServeRead DEF Submitted, Coming
  <2> QED
    BY <2>1, <2>2 DEF PolledInv, ReadHolds, HasRead, PolledThere, Kind, NamesAnApp
<1> QED
  BY <1>1, <1>2, <1>3, <1>4, StartReads, StepReads, ReplyReads DEF Next

LEMMA InitReads == ASSUME Init PROVE PolledInv
<1>1. /\ config \in Config /\ Submitted = Seed /\ run = [c \in Command |-> None]
  BY DEF Init, Submitted, Coming
<1>2. DOMAIN config = {"form", "url", "header"} /\ NamesAnApp(config.url)
  BY <1>1, CommandAssumption DEF NamesAnApp
<1>3. \A c \in Command : ReadHolds(c)
  BY <1>1, CommandAssumption DEF ReadHolds
<1> QED
  BY <1>2, <1>3 DEF PolledInv

LEMMA AlwaysPolledInv == Spec => []PolledInv
BY InitReads, NextReads, AlwaysIInv, PTL DEF Spec

\* What a command releases is on the server and under the app that apps built with
\* the config it read poll (expoConfig.ts), also when eoas init, or another command
\* that finds no config, writes the config between the reading and the release.
THEOREM AppsPollForIt == Spec => []ReleasedWherePolled
<1>1. IInv /\ PolledInv => ReleasedWherePolled
  <2>1. IInv => released \subseteq Submitted
    BY DEF IInv, WorldHolds, BranchHolds, Submitted
  <2> QED
    BY <2>1 DEF PolledInv, ReadHolds, PolledThere, ReleasedWherePolled
<1> QED
  BY <1>1, AlwaysIInv, AlwaysPolledInv, PTL

================================================================================
