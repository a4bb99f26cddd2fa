------------------------------ MODULE EoasProject ------------------------------
(***************************************************************************)
(* What the eoas commands work out from the files, flags and environment   *)
(* of an Expo project: functions without a state, used by EoasCommand.     *)
(*                                                                         *)
(* A platform, a package runner, a file or a version is a value that is    *)
(* only ever compared; a URL is its origin and the segments of its path,   *)
(* and one that does not parse has origin None.                            *)
(***************************************************************************)
EXTENDS Naturals, Sequences

CONSTANTS Platform, None

\* The platforms a --platform flag asks for.
Requested(flag) == IF flag = "all" THEN Platform ELSE {flag}

----------------------------------------------------------------------------
(* lib/packageRunner.ts *)

PackageManagerRunners ==
  [bun |-> "bunx", pnpm |-> "pnpx", yarn |-> "npx", npm |-> "npx"]

\* managers lists the packageManager fields of the package.json files from the
\* project's directory upwards, None for a file without one.  The first field
\* there is decides, also when its manager is not a known one.
DetectRunner(managers) ==
  LET named == {i \in 1..Len(managers) : managers[i] # None}
      first == CHOOSE i \in named : \A j \in named : i <= j
  IN IF named # {} /\ managers[first] \in DOMAIN PackageManagerRunners
     THEN PackageManagerRunners[managers[first]]
     ELSE None

ResolvePackageRunner(flag, env, managers) ==
  CASE flag # None -> flag
    [] flag = None /\ env # None -> env
    [] flag = None /\ env = None /\ DetectRunner(managers) # None -> DetectRunner(managers)
    [] OTHER -> "npx"

----------------------------------------------------------------------------
(* lib/expoConfig.ts: the server and the application of updates.url *)

AppIdFromUpdateUrl(url) ==
  IF /\ url # None
     /\ url.origin # None
     /\ Len(url.path) >= 2
     /\ url.path[Len(url.path)] = "manifest"
  THEN url.path[Len(url.path) - 1]
  ELSE None

\* The application id in the path of updates.url goes before the expo-app-id
\* header, which may hold an old value.
ExpoAppId(config) ==
  IF AppIdFromUpdateUrl(config.url) # None
  THEN AppIdFromUpdateUrl(config.url)
  ELSE config.header

ServerUrl(config) == IF config.url = None THEN None ELSE config.url.origin

\* The config a command reads: `expo config` run by the package runner, or the
\* evaluation built into eoas when there is no such runner.  Both must have the
\* name and the slug of the minimal schema.
ConfigIsValid(project) == project.named

\* What `eoas init` makes of the config file: it writes an app.config.js over a
\* static app.json, and replaces properties of the object that an existing
\* app.config.js returns from a block.
RewritesConfig(form) == form \in {"static", "block"}
FormAfterInit(form) == IF form = "static" THEN "expression" ELSE form

----------------------------------------------------------------------------
(* lib/vcs/local.ts, lib/workflow.ts, lib/runtimeVersion.ts *)

\* EAS_NO_VCS selects the client without version control.
VcsClient(line) == IF line.noVcs THEN "none" ELSE "git"

\* The files that git check-ignore and the client without version control, which
\* prefers .easignore and always ignores node_modules, call ignored.
IgnoredByGit(project) == project.gitignore
IgnoredByEas(project) ==
  {"node_modules"} \cup
  (IF project.easignore # None THEN project.easignore ELSE project.gitignore)

Ignored(vcs, project) ==
  IF vcs = "git" THEN IgnoredByGit(project) ELSE IgnoredByEas(project)

\* A native project that is there and not ignored makes the workflow generic.
Workflow(vcs, project, p) ==
  IF project.native[p] \subseteq Ignored(vcs, project) THEN "managed" ELSE "generic"

\* From version 0.25.4 on, expo-updates has a CLI that knows the runtime version.
HasModernCLI(project) == project.cli # "legacy"

\* Its program is looked for in the project.
FindsCLI(project) == project.cli # "missing"

\* The CLI is told the workflow; without its program there is no version.
RuntimeVersionUsingCLI(vcs, project, p) ==
  IF FindsCLI(project) THEN project.runtime[p][Workflow(vcs, project, p)] ELSE None

\* Else eoas works the version out itself, which does not look at the workflow.
RuntimeVersion(vcs, project, p) ==
  IF HasModernCLI(project)
  THEN RuntimeVersionUsingCLI(vcs, project, p)
  ELSE project.runtime[p]["managed"]

----------------------------------------------------------------------------
(* lib/assets.ts *)

\* The files named in the metadata.json of an export: the expoConfig.json, which
\* the command adds, and what was exported of the platforms asked for.
FilesRequests(metadata, flag) ==
  {"expoConfig"} \cup (IF metadata.for \cap Requested(flag) # {} THEN {"bundle"} ELSE {})

================================================================================
