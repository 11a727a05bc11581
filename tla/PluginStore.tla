----------------------------- MODULE PluginStore -----------------------------
(***************************************************************************)
(* The directory of one plugin: its manifest and its npm packages, as      *)
(* `c2c install` (cmd/install.go), `c2c update` (cmd/update.go) and the    *)
(* checks at the start of runDaemon (cmd/daemon.go) read and write them,   *)
(* through internal/store and internal/nodeutil.                           *)
(*                                                                         *)
(* A source whose name ends in -cli stands for two npm packages, the       *)
(* source itself and its runtime, each with versions of its own; the hash  *)
(* on record is that of the source.                                        *)
(*                                                                         *)
(* One shell runs one command after another.  Every question to npm may    *)
(* fail, new versions of either package appear on the registry between any *)
(* two of them, and a command may be interrupted anywhere.                 *)
(***************************************************************************)
EXTENDS Naturals

CONSTANTS
  MaxVersion,  \* bound on the versions published of each package; a hash is the
               \* version's
  Pin,         \* the version the source names, None if it names none
  HasRuntime   \* the source ends in -cli: there is a runtime package too

None == 0  \* no version, an empty checksum

ASSUME StoreAssumption ==
  MaxVersion \in Nat \ {0} /\ Pin \in 0..MaxVersion /\ HasRuntime \in BOOLEAN

VARIABLES
  published,  \* the latest version of each package on the registry, None if there is none
  dir,        \* the plugin directory exists
  manifest,   \* manifest.yaml: "none", "torn" (os.WriteFile truncates before it
              \* writes) or "whole"
  recorded,   \* the checksum in it; what else it holds is never read
  packages,   \* the version of each package in node_modules
  bare,       \* those installed by their name alone, npm having resolved no version
  cmd,        \* the command that runs
  at,         \* where it is
  checksum, resolved,  \* what it was told by npm
  outcome,    \* how the last command ended
  started     \* what the last connector started was verified and runs as

modules == <<packages, bare>>
files == <<dir, manifest, recorded, modules>>
locals == <<checksum, resolved>>
vars == <<published, files, cmd, at, locals, outcome, started>>

Packages == {"source", "runtime"}
Versions == 1..MaxVersion
MaybeVersion == 0..MaxVersion

Latest == published["source"]  \* whose hash GetNpmChecksum answers

NoPackages == [p \in Packages |-> None]
IsInstalled == \E p \in Packages : packages[p] # None

Init ==
  /\ published \in [Packages -> MaybeVersion] /\ published["source"] # None
  /\ dir = FALSE /\ manifest = "none" /\ recorded = None
  /\ packages = NoPackages /\ bare = {}
  /\ cmd = "none" /\ at = "idle"
  /\ checksum = None /\ resolved = None
  /\ outcome = "none"
  /\ started = [checksum |-> None, packages |-> NoPackages, bare |-> {}]

\* npm
Publish(p) ==
  /\ published[p] < MaxVersion
  /\ published' = [published EXCEPT ![p] = @ + 1]
  /\ UNCHANGED <<files, cmd, at, locals, outcome, started>>

-----------------------------------------------------------------------------
Begin(c, where) == at = "idle" /\ cmd' = c /\ at' = where
Proceed(from, to) == at = from /\ at' = to /\ UNCHANGED <<cmd, outcome>>
End(how) == cmd' = "none" /\ at' = "idle" /\ outcome' = how

Refuse(how) ==
  /\ at = "idle" /\ End(how)
  /\ UNCHANGED <<published, files, locals, started>>

-----------------------------------------------------------------------------
(* installPlugin, up to the local install                                  *)

InstallExists == dir /\ Refuse("exists")

BeginInstall ==
  /\ ~dir /\ Begin("install", "checksum")
  /\ checksum' = None /\ resolved' = None
  /\ UNCHANGED <<published, files, outcome, started>>

\* GetNpmChecksum strips the version: it is the source's latest one's. Without an
\* answer the install goes on only with --skip-verify.
InstallChecksum ==
  /\ cmd = "install"
  /\ \/ checksum' = Latest /\ Proceed("checksum", "mkdir")
     \/ checksum' = None /\ Proceed("checksum", "mkdir")
     \/ at = "checksum" /\ UNCHANGED checksum /\ End("failed")
  /\ UNCHANGED <<published, files, resolved, started>>

\* WRONG: the directory is left for the first write to make.
SkipDir ==
  /\ Proceed("mkdir", "manifest")
  /\ UNCHANGED <<published, files, locals, started>>

CreateDir ==
  /\ Proceed("mkdir", "manifest")
  /\ dir' = TRUE
  /\ UNCHANGED <<published, manifest, recorded, modules, locals, started>>

WriteManifest ==
  /\ Proceed("manifest", "resolve")
  /\ manifest' = "whole" /\ recorded' = checksum
  /\ UNCHANGED <<published, dir, modules, locals, started>>

-----------------------------------------------------------------------------
(* updateSinglePlugin, up to the local install                             *)

Loadable == manifest = "whole"

CannotLoad == ~Loadable /\ Refuse("failed")

BeginUpdate ==
  /\ Loadable /\ Begin("update", "compare")
  /\ UNCHANGED <<published, files, locals, outcome, started>>

\* WRONG: the new checksum is recorded before the packages are there.
CompareAndRecord ==
  /\ at = "compare" /\ Latest # recorded
  /\ checksum' = Latest /\ resolved' = None
  /\ recorded' = Latest
  /\ Proceed("compare", "resolve")
  /\ UNCHANGED <<published, dir, manifest, modules, started>>

\* The last alternative is --check, or no answer from npm.
CompareChecksum ==
  /\ at = "compare"
  /\ \/ /\ Latest = recorded
        /\ End("upToDate") /\ UNCHANGED locals
     \/ /\ Latest # recorded
        /\ checksum' = Latest /\ resolved' = None
        /\ Proceed("compare", "resolve")
     \/ End("failed") /\ UNCHANGED locals
  /\ UNCHANGED <<published, files, started>>

-----------------------------------------------------------------------------
(* Store.Install, for both                                                 *)

\* install prints a warning and succeeds, update returns the error.
StoreFails == End(IF cmd = "install" THEN "warned" ELSE "failed")

\* What `npm install` takes for the source as it stands.
Wanted == IF Pin = None THEN Latest ELSE Pin

\* npm view may answer nothing, which is no error.
Resolve ==
  /\ at = "resolve"
  /\ \/ resolved' \in {Wanted, None} /\ Proceed("resolve", "source")
     \/ StoreFails /\ UNCHANGED resolved
  /\ UNCHANGED <<published, files, checksum, started>>

\* The exact version resolved for the source, of the runtime package too; else
\* what the bare name stands for, and the runtime's carries no version.
ExactSpec(p) ==
  IF resolved # None THEN resolved ELSE IF p = "source" THEN Wanted ELSE published[p]

After(p) == IF p = "source" /\ HasRuntime THEN "runtime" ELSE "record"

\* npm installs only what has been published of that package.
Put(p) ==
  /\ ExactSpec(p) # None /\ ExactSpec(p) <= published[p]
  /\ packages' = [packages EXCEPT ![p] = ExactSpec(p)]
  /\ bare' = IF resolved = None THEN bare \cup {p} ELSE bare \ {p}

InstallPackage(p) ==
  /\ Proceed(p, After(p))
  /\ Put(p)
  /\ UNCHANGED <<published, dir, manifest, recorded, locals, started>>

\* A failing or interrupted npm leaves the old package, the new one or none.
Leaves(p) ==
  \/ UNCHANGED modules
  \/ Put(p)
  \/ packages' = [packages EXCEPT ![p] = None] /\ UNCHANGED bare

InstallFails(p) ==
  /\ at = p /\ StoreFails
  /\ Leaves(p)
  /\ UNCHANGED <<published, dir, manifest, recorded, locals, started>>

\* The integrity hash is asked for and recorded too, and never read. install
\* ignores a write that fails.
Record ==
  /\ at = "record"
  /\ \/ /\ End(IF cmd = "install" THEN "installed" ELSE "updated")
        /\ recorded' = checksum /\ UNCHANGED manifest
     \/ /\ cmd = "install" /\ End("installed")
        /\ manifest' \in {"whole", "torn"} /\ UNCHANGED recorded
  /\ UNCHANGED <<published, dir, modules, locals, started>>

-----------------------------------------------------------------------------
(* The checks of runDaemon                                                 *)

BeginConnect ==
  /\ Loadable /\ Begin("connect", "verify")
  /\ UNCHANGED <<published, files, locals, outcome, started>>

\* WRONG: a plugin older than the registry is good enough.
VerifyAtMost ==
  /\ Proceed("verify", "start") /\ recorded <= Latest
  /\ UNCHANGED <<published, files, locals, started>>

\* VerifyChecksum asks npm, and an empty checksum passes.
Verify ==
  /\ at = "verify"
  /\ \/ recorded \in {None, Latest} /\ Proceed("verify", "start")
     \/ recorded \notin {None, Latest} /\ End("mismatch")
     \/ recorded # None /\ End("failed")
  /\ UNCHANGED <<published, files, locals, started>>

Start ==
  /\ at = "start"
  /\ \/ /\ IsInstalled /\ End("started")
        /\ started' = [checksum |-> recorded, packages |-> packages, bare |-> bare]
     \/ ~IsInstalled /\ End("notInstalled") /\ UNCHANGED started
  /\ UNCHANGED <<published, files, locals>>

-----------------------------------------------------------------------------
\* The command is interrupted, perhaps while it writes the manifest or waits
\* for npm, or something it needs of the file system fails.
Abort ==
  /\ at # "idle" /\ End("aborted")
  /\ manifest' \in {manifest} \cup IF at \in {"manifest", "record"} THEN {"torn"} ELSE {}
  /\ UNCHANGED modules \/ (at \in Packages /\ Leaves(at))
  /\ UNCHANGED <<published, dir, recorded, locals, started>>

Install ==
  \/ InstallExists \/ BeginInstall \/ InstallChecksum \/ CreateDir \/ WriteManifest

Update == BeginUpdate \/ CompareChecksum

StoreInstall ==
  \/ Resolve \/ Record
  \/ \E p \in Packages : InstallPackage(p) \/ InstallFails(p)

Connect == BeginConnect \/ Verify \/ Start

Next ==
  \/ \E p \in Packages : Publish(p)
  \/ Install \/ Update \/ StoreInstall \/ Connect \/ CannotLoad \/ Abort

Spec == Init /\ [][Next]_vars

-----------------------------------------------------------------------------
Steps == {"idle", "checksum", "mkdir", "manifest", "compare", "resolve", "source", "runtime",
          "record", "verify", "start"}
Outcomes == {"none", "exists", "failed", "warned", "upToDate", "installed", "updated",
             "mismatch", "started", "notInstalled", "aborted"}

StartedStates == [checksum : MaybeVersion, packages : [Packages -> MaybeVersion],
                  bare : SUBSET Packages]

\* Types, and that no file is in a directory that is not there.
TypeOK ==
  /\ published \in [Packages -> MaybeVersion] /\ Latest \in Versions
  /\ dir \in BOOLEAN
  /\ manifest \in {"none", "torn", "whole"} /\ recorded \in MaybeVersion
  /\ packages \in [Packages -> MaybeVersion] /\ bare \subseteq Packages
  /\ cmd \in {"none", "install", "update", "connect"} /\ at \in Steps
  /\ checksum \in MaybeVersion /\ resolved \in MaybeVersion
  /\ outcome \in Outcomes
  /\ started \in StartedStates
  /\ ~dir => manifest = "none" /\ packages = NoPackages

\* VerifyChecksum compares the manifest with the registry and never looks at
\* the packages, and asks for the source only. All the same, with a source that
\* names no version, whatever failed or was interrupted before: a connector that
\* starts with a checksum on record runs the source's package of that version and
\* no other, and the runtime package of the same version, unless npm had named no
\* version when that was installed: then it is whatever was its latest.
ConnectRunsVerified ==
  started.checksum # None =>
    \A p \in Packages :
      started.packages[p] # None /\ (p = "source" \/ p \notin started.bare)
        => started.packages[p] = started.checksum

\* A plugin left with packages of two versions, by an update that failed half
\* way or a version published in between, is not taken for up to date: the next
\* update installs again, and until then no connect that has a checksum to verify
\* accepts it. (After install --skip-verify there may be none, and connect starts
\* what it finds.) A runtime package installed by its bare name is out of this:
\* nothing ever asks what version it is.
HalfUpdatesAreSeen ==
  at = "idle" /\ Loadable /\ packages["source"] # packages["runtime"]
    /\ packages["source"] # None /\ packages["runtime"] # None /\ "runtime" \notin bare
    => recorded # Latest

\* "local install failed (will retry on connect)": connect does not end for
\* want of packages that nothing tried to install.
InstallIsRetried == outcome # "notInstalled"

-----------------------------------------------------------------------------
(* Why the first two hold.                                                 *)

\* The packages whose version the hash on record says something of.
Covered(p) == packages[p] # None /\ (p = "source" \/ p \notin bare)
AtLeast(v, p) == Covered(p) => v <= packages[p]
Storing == at \in {"resolve", "source", "runtime", "record"}

\* The manifest never claims more than the packages are.
RecordedNotAhead == Loadable => \A p \in Packages : AtLeast(recorded, p)

\* Nothing is newer than the source on the registry; versions only go up.
RegistryIsLatest ==
  /\ checksum <= Latest /\ resolved <= Latest
  /\ \A p \in Packages : Covered(p) => packages[p] <= Latest
  /\ Loadable => recorded <= Latest

\* What a command has been told and what it has installed so far.
StoreProgress ==
  /\ Storing => /\ Loadable /\ recorded <= checksum
                /\ cmd \in {"install", "update"}
  /\ at \in {"source", "runtime", "record"} /\ resolved # None => checksum <= resolved
  /\ at \in {"runtime", "record"} => AtLeast(checksum, "source")
  /\ at = "record" => AtLeast(checksum, "runtime")
  /\ ~HasRuntime => at # "runtime" /\ packages["runtime"] = None

InstallProgress ==
  /\ cmd = "install" /\ ~Storing => packages = NoPackages /\ manifest = "none"
  /\ at \in {"checksum", "mkdir", "manifest"} => cmd = "install"
  /\ at = "manifest" => dir

VerifyProgress ==
  /\ at \in {"compare", "verify", "start"} => Loadable
  /\ at = "compare" => cmd = "update"
  /\ at = "start" /\ recorded # None => \A p \in Packages :
       Covered(p) => packages[p] = recorded

IInv ==
  /\ TypeOK /\ RecordedNotAhead /\ RegistryIsLatest /\ StoreProgress /\ InstallProgress
  /\ VerifyProgress /\ ConnectRunsVerified
=============================================================================
