-------------------------- MODULE PluginStore_proofs --------------------------
(***************************************************************************)
(* For a source that names no version, any number of published versions of *)
(* the source and of its runtime package, failures and interruptions never *)
(* lead to a connector that starts on a source other than the one whose    *)
(* checksum is on record, or on a runtime of another version that was      *)
(* installed by version.                                                   *)
(*                                                                         *)
(* The chain behind it: recorded <= every package (RecordedNotAhead) and   *)
(* every package <= the source's latest (RegistryIsLatest), so when        *)
(* verification finds recorded = latest they lie between equals. Each step *)
(* of a command keeps the chain because npm is asked for the checksum      *)
(* first and for the packages later (StoreProgress), and because the       *)
(* runtime is given the source's version. A runtime installed by its bare  *)
(* name is outside the chain.                                              *)
(***************************************************************************)
EXTENDS PluginStore, TLAPS

\* The initial state satisfies the inductive invariant.
LEMMA InitInvariant == Init => IInv
<1> SUFFICES ASSUME Init PROVE IInv
  OBVIOUS
<1> USE StoreAssumption DEF Init, None, NoPackages, Packages, Versions, MaybeVersion, Latest
<1>1. NoPackages \in [Packages -> MaybeVersion] /\ None \in MaybeVersion
  OBVIOUS
<1>2. [checksum |-> None, packages |-> NoPackages, bare |-> {}]
        \in StartedStates
  BY <1>1 DEF StartedStates
<1>3. TypeOK
  <2>1. published \in [Packages -> MaybeVersion] /\ Latest \in Versions
    OBVIOUS
  <2>2. started \in StartedStates
    BY <1>2
  <2> QED
    BY <1>1, <2>1, <2>2 DEF TypeOK, Steps, Outcomes
<1> QED
  BY <1>3 DEF IInv, RecordedNotAhead, RegistryIsLatest, StoreProgress, InstallProgress,
              VerifyProgress, ConnectRunsVerified, AtLeast, Covered, Storing, Loadable

USE DEF None, Packages, MaybeVersion, Versions, Latest

\* What npm leaves, whether it succeeds or not.
LEMMA PutType ==
  ASSUME TypeOK, NEW p \in Packages, Put(p)
  PROVE  packages' \in [Packages -> MaybeVersion] /\ bare' \subseteq Packages
<1>1. ExactSpec(p) \in MaybeVersion
  BY StoreAssumption DEF TypeOK, ExactSpec, Wanted
<1>2. packages' = [packages EXCEPT ![p] = ExactSpec(p)] /\ bare' \subseteq bare \cup {p}
  BY DEF Put
<1> QED
  BY <1>1, <1>2 DEF TypeOK

LEMMA LeavesType ==
  ASSUME TypeOK, NEW p \in Packages, Leaves(p)
  PROVE  packages' \in [Packages -> MaybeVersion] /\ bare' \subseteq Packages
<1>1. CASE UNCHANGED modules
  BY <1>1 DEF TypeOK, modules
<1>2. CASE packages' = [packages EXCEPT ![p] = None] /\ UNCHANGED bare
  BY <1>2, StoreAssumption DEF TypeOK
<1> QED
  BY <1>1, <1>2, PutType DEF Leaves

\* Every step keeps the types.
LEMMA TypeStep == TypeOK /\ StoreProgress /\ InstallProgress /\ [Next]_vars => TypeOK'
<1> SUFFICES ASSUME TypeOK, StoreProgress, InstallProgress, [Next]_vars PROVE TypeOK'
  OBVIOUS
<1> USE StoreAssumption
        DEF TypeOK, files, modules, locals, Begin, Proceed, End, Refuse, Steps, Outcomes, NoPackages
<1>1. CASE UNCHANGED vars
  BY <1>1 DEF vars
<1>2. CASE \E p \in Packages : Publish(p)
  BY <1>2 DEF Publish
<1>3. CASE Install
  <2>1. CASE InstallExists \/ BeginInstall
    <3>1. CASE InstallExists
      BY <3>1 DEF InstallExists
    <3>2. CASE BeginInstall
      BY <3>2 DEF BeginInstall
    <3> QED
      BY <2>1, <3>1, <3>2
  <2>2. CASE InstallChecksum
    BY <2>2 DEF InstallChecksum
  <2>3. CASE CreateDir \/ WriteManifest
    BY <2>3 DEF CreateDir, WriteManifest, InstallProgress
  <2> QED
    BY <1>3, <2>1, <2>2, <2>3 DEF Install
<1>4. CASE Update
  <2>1. CASE BeginUpdate
    BY <2>1 DEF BeginUpdate
  <2>2. CASE CompareChecksum
    BY <2>2 DEF CompareChecksum
  <2> QED
    BY <1>4, <2>1, <2>2 DEF Update
<1>5. CASE StoreInstall
  <2>1. CASE Resolve
    BY <2>1 DEF Resolve, Wanted, StoreFails
  <2>2. CASE Record
    BY <2>2 DEF Record, StoreProgress, Storing, Loadable
  <2>3. CASE \E p \in Packages : InstallPackage(p)
    BY <2>3 DEF InstallPackage, Put, ExactSpec, Wanted, After, StoreProgress, Storing, Loadable
  <2>4. CASE \E p \in Packages : InstallFails(p)
    <3>1. PICK p \in Packages : InstallFails(p)
      BY <2>4
    <3>2. packages' \in [Packages -> MaybeVersion] /\ bare' \subseteq Packages
      BY <3>1, LeavesType DEF InstallFails
    <3> QED
      BY <3>1, <3>2 DEF InstallFails, StoreFails, StoreProgress, Storing, Loadable
  <2> QED
    BY <1>5, <2>1, <2>2, <2>3, <2>4 DEF StoreInstall
<1>6. CASE Connect
  <2>1. [checksum |-> recorded, packages |-> packages, bare |-> bare] \in StartedStates
    BY DEF StartedStates
  <2> QED
    BY <1>6, <2>1 DEF Connect, BeginConnect, Verify, Start
<1>7. CASE CannotLoad
  BY <1>7 DEF CannotLoad
<1>8. CASE Abort
  <2>1. packages' \in [Packages -> MaybeVersion] /\ bare' \subseteq Packages
    <3>1. CASE UNCHANGED modules
      BY <3>1
    <3>2. CASE at \in Packages /\ Leaves(at)
      BY <3>2, LeavesType
    <3> QED
      BY <1>8, <3>1, <3>2 DEF Abort
  <2>2. dir' = dir /\ (~dir => manifest' = "none" /\ packages' = NoPackages)
    BY <1>8 DEF Abort, Leaves, StoreProgress, InstallProgress, Storing, Loadable
  <2> QED
    BY <1>8, <2>1, <2>2 DEF Abort
<1> QED
  BY <1>1, <1>2, <1>3, <1>4, <1>5, <1>6, <1>7, <1>8 DEF Next

\* Every step keeps the chain, if the source names no version.
LEMMA ChainStep ==
  ASSUME Pin = None, IInv, TypeOK', [Next]_vars
  PROVE  /\ RecordedNotAhead' /\ RegistryIsLatest' /\ StoreProgress' /\ InstallProgress'
         /\ VerifyProgress' /\ ConnectRunsVerified'
<1> USE StoreAssumption
        DEF IInv, TypeOK, files, modules, locals, Begin, Proceed, End, Refuse, NoPackages,
            RecordedNotAhead, RegistryIsLatest, StoreProgress, InstallProgress,
            VerifyProgress, ConnectRunsVerified, AtLeast, Covered, Storing, Loadable
<1>1. CASE UNCHANGED vars
  BY <1>1 DEF vars
<1>2. CASE \E p \in Packages : Publish(p)
  BY <1>2 DEF Publish
<1>3. CASE Install
  <2>1. CASE InstallExists
    BY <2>1 DEF InstallExists
  <2>2. CASE BeginInstall
    BY <2>2 DEF BeginInstall
  <2>3. CASE InstallChecksum
    BY <2>3 DEF InstallChecksum
  <2>4. CASE CreateDir
    BY <2>4 DEF CreateDir
  <2>5. CASE WriteManifest
    BY <2>5 DEF WriteManifest
  <2> QED
    BY <1>3, <2>1, <2>2, <2>3, <2>4, <2>5 DEF Install
<1>4. CASE Update
  <2>1. CASE BeginUpdate
    BY <2>1 DEF BeginUpdate
  <2>2. CASE CompareChecksum
    BY <2>2 DEF CompareChecksum
  <2> QED
    BY <1>4, <2>1, <2>2 DEF Update
<1>5. CASE StoreInstall
  <2>1. CASE Resolve
    BY <2>1 DEF Resolve, Wanted, StoreFails
  <2>2. CASE Record
    BY <2>2 DEF Record
  <2>3. ASSUME NEW p \in Packages, InstallPackage(p)
        PROVE  /\ RecordedNotAhead' /\ RegistryIsLatest' /\ StoreProgress' /\ InstallProgress'
               /\ VerifyProgress' /\ ConnectRunsVerified'
    BY <2>3 DEF InstallPackage, Put, ExactSpec, Wanted, After
  <2>4. ASSUME NEW p \in Packages, InstallFails(p)
        PROVE  /\ RecordedNotAhead' /\ RegistryIsLatest' /\ StoreProgress' /\ InstallProgress'
               /\ VerifyProgress' /\ ConnectRunsVerified'
    BY <2>4 DEF InstallFails, Leaves, Put, ExactSpec, Wanted, StoreFails
  <2> QED
    BY <1>5, <2>1, <2>2, <2>3, <2>4 DEF StoreInstall
<1>6. CASE Connect
  <2>1. CASE BeginConnect
    BY <2>1 DEF BeginConnect
  <2>2. CASE Verify
    BY <2>2 DEF Verify
  <2>3. CASE Start
    BY <2>3 DEF Start
  <2> QED
    BY <1>6, <2>1, <2>2, <2>3 DEF Connect
<1>7. CASE CannotLoad
  BY <1>7 DEF CannotLoad
<1>8. CASE Abort
  BY <1>8 DEF Abort, Leaves, Put, ExactSpec, Wanted
<1> QED
  BY <1>1, <1>2, <1>3, <1>4, <1>5, <1>6, <1>7, <1>8 DEF Next

\* Every behaviour of the store keeps the inductive invariant, if the source
\* names no version.
THEOREM InductiveInvariant ==
  ASSUME Pin = None
  PROVE  Spec => []IInv
<1>1. IInv /\ [Next]_vars => IInv'
  <2> SUFFICES ASSUME IInv, [Next]_vars PROVE IInv'
    OBVIOUS
  <2>1. TypeOK'
    BY TypeStep DEF IInv
  <2> QED
    BY <2>1, ChainStep DEF IInv
<1> QED
  BY InitInvariant, <1>1, PTL DEF Spec

\* Every variable keeps its type, and no file is in a directory that is not
\* there.
THEOREM TypeCorrect ==
  ASSUME Pin = None
  PROVE  Spec => []TypeOK
<1>1. IInv => TypeOK
  BY DEF IInv
<1> QED
  BY <1>1, InductiveInvariant, PTL

\* A connector that starts with a checksum on record runs the source of that version,
\* and the runtime package too unless that was installed by its bare name, although
\* the code never compares them.
THEOREM VerifiedIsInstalled ==
  ASSUME Pin = None
  PROVE  Spec => []ConnectRunsVerified
<1>1. IInv => ConnectRunsVerified
  BY DEF IInv
<1> QED
  BY <1>1, InductiveInvariant, PTL

\* A source and a runtime of two versions, if both were installed by version, are
\* never taken for up to date, and not started if there is a checksum to verify.
THEOREM HalfUpdatesStaySeen ==
  ASSUME Pin = None
  PROVE  Spec => []HalfUpdatesAreSeen
<1>1. IInv => HalfUpdatesAreSeen
  BY StoreAssumption
     DEF IInv, TypeOK, HalfUpdatesAreSeen, RecordedNotAhead, RegistryIsLatest, AtLeast, Covered
<1> QED
  BY <1>1, InductiveInvariant, PTL
=============================================================================
