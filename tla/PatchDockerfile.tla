--------------------------- MODULE PatchDockerfile ---------------------------
(***************************************************************************)
(* From an ImagePatch spec to the Dockerfile kaniko builds, and to the     *)
(* hash under which the result is found again by later builds.             *)
(*                                                                         *)
(* A spec is a record with the fields of ImagePatchSpec; an optional field *)
(* that is absent is None, an absent list is << >>.  A Dockerfile is a     *)
(* sequence of instructions; a RUN carries the commands its shell line     *)
(* chains with &&.                                                         *)
(***************************************************************************)
EXTENDS SequencesExt

CONSTANT None

(* Lists are lists, and the map of ENV is finite.                          *)
WellTyped(spec) ==
    /\ spec.fromImages \in Seq(ToSet(spec.fromImages))
    /\ \A n \in DOMAIN spec.fromImages :
          spec.fromImages[n].copy \in Seq(ToSet(spec.fromImages[n].copy))
    /\ spec.shell \in Seq(ToSet(spec.shell))
    /\ IsFiniteSet(DOMAIN spec.env)

-----------------------------------------------------------------------------

HashWithoutUser(spec) ==      \* mutant: the user the image runs as is forgotten
    [base |-> spec.base, apt |-> spec.apt, pip |-> spec.pip,
     shell |-> spec.shell, fromImages |-> spec.fromImages, env |-> spec.env,
     user |-> spec.user, entrypoint |-> spec.entrypoint, cmd |-> spec.cmd]

(* The fields that enter the hash; SHA-256 is taken to be injective on     *)
(* them.  ENV is hashed in key order, that is as the function it is; the   *)
(* controller passes no base digest.  Target, secrets and build options    *)
(* are left out.                                                           *)
ComputeSpecHash(spec) ==
    [base |-> spec.base, apt |-> spec.apt, pip |-> spec.pip,
     shell |-> spec.shell, fromImages |-> spec.fromImages, env |-> spec.env,
     user |-> spec.user, runAsUser |-> spec.runAsUser,
     entrypoint |-> spec.entrypoint, cmd |-> spec.cmd]

-----------------------------------------------------------------------------
(* Instructions and commands.                                              *)

From(image, as)      == [op |-> "FROM", image |-> image, as |-> as]
Shell                == [op |-> "SHELL"]
User(name)           == [op |-> "USER", name |-> name]
Workdir(dir)         == [op |-> "WORKDIR", dir |-> dir]
Env(name, value)     == [op |-> "ENV", name |-> name, value |-> value]
Copy(from, src, dst) == [op |-> "COPY", from |-> from, src |-> src, dst |-> dst]
Run(commands)        == [op |-> "RUN", commands |-> commands]
Entrypoint(args)     == [op |-> "ENTRYPOINT", args |-> args]
Cmd(args)            == [op |-> "CMD", args |-> args]

(* What a part contributes when the spec asks for it, and << >> else.      *)
Given(condition, instructions) == IF condition THEN instructions ELSE << >>

-----------------------------------------------------------------------------
(* The parts of the Dockerfile.                                            *)

Stages(spec) ==
    [i \in DOMAIN spec.fromImages |->
        From(spec.fromImages[i].image, spec.fromImages[i].name)]

Base(spec) == <<From(spec.base, None), Shell, User("root")>>

ImageOSCheck == <<Run(<<[do |-> "check-os"]>>)>>

CopiesOf(source) ==
    [i \in DOMAIN source.copy |->
        Copy(source.name, source.copy[i].src,
             IF source.copy[i].dst = None THEN source.copy[i].src
                                          ELSE source.copy[i].dst)]

Copies(spec) == FlattenSeq([i \in DOMAIN spec.fromImages |->
                               CopiesOf(spec.fromImages[i])])

(* Go iterates over the map in an order of its own on every call.          *)
EnvOrders(spec) == SetToSeqs(DOMAIN spec.env)

EnvLines(spec, order) ==
    [i \in DOMAIN order |-> Env(order[i], spec.env[order[i]])]

AptMirror(spec) ==
    Given(spec.apt # None /\ spec.apt.mirror # None,
          <<Run(<<[do |-> "write-sources", mirror |-> spec.apt.mirror]>>)>>)

(* With a build mirror, a temporary source list lives as long as the RUN.  *)
AptInstall(spec, buildMirror) ==
    LET install == <<[do |-> "apt-install", packages |-> spec.apt.install]>>
        written == <<[do |-> "write-list", mirror |-> buildMirror]>>
        removed == <<[do |-> "remove-list"]>>
    IN  Given(spec.apt # None /\ spec.apt.install # << >>,
              <<Run(IF buildMirror = None THEN install
                                          ELSE written \o install \o removed)>>)

PipInstall(spec, pypiMirror) ==
    Given(spec.pip # None /\ spec.pip.install # << >>,
          <<Run(<<[do |-> "pip-install", packages |-> spec.pip.install,
                   index |-> pypiMirror]>>)>>)

CreateUser(spec) ==
    LET u == spec.user
    IN  Given(u # None /\ u.name # None,
              Given(u.gid > 0, <<Run(<<[do |-> "groupadd", name |-> u.name,
                                        gid |-> u.gid]>>)>>)
              \o <<Run(<<[do |-> "useradd", name |-> u.name, uid |-> u.uid,
                          gid |-> IF u.uid > 0 THEN u.gid ELSE 0]>>)>>
              \o Given(u.sudo, <<Run(<<[do |-> "sudoers", name |-> u.name]>>)>>)
              \o <<User(u.name)>>)

StepLines(step) ==
    Given(step.workdir # None, <<Workdir(step.workdir)>>)
    \o Given(step.user # None, <<User(step.user)>>)
    \o <<Run(<<[do |-> "step", run |-> step.run]>>)>>

ShellSteps(spec) ==
    FlattenSeq([i \in DOMAIN spec.shell |-> StepLines(spec.shell[i])])

RunAsUnchecked(spec) ==       \* mutant: switches without looking for the user
    Given(spec.runAsUser # None, <<User(spec.runAsUser)>>)

RunAsUser(spec) ==
    Given(spec.runAsUser # None,
          <<Run(<<[do |-> "getent", name |-> spec.runAsUser]>>),
            User(spec.runAsUser)>>)

Start(spec) ==
    Given(spec.entrypoint # << >>, <<Entrypoint(spec.entrypoint)>>)
    \o Given(spec.cmd # << >>, <<Cmd(spec.cmd)>>)

StagesLate(spec, order, buildMirror, pypiMirror) ==     \* mutant: after the base
    Base(spec) \o Stages(spec) \o ImageOSCheck \o Copies(spec)
    \o EnvLines(spec, order) \o AptMirror(spec) \o AptInstall(spec, buildMirror)
    \o PipInstall(spec, pypiMirror) \o CreateUser(spec) \o ShellSteps(spec)
    \o RunAsUser(spec) \o Start(spec)

UserEarly(spec, order, buildMirror, pypiMirror) ==      \* mutant: before apt
    Stages(spec) \o Base(spec) \o ImageOSCheck \o Copies(spec)
    \o EnvLines(spec, order) \o CreateUser(spec) \o AptMirror(spec)
    \o AptInstall(spec, buildMirror) \o PipInstall(spec, pypiMirror)
    \o ShellSteps(spec) \o RunAsUser(spec) \o Start(spec)

CheckLate(spec, order, buildMirror, pypiMirror) ==      \* mutant: after the sources
    Stages(spec) \o Base(spec) \o AptMirror(spec) \o ImageOSCheck
    \o Copies(spec) \o EnvLines(spec, order) \o AptInstall(spec, buildMirror)
    \o PipInstall(spec, pypiMirror) \o CreateUser(spec) \o ShellSteps(spec)
    \o RunAsUser(spec) \o Start(spec)

GenerateDockerfile(spec, order, buildMirror, pypiMirror) ==
    Stages(spec) \o Base(spec) \o ImageOSCheck \o Copies(spec)
    \o EnvLines(spec, order) \o AptMirror(spec) \o AptInstall(spec, buildMirror)
    \o PipInstall(spec, pypiMirror) \o CreateUser(spec) \o ShellSteps(spec)
    \o RunAsUser(spec) \o Start(spec)
=============================================================================
