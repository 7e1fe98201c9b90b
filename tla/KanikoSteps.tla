----------------------------- MODULE KanikoSteps -----------------------------
(***************************************************************************)
(* What kaniko makes of the instructions of a generated Dockerfile.        *)
(*                                                                         *)
(* kaniko is not in the repository: an instruction is modelled as far as   *)
(* the reconciler's comments and specs rely on its effect.  Packages of a  *)
(* given name are taken to be the same on every mirror.                    *)
(***************************************************************************)
EXTENDS KanikoJob, Integers

CONSTANTS
    BaseImages,   \* BaseImages[ref]: user, known users, whether a supported
                  \* Ubuntu, whether it has a shell, an index or not, platforms
    Registries    \* Registries[host]: reachable, accounts that may pull and push

BuildPlatform == "linux/amd64"

(* kaniko checks that it may push before it builds.                        *)
CheckPush == [op |-> "CHECK-PUSH"]
Push      == [op |-> "PUSH"]

NewStage(ref) ==
    [base |-> ref, user |-> BaseImages[ref].user, workdir |-> None,
     env |-> << >>, files |-> << >>, list |-> FALSE, sources |-> None,
     users |-> BaseImages[ref].users, groups |-> {}, sudoers |-> {},
     layers |-> << >>, entrypoint |-> << >>, cmd |-> << >>, failure |-> None]

Failed(i, why) == [i EXCEPT !.failure = why]

-----------------------------------------------------------------------------
(* Pulls and pushes.                                                       *)

May(config, host, ref, right) ==
    KanikoAccount(config, host, PathOf(ref)) \in Registries[host][right]

(* --registry-map: the mirrors of a registry, and then the registry.       *)
Sources(job, ref) ==
    {HostOf(ref)} \cup {m[2] : m \in {n \in job.registryMap : n[1] = HostOf(ref)}}

Pull(job, ref) ==
    CASE \A h \in Sources(job, ref) :
            ~(Registries[h].up /\ May(job.auth, h, ref, "pull")) ->
            Failed(NewStage(ref), IF Registries[HostOf(ref)].up THEN "PullDenied"
                                                                ELSE "Unreachable")
      [] \E h \in Sources(job, ref) :
            Registries[h].up /\ May(job.auth, h, ref, "pull") ->
            IF BaseImages[ref].index /\ BuildPlatform \notin BaseImages[ref].platforms
            THEN Failed(NewStage(ref), "NoPlatform") ELSE NewStage(ref)

Pushable(i, job) ==
    LET Refused(d) == ~May(job.auth, HostOf(d), d, "push")
        all == ToSet(job.destinations)
    IN  CASE \E d \in all : ~ValidTag(d)                  -> Failed(i, "InvalidTag")
          [] (\A d \in all : ValidTag(d)) /\ (\E d \in all : Refused(d)) ->
                Failed(i, "PushDenied")
          [] \A d \in all : ValidTag(d) /\ ~Refused(d)    -> i

(* A further destination is given a manifest only: its repository must     *)
(* have the blobs.                                                         *)
Pushed(i, job) ==
    IF \A d \in ToSet(job.destinations) : SameRepository(d, job.destinations[1])
    THEN i ELSE Failed(i, "BlobUnknown")

-----------------------------------------------------------------------------
(* What one command, and one instruction, does to the image.               *)

(* A command that changes the system: it needs root.                       *)
AsRoot(i, changed) ==
    IF i.user = "root" THEN changed ELSE Failed(i, "PermissionDenied")

Layer(i, did) == [i EXCEPT !.layers = Append(@, did)]

Supported(i) == BaseImages[i.base].ubuntu

(* fork/exec of /bin/sh fails without one, and on another architecture.    *)
HasShell(i) == BaseImages[i.base].shell /\ BuildPlatform \in BaseImages[i.base].platforms

(* useradd makes a group of the user's name unless it is told one (-g).    *)
UserAdded(i, c) ==
    CASE c.name \in i.users -> Failed(i, "UserExists")
      [] c.name \notin i.users /\ c.gid <= 0 /\ c.name \in i.groups ->
            Failed(i, "GroupExists")
      [] OTHER -> Layer([i EXCEPT !.users = @ \cup {c.name},
                                  !.groups = @ \cup {c.name}],
                        <<"useradd", c.name, c.uid, c.gid>>)

Effect(i, c) ==
    IF i.failure # None THEN i ELSE
    CASE c.do = "check-os" ->
            IF Supported(i) THEN i ELSE Failed(i, "ImageOSNotSupported")
      [] c.do = "write-sources" ->
            IF Supported(i) THEN AsRoot(i, [i EXCEPT !.sources = c.mirror])
                            ELSE Failed(i, "NoApt")
      [] c.do = "write-list"  -> [i EXCEPT !.list = TRUE]
      [] c.do = "remove-list" -> [i EXCEPT !.list = FALSE]
      [] c.do = "apt-install" ->
            IF Supported(i) THEN AsRoot(i, Layer(i, <<"apt", c.packages>>))
                            ELSE Failed(i, "NoApt")
      [] c.do = "pip-install" -> Layer(i, <<"pip", i.user, c.packages>>)
      [] c.do = "groupadd" -> AsRoot(i, [i EXCEPT !.groups = @ \cup {c.name}])
      [] c.do = "useradd"  -> AsRoot(i, UserAdded(i, c))
      [] c.do = "sudoers"  -> AsRoot(i, [i EXCEPT !.sudoers = @ \cup {c.name}])
      [] c.do = "step"     -> Layer(i, <<"step", c.run, i.user, i.workdir, i.env>>)
      [] c.do = "getent"   ->
            IF c.name \in i.users THEN i ELSE Failed(i, "NoSuchUser")

(* A RUN needs a shell and a user that exists; its commands stop at the    *)
(* first that fails.                                                       *)
RunAll(i, commands) ==
    CASE ~HasShell(i)                       -> Failed(i, "NoShell")
      [] HasShell(i) /\ i.user \notin i.users -> Failed(i, "NoSuchUser")
      [] HasShell(i) /\ i.user \in i.users  -> FoldLeft(Effect, i, commands)

(* A value of ENV may refer to a variable ($NAME): what it expands to is   *)
(* what earlier instructions made of that variable.                        *)
Expanded(i, value) ==
    <<value.text,
      IF value.uses \in DOMAIN i.env THEN i.env[value.uses] ELSE << >> >>

(* A later ENV or COPY takes the place of an earlier one of that name.     *)
Updated(f, x, y) == [z \in DOMAIN f \cup {x} |-> IF z = x THEN y ELSE f[z]]

Perform(i, in, job) ==
    CASE in.op = "CHECK-PUSH" -> Pushable(i, job)
      [] in.op = "FROM"       -> Pull(job, in.image)
      [] in.op = "SHELL"      -> i
      [] in.op = "USER"       -> [i EXCEPT !.user = in.name]
      [] in.op = "WORKDIR"    -> [i EXCEPT !.workdir = in.dir]
      [] in.op = "ENV"        ->
            [i EXCEPT !.env = Updated(i.env, in.name, Expanded(i, in.value))]
      [] in.op = "COPY"       ->
            [i EXCEPT !.files = Updated(i.files, in.dst, <<in.from, in.src>>)]
      [] in.op = "RUN"        -> RunAll(i, in.commands)
      [] in.op = "ENTRYPOINT" -> [i EXCEPT !.entrypoint = in.args]
      [] in.op = "CMD"        -> [i EXCEPT !.cmd = in.args]
      [] in.op = "PUSH"       -> Pushed(i, job)

(* --ignore-path keeps a path out of the snapshots, hence of the image.    *)
Snapshot(i, job) ==
    [i EXCEPT !.files = [f \in DOMAIN i.files \ job.options.ignorePaths |-> i.files[f]]]
=============================================================================
