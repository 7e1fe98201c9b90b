---------------------------- MODULE MCDockerBuild ----------------------------
(***************************************************************************)
(* Specs, base images, registries and Secrets for TLC.                     *)
(***************************************************************************)
EXTENDS DockerBuild

Ubuntu   == <<"ubuntu", ":", "22", ".", "04">>
Notebook == <<"jupyter", "/", "notebook">>
Alpine   == <<"alpine">>
Tool     == <<"tools">>
Scratch  == <<"scratch">>
Harbor   == <<"harbor", ".", "io">>
Vault    == <<"vault", ".", "io">>
Local    == <<"reg", ":", "5000">>
Mirror   == <<"mirror", ".", "io">>
Private  == Vault \o <<"/", "lib", "/", "ubuntu", ":", "v1">>
Both     == Vault \o <<"/", "lib", "/", "both">>        \* an index with amd64
ArmIndex == Vault \o <<"/", "lib", "/", "arms">>        \* one without
Arm      == Vault \o <<"/", "lib", "/", "arm">>         \* one image
Untagged == Local \o <<"/", "ubuntu">>
Pinned   == <<"ubuntu", "@", "sha256", ":", "f00d">>
Official == DockerIO \o <<"/", "ubuntu">>

UbuntuImage == [user |-> "root", users |-> {"root"}, ubuntu |-> TRUE, shell |-> TRUE,
                index |-> FALSE, platforms |-> {"linux/amd64"}]

MCBaseImages ==
    Notebook :> [UbuntuImage EXCEPT !.user = "jovyan", !.users = {"root", "jovyan"}]
    @@ Alpine   :> [UbuntuImage EXCEPT !.ubuntu = FALSE]
    @@ Scratch  :> [UbuntuImage EXCEPT !.ubuntu = FALSE, !.shell = FALSE]
    @@ Both     :> [UbuntuImage EXCEPT !.index = TRUE,
                                       !.platforms = {"linux/amd64", "linux/arm64", None}]
    @@ ArmIndex :> [UbuntuImage EXCEPT !.index = TRUE, !.platforms = {"linux/arm64", None}]
    @@ Arm      :> [UbuntuImage EXCEPT !.platforms = {"linux/arm64"}]
    @@ [ref \in {Ubuntu, Tool, Private, Untagged, Pinned, Official} |-> UbuntuImage]

(* The cluster reaches Docker Hub through a mirror only.                   *)
MCRegistries ==
    Hub       :> [up |-> FALSE, pull |-> {}, push |-> {}]
    @@ Mirror :> [up |-> TRUE, pull |-> {"anonymous"}, push |-> {}]
    @@ Harbor :> [up |-> TRUE, pull |-> {"reader", "robot"}, push |-> {"robot"}]
    @@ Vault  :> [up |-> TRUE, pull |-> {"reader"}, push |-> {}]
    @@ Local  :> [up |-> TRUE, pull |-> {"anonymous", "ci"}, push |-> {"ci"}]

Config(auths) == [json |-> TRUE, auths |-> auths, other |-> << >>]

MCSecrets ==
    DefaultDockerAuthSecret :> ("config.json" :> 
                        Config(Harbor :> "robot" @@ Vault :> "robot"))
    @@ "pull"    :> (".dockerconfigjson" :> Config(Vault :> "reader"))
    @@ "wide"    :> (".dockerconfigjson" :>
                        Config(Vault :> "reader" @@ Harbor :> "reader"))
    @@ "narrow"  :> (".dockerconfigjson" :>
                        Config((Vault \o <<"/", "lib", "/", "ubuntu">>) :> "reader"))
    @@ "ci"      :> ("config.json" :> Config(Local :> "ci"))
    @@ "empty"   :> << >>
    @@ "garbled" :> ("config.json" :> [NoConfig EXCEPT !.json = FALSE])

MCEnvironment ==
    [KANIKO_SNAPSHOT_MODE    |-> "redo",
     KANIKO_SINGLE_SNAPSHOT  |-> "1",
     KANIKO_IGNORE_PATHS     |-> <<"/etc/tool.conf", "">>,
     KANIKO_CACHE_TTL        |-> None,
     KANIKO_REGISTRY_MAP     |-> <<<<DockerIO, <<"old", ".", "io">> >>, << << >>, Mirror>>,
                                   <<DockerIO, Mirror>> >>,
     KANIKO_BUILD_CACHE_REPO |-> "harbor.io/cache",
     DEFAULT_IMAGE_REGISTRY  |-> Harbor \o <<"/", "patched", "/">>,
     DEDUP_ENABLED           |-> "true"]

-----------------------------------------------------------------------------

Blank ==
    [base |-> Ubuntu, targetImage |-> << >>, fromImages |-> << >>,
     env |-> << >>, apt |-> None, pip |-> None, user |-> None,
     shell |-> << >>, runAsUser |-> None, entrypoint |-> << >>, cmd |-> << >>,
     buildOptions |-> None, pushSecret |-> None, pullSecret |-> None]

NoOptions == [snapshotMode |-> None, singleSnapshot |-> None, ignorePaths |-> None,
              cacheTTL |-> None, disableBuildCache |-> None, disableBuildLayerCache |-> None]

Tools == <<[image |-> Tool, name |-> "tools",
            copy |-> <<[src |-> "/bin/tool", dst |-> None],
                       [src |-> "/etc/tool.conf", dst |-> None],
                       [src |-> "/etc/tool", dst |-> "/opt/tool"]>>]>>

Literal(text) == [text |-> text, uses |-> None]

(* Variables that do not refer to one another.                             *)
Independent == [HOME |-> Literal("/srv"), LANG |-> Literal("C")]

(* ENV BIN=$HOME/bin.                                                      *)
Dependent == [HOME |-> Literal("/srv"), BIN |-> [text |-> "bin", uses |-> "HOME"]]

Quiet(text) == [text |-> text, words |-> {}, exits42 |-> FALSE]

Steps == <<[run |-> Quiet("setup"), workdir |-> "/srv", user |-> None],
           [run |-> Quiet("check"), workdir |-> None, user |-> "app"]>>

(* Steps whose command looks like an error, and one that exits with 42.    *)
Loud == <<[run |-> [Quiet("grep unauthorized") EXCEPT !.words = {"registry"}],
           workdir |-> None, user |-> None],
          [run |-> [Quiet("exit 42") EXCEPT !.exits42 = TRUE],
           workdir |-> None, user |-> None]>>

FullUser == [name |-> "app", uid |-> 1000, gid |-> 1000, sudo |-> TRUE]

Users == {None, FullUser, [FullUser EXCEPT !.uid = 0, !.gid = 0, !.sudo = FALSE],
          [FullUser EXCEPT !.uid = 0]}

FullApt == [mirror |-> "mirror", install |-> <<"curl">>]

Apts == {None, FullApt, [FullApt EXCEPT !.mirror = None],
         [FullApt EXCEPT !.install = << >>]}

(* Base images, users, steps and runAsUser.                                *)
Bare ==
    {[Blank EXCEPT !.base = b[1], !.apt = b[2], !.user = u, !.shell = s, !.runAsUser = r] :
        b \in {<<Ubuntu, None>>, <<Notebook, FullApt>>}, u \in Users,
        s \in {<< >>, Steps}, r \in {None, "jovyan", "app"}}

(* Bases that cannot be patched, and commands that disturb the classifier. *)
Broken ==
    {[Blank EXCEPT !.base = b, !.apt = w[1], !.shell = w[2], !.pullSecret = p] :
        b \in {Ubuntu, Alpine, Scratch, Arm, ArmIndex, Both},
        w \in {<<FullApt, << >> >>, <<None, Loud>>}, p \in {None, "pull"}}

(* Everything else an ImagePatch can ask for, with all uses of apt.        *)
Furnished ==
    {[Blank EXCEPT !.fromImages = Tools, !.env = Independent, !.apt = a,
                   !.pip = [install |-> <<"numpy">>], !.user = FullUser,
                   !.entrypoint = <<"tini">>, !.cmd = <<"serve">>] : a \in Apts}

(* The same, for another target and with options of its own.               *)
Elsewhere ==
    {[p EXCEPT !.targetImage = Harbor \o <<"/", "team", "/", "app", ":", "v1">>,
               !.buildOptions = o] :
        p \in Furnished,
        o \in {[NoOptions EXCEPT !.snapshotMode = "full", !.disableBuildLayerCache = TRUE],
               [NoOptions EXCEPT !.disableBuildCache = TRUE]}}

(* Secrets and targets in all combinations; a base with a port and no tag, *)
(* or with a digest, has a target of its own (see PortPatches).            *)
Credentialed ==
    {[Blank EXCEPT !.base = b[1], !.targetImage = b[2], !.pushSecret = s,
                   !.pullSecret = p] :
        b \in ({Private, Untagged, Pinned} \X
                 {Local \o <<"/", "app">>, Local \o <<"/", "app", ":", "v1">>})
              \cup {<<Private, << >> >>},
        s \in {None, "ci", "empty", "garbled"},
        p \in {None, "pull", "narrow", "wide", "missing"}}

(* Docker Hub by its name.                                                 *)
Named ==
    {[Blank EXCEPT !.base = Official, !.targetImage = t] :
        t \in {<< >>, DockerIO \o <<"/", "team", "/", "app", ":", "v1">>}}

AllPatches ==
    Bare \cup Broken \cup Furnished \cup Elsewhere \cup Credentialed \cup Named

(* A spec whose ENV lines come in one order or the other.                  *)
EnvPatches == {[Blank EXCEPT !.env = Dependent]}

(* Specs without a target on bases without a tag, one with a port; and     *)
(* others beside them.                                                     *)
PortPatches == {[Blank EXCEPT !.base = Untagged], [Blank EXCEPT !.base = Notebook]}

MCMirrors == {None, "mirror"}
=============================================================================
