----------------------------- MODULE RegistryAuth -----------------------------
(***************************************************************************)
(* Credentials: the docker config that a build mounts, made of up to two   *)
(* Secrets, and the account it means for an image.                         *)
(*                                                                         *)
(* A docker config maps registries to accounts (auths) and may hold other  *)
(* settings; json tells whether it parses.  A Secret maps its keys to      *)
(* docker configs.                                                         *)
(***************************************************************************)
EXTENDS ImageRefs, PatchDockerfile

CONSTANT Secrets      \* the Secrets of the build namespace, by name

NoConfig == [json |-> TRUE, auths |-> << >>, other |-> << >>]

DefaultDockerAuthSecret == "image-registry-secret"

ExtractDockerConfig(secret) ==
    CASE "config.json" \in DOMAIN secret -> secret["config.json"]
      [] "config.json" \notin DOMAIN secret /\ ".dockerconfigjson" \in DOMAIN secret ->
            secret[".dockerconfigjson"]
      [] DOMAIN secret \cap {"config.json", ".dockerconfigjson"} = {} -> NoConfig

(* What both hold, and the overlay where they differ.                      *)
Overlaid(base, overlay) ==
    [k \in DOMAIN base \cup DOMAIN overlay |->
        IF k \in DOMAIN overlay THEN overlay[k] ELSE base[k]]

MergePushWins(base, overlay) ==     \* mutant: the base wins
    [json |-> TRUE, auths |-> Overlaid(overlay.auths, base.auths),
     other |-> Overlaid(overlay.other, base.other)]

(* The overlay wins, for the registries and for the other settings.        *)
MergeDockerConfigs(base, overlay) ==
    [json |-> TRUE, auths |-> Overlaid(base.auths, overlay.auths),
     other |-> Overlaid(base.other, overlay.other)]

-----------------------------------------------------------------------------

(* Otherwise the Job mounts the default Secret as it is.                   *)
HasOwnAuth(spec) == spec.pushSecret # None \/ spec.pullSecret # None

BaseSecret(spec) ==
    IF spec.pushSecret = None THEN DefaultDockerAuthSecret ELSE spec.pushSecret

ConfigOf(name) == ExtractDockerConfig(Secrets[name])

OverlayConfig(spec) ==
    IF spec.pullSecret = None THEN NoConfig ELSE ConfigOf(spec.pullSecret)

(* createOrUpdateAuthSecret returns an error, and the CR waits, while a    *)
(* Secret is missing or does not parse.                                    *)
AuthLoads(spec) ==
    HasOwnAuth(spec) =>
        /\ BaseSecret(spec) \in DOMAIN Secrets
        /\ spec.pullSecret # None => spec.pullSecret \in DOMAIN Secrets
        /\ ConfigOf(BaseSecret(spec)).json
        /\ OverlayConfig(spec).json

(* What the Job mounts: the synthesized Secret, or the default one.        *)
MountedConfig(spec) ==
    IF HasOwnAuth(spec)
    THEN MergeDockerConfigs(ConfigOf(BaseSecret(spec)), OverlayConfig(spec))
    ELSE Secrets[DefaultDockerAuthSecret]["config.json"]

-----------------------------------------------------------------------------

Anonymous == "anonymous"

(* The most specific key first, then the host.                             *)
Lookup(config, narrow, wide) ==
    CASE narrow \in DOMAIN config.auths -> config.auths[narrow]
      [] narrow \notin DOMAIN config.auths /\ wide \in DOMAIN config.auths ->
            config.auths[wide]
      [] {narrow, wide} \cap DOMAIN config.auths = {} -> Anonymous

RepositoryKey(host, path) == host \o <<"/">> \o path

(* dockerConfigKeychain.Resolve, over the pull Secret: anonymous when it   *)
(* is missing or does not parse.                                           *)
InspectAccount(spec) ==
    IF spec.pullSecret \in DOMAIN Secrets /\ OverlayConfig(spec).json
    THEN Lookup(OverlayConfig(spec), RepositoryKey(HostOf(spec.base), PathOf(spec.base)),
                HostOf(spec.base))
    ELSE Anonymous

(* kaniko's keychain knows Docker Hub under the key that docker login      *)
(* writes.                                                                 *)
HubLogin == <<"https://index.docker.io/v1/">>

LoginKey(host) == IF host = Hub THEN HubLogin ELSE host

KanikoAccount(config, host, path) ==
    Lookup(config, RepositoryKey(host, path), LoginKey(host))
=============================================================================
