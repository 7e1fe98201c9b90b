------------------------------ MODULE ImageRefs ------------------------------
(***************************************************************************)
(* References of images: which one a build is pushed to, under which one   *)
(* its result is found again, and how the metrics split it.                *)
(*                                                                         *)
(* The code cuts strings at their separators, so a reference is the        *)
(* sequence of its words and of the separators ".", ":", "/" and "@":      *)
(* reg:5000/app:v1 is <<"reg", ":", "5000", "/", "app", ":", "v1">>.       *)
(***************************************************************************)
EXTENDS SequencesExt, Naturals

(* Positions count from 1; 0 is Go's -1.                                   *)
FirstIndex(ref, sep) == SelectInSeq(ref, LAMBDA t : t = sep)
LastIndex(ref, sep)  == SelectLastInSeq(ref, LAMBDA t : t = sep)

Before(ref, i) == SubSeq(ref, 1, i - 1)
After(ref, i)  == SubSeq(ref, i + 1, Len(ref))

TrimRight(ref, sep) == SubSeq(ref, 1, SelectLastInSeq(ref, LAMBDA t : t # sep))

-----------------------------------------------------------------------------

(* The target the spec names, or <registry>/<name of the base>-patch:<tag  *)
(* of the base>.                                                           *)
ResolveDestination(target, base, registry) ==
    LET colon == LastIndex(base, ":")
        tag   == IF colon = 0 THEN <<"latest">> ELSE After(base, colon)
        ref   == IF colon = 0 THEN base ELSE Before(base, colon)
        name  == After(ref, LastIndex(ref, "/")) \o <<"-patch", ":">> \o tag
    IN  CASE target # << >>                      -> target
          [] target = << >> /\ registry = << >>  -> name
          [] target = << >> /\ registry # << >>  ->
                TrimRight(registry, "/") \o <<"/">> \o name

DedupOfAnyColon(destination) ==     \* mutant: the port is taken for the tag
    LET colon == LastIndex(destination, ":")
    IN  IF colon = 0 THEN << >> ELSE Before(destination, colon) \o <<":", "dedup">>

(* The tag dedup-<spec hash> in the destination's repository, or << >>     *)
(* for a destination without a tag; the hash is kept beside it.            *)
ComputeDedupRef(destination) ==
    LET colon == LastIndex(destination, ":")
    IN  IF colon = 0 \/ colon < LastIndex(destination, "/") THEN << >>
        ELSE Before(destination, colon) \o <<":", "dedup">>

DockerIO == <<"docker", ".", "io">>

SplitAtDots(ref) ==     \* mutant: a host with a port and no dot is overlooked
    LET slash == FirstIndex(ref, "/")
        head  == Before(ref, slash)
    IN  IF slash # 0 /\ (\E i \in DOMAIN head : head[i] = ".")
        THEN [registry |-> head, image |-> After(ref, slash)]
        ELSE [registry |-> DockerIO, image |-> ref]

(* The labels "registry" and "image" of the metrics.                       *)
SplitImageRef(ref) ==
    LET slash == FirstIndex(ref, "/")
        head  == Before(ref, slash)
    IN  IF /\ slash # 0
           /\ head = <<"localhost">> \/ \E i \in DOMAIN head : head[i] \in {".", ":"}
        THEN [registry |-> head, image |-> After(ref, slash)]
        ELSE [registry |-> DockerIO, image |-> ref]

-----------------------------------------------------------------------------
(* name.ParseReference of go-containerregistry, which kaniko, the registry *)
(* client and the inspection share.                                        *)

Hub == <<"index", ".", "docker", ".", "io">>

RepositoryOf(ref) ==
    LET at    == LastIndex(ref, "@")
        named == IF at = 0 THEN ref ELSE Before(ref, at)
        colon == LastIndex(named, ":")
    IN  IF colon > LastIndex(named, "/") THEN Before(named, colon) ELSE named

(* What comes before the first slash is a host only if it looks like one.  *)
HasHost(repo) ==
    LET slash == FirstIndex(repo, "/")
        head  == Before(repo, slash)
    IN  slash # 0 /\ \E i \in DOMAIN head : head[i] \in {".", ":"}

HostOf(ref) ==
    LET repo == RepositoryOf(ref)
        head == Before(repo, FirstIndex(repo, "/"))
    IN  IF HasHost(repo) /\ head # DockerIO THEN head ELSE Hub

PathOf(ref) ==
    LET repo == RepositoryOf(ref)
        path == IF HasHost(repo) THEN After(repo, FirstIndex(repo, "/")) ELSE repo
    IN  IF HostOf(ref) = Hub /\ FirstIndex(path, "/") = 0
        THEN <<"library", "/">> \o path ELSE path

(* A digest names its algorithm; a repository's path has no colon.         *)
ValidRef(ref) ==
    LET at == LastIndex(ref, "@")
    IN  /\ ref # << >>
        /\ at # 0 => After(ref, at)[1] = "sha256"
        /\ ToSet(PathOf(ref)) \cap {":", "@"} = {}

(* Only a tag can be pushed to.                                            *)
ValidTag(ref) == ValidRef(ref) /\ LastIndex(ref, "@") = 0

SameRepository(a, b) == HostOf(a) = HostOf(b) /\ PathOf(a) = PathOf(b)
=============================================================================
