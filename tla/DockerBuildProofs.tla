-------------------------- MODULE DockerBuildProofs --------------------------
(***************************************************************************)
(* What every build keeps to, for specs with lists of every length, base   *)
(* images, registries and Secrets of every kind.                           *)
(***************************************************************************)
EXTENDS DockerBuild, DockerfileProofs

-----------------------------------------------------------------------------
(* What FoldLeft computes: the effects of the commands, one after another. *)

LEMMA Greatest ==
    ASSUME NEW n \in Nat, NEW S, S \subseteq 1..n, S # {}
    PROVE  Max(S) \in S /\ \A m \in S : m <= Max(S)
<1> DEFINE T == {k \in Nat : n - k \in S}
<1>1. T # {}
  <2>1. PICK m \in S : TRUE
    OBVIOUS
  <2>2. n - m \in Nat /\ n - (n - m) = m
    BY <2>1
  <2> QED
    BY <2>1, <2>2
<1>2. PICK k \in T : \A j \in T : k <= j
  BY <1>1, LeastNumber
<1>3. ASSUME NEW m \in S
      PROVE  n - k >= m
  <2>1. n - m \in Nat /\ n - (n - m) = m
    OBVIOUS
  <2>2. n - m \in T
    BY <2>1
  <2>3. k <= n - m
    BY <1>2, <2>2
  <2> QED
    BY <2>3
<1>4. n - k \in S /\ \A m \in S : n - k >= m
  BY <1>3
<1>5. Max(S) \in S /\ \A m \in S : Max(S) >= m
  BY <1>4 DEF Max
<1> QED
  BY <1>5

Folding(i, s, n, it) ==
    it = [S \in SUBSET (1..n) |->
             IF S = {} THEN i ELSE Effect(it[S \ {Max(S)}], s[Max(S)])]

LEMMA FoldingExists ==
    ASSUME NEW i, NEW s, NEW m \in Nat
    PROVE  \E it : Folding(i, s, m, it)
<1> DEFINE T == {n \in Nat : \E it : Folding(i, s, n, it)}
<1>1. 0 \in T
  <2>1. \A S \in SUBSET (1..0) : S = {}
    OBVIOUS
  <2>2. Folding(i, s, 0, [S \in SUBSET (1..0) |-> i])
    BY <2>1 DEF Folding
  <2> QED
    BY <2>2
<1>2. ASSUME NEW n \in Nat, n \in T
      PROVE  n + 1 \in T
  <2>1. PICK g : Folding(i, s, n, g)
    BY <1>2
  <2> DEFINE h == [S \in SUBSET (1..n + 1) |->
                      IF n + 1 \in S THEN Effect(g[S \ {n + 1}], s[n + 1]) ELSE g[S]]
  <2>2. \A S \in SUBSET (1..n) :
           g[S] = IF S = {} THEN i ELSE Effect(g[S \ {Max(S)}], s[Max(S)])
    BY <2>1 DEF Folding
  <2>3. ASSUME NEW S \in SUBSET (1..n + 1)
        PROVE  h[S] = IF S = {} THEN i ELSE Effect(h[S \ {Max(S)}], s[Max(S)])
    <3>1. CASE n + 1 \in S
      <4>0. n + 1 \in Nat /\ S \subseteq 1..n + 1 /\ S # {}
        BY <3>1
      <4>1. Max(S) \in S /\ \A k \in S : k <= Max(S)
        BY <4>0, Greatest
      <4>2. Max(S) = n + 1
        <5>1. Max(S) \in 1..n + 1 /\ n + 1 <= Max(S)
          BY <3>1, <4>1
        <5> QED
          BY <5>1
      <4>3. S \ {n + 1} \in SUBSET (1..n)
        OBVIOUS
      <4>4. h[S \ {n + 1}] = g[S \ {n + 1}]
        BY <4>3
      <4> QED
        BY <3>1, <4>2, <4>4
    <3>2. CASE n + 1 \notin S
      <4>1. S \in SUBSET (1..n)
        BY <3>2
      <4>2. h[S] = g[S]
        BY <3>2
      <4>3. CASE S = {}
        BY <2>2, <4>1, <4>2, <4>3
      <4>4. CASE S # {}
        <5>1. S \ {Max(S)} \in SUBSET (1..n)
          BY <4>1
        <5>2. h[S \ {Max(S)}] = g[S \ {Max(S)}]
          BY <5>1
        <5> QED
          BY <2>2, <4>1, <4>2, <4>4, <5>2
      <4> QED
        BY <4>3, <4>4
    <3> QED
      BY <3>1, <3>2
  <2>4. Folding(i, s, n + 1, h)
    BY <2>3 DEF Folding
  <2> QED
    BY <2>4
<1>3. Nat \subseteq T
  BY <1>1, <1>2, Induction
<1> QED
  BY <1>3

(* f[n] is the image after n commands.                                     *)
LEMMA Folded ==
    ASSUME NEW i, NEW s, Sequence(s)
    PROVE  \E f : /\ f[0] = i
                  /\ \A n \in 1..Len(s) : f[n] = Effect(f[n - 1], s[n])
                  /\ FoldLeft(Effect, i, s) = f[Len(s)]
<1> DEFINE it == CHOOSE g : Folding(i, s, Len(s), g)
           f  == [n \in 0..Len(s) |-> it[1..n]]
<1>0. Len(s) \in Nat /\ DOMAIN s = 1..Len(s)
  BY SequenceFacts
<1>1. Folding(i, s, Len(s), it)
  BY <1>0, FoldingExists
<1>2. FoldLeft(Effect, i, s) = it[1..Len(s)]
  BY <1>0 DEF FoldLeft, MapThenFoldSet, Folding
<1> HIDE DEF it
<1>3. \A S \in SUBSET (1..Len(s)) :
         it[S] = IF S = {} THEN i ELSE Effect(it[S \ {Max(S)}], s[Max(S)])
  BY <1>1 DEF Folding
<1>4. f[0] = i
  <2>1. 1..0 = {} /\ 1..0 \in SUBSET (1..Len(s)) /\ 0 \in 0..Len(s)
    BY <1>0
  <2> QED
    BY <1>3, <2>1
<1>5. ASSUME NEW n \in 1..Len(s)
      PROVE  f[n] = Effect(f[n - 1], s[n])
  <2>1. 1..n \in SUBSET (1..Len(s)) /\ 1..n # {} /\ n \in 1..n
    BY <1>0
  <2>2. Max(1..n) = n
    <3>0. n \in Nat /\ 1..n \subseteq 1..n
      BY <1>0
    <3>1. Max(1..n) \in 1..n /\ \A m \in 1..n : m <= Max(1..n)
      BY <2>1, <3>0, Greatest
    <3> QED
      BY <2>1, <3>1
  <2>3. (1..n) \ {n} = 1..n - 1
    OBVIOUS
  <2>4. it[1..n] = Effect(it[1..n - 1], s[n])
    BY <1>3, <2>1, <2>2, <2>3
  <2>5. n \in 0..Len(s) /\ n - 1 \in 0..Len(s)
    BY <1>0
  <2> QED
    BY <2>4, <2>5
<1>6. FoldLeft(Effect, i, s) = f[Len(s)]
  BY <1>0, <1>2
<1> QED
  BY <1>4, <1>5, <1>6

-----------------------------------------------------------------------------
(* Images, and what one command makes of them.                             *)

IsImage(i) ==
    i = [base |-> i.base, user |-> i.user, workdir |-> i.workdir, env |-> i.env,
         files |-> i.files, list |-> i.list, sources |-> i.sources, users |-> i.users,
         groups |-> i.groups, sudoers |-> i.sudoers, layers |-> i.layers,
         entrypoint |-> i.entrypoint, cmd |-> i.cmd, failure |-> i.failure]

AllCommands == RootCommands \cup FreeCommands \cup {"check-os"}

(* A command leaves base and user alone and takes no user away; and it     *)
(* fails for one of these reasons.                                         *)
UserFailures   == {"NoSuchUser", "UserExists", "GroupExists"}
EffectFailures == {"ImageOSNotSupported", "NoApt", "PermissionDenied"} \cup UserFailures

Keeps(i, j) ==
    /\ IsImage(j)
    /\ j.base = i.base /\ j.user = i.user /\ i.users \subseteq j.users

LEMMA FailedImage ==
    ASSUME NEW i, NEW why, IsImage(i)
    PROVE  /\ Keeps(i, Failed(i, why)) /\ Failed(i, why).failure = why
           /\ Failed(i, why).users = i.users
<1>1. Failed(i, why) =
        [base |-> i.base, user |-> i.user, workdir |-> i.workdir, env |-> i.env,
         files |-> i.files, list |-> i.list, sources |-> i.sources, users |-> i.users,
         groups |-> i.groups, sudoers |-> i.sudoers, layers |-> i.layers,
         entrypoint |-> i.entrypoint, cmd |-> i.cmd, failure |-> why]
  BY DEF Failed, IsImage
<1> QED
  BY <1>1 DEF Keeps, IsImage

LEMMA LayerImage ==
    ASSUME NEW i, NEW did, IsImage(i)
    PROVE  Keeps(i, Layer(i, did)) /\ Layer(i, did).failure = i.failure
<1>1. Layer(i, did) =
        [base |-> i.base, user |-> i.user, workdir |-> i.workdir, env |-> i.env,
         files |-> i.files, list |-> i.list, sources |-> i.sources, users |-> i.users,
         groups |-> i.groups, sudoers |-> i.sudoers, layers |-> Append(i.layers, did),
         entrypoint |-> i.entrypoint, cmd |-> i.cmd, failure |-> i.failure]
  BY DEF Layer, IsImage
<1> QED
  BY <1>1 DEF Keeps, IsImage

LEMMA UserAddedImage ==
    ASSUME NEW i, NEW c, IsImage(i), i.failure = None
    PROVE  /\ Keeps(i, UserAdded(i, c))
           /\ UserAdded(i, c).failure \in {None, "UserExists", "GroupExists"}
<1> DEFINE j == UserAdded(i, c)
           m == [i EXCEPT !.users = @ \cup {c.name}]
           k == [m EXCEPT !.groups = @ \cup {c.name}]
<1> SUFFICES Keeps(i, j) /\ j.failure \in {None, "UserExists", "GroupExists"}
  OBVIOUS
<1>0. m = [base |-> i.base, user |-> i.user, workdir |-> i.workdir, env |-> i.env,
           files |-> i.files, list |-> i.list, sources |-> i.sources,
           users |-> i.users \cup {c.name}, groups |-> i.groups,
           sudoers |-> i.sudoers, layers |-> i.layers,
           entrypoint |-> i.entrypoint, cmd |-> i.cmd, failure |-> i.failure]
  BY DEF IsImage
<1> HIDE DEF m
<1>1. k = [base |-> i.base, user |-> i.user, workdir |-> i.workdir, env |-> i.env,
           files |-> i.files, list |-> i.list, sources |-> i.sources,
           users |-> i.users \cup {c.name}, groups |-> i.groups \cup {c.name},
           sudoers |-> i.sudoers, layers |-> i.layers,
           entrypoint |-> i.entrypoint, cmd |-> i.cmd, failure |-> i.failure]
  BY <1>0
<1>2. IsImage(k) /\ Keeps(i, k) /\ k.failure = None
  BY <1>1 DEF IsImage, Keeps
<1>3. \/ j = Failed(i, "UserExists")
      \/ j = Failed(i, "GroupExists")
      \/ j = Layer(k, <<"useradd", c.name, c.uid, c.gid>>)
  BY DEF UserAdded, m
<1> HIDE DEF j, k
<1>4. CASE j = Layer(k, <<"useradd", c.name, c.uid, c.gid>>)
  <2>1. Keeps(k, j) /\ j.failure = None
    BY <1>2, <1>4, LayerImage
  <2> QED
    BY <1>2, <2>1 DEF Keeps
<1>5. CASE j = Failed(i, "UserExists") \/ j = Failed(i, "GroupExists")
  BY <1>5, FailedImage
<1> QED
  BY <1>3, <1>4, <1>5

LEMMA AsRootImage ==
    ASSUME NEW i, NEW changed, IsImage(i), Keeps(i, changed)
    PROVE  LET j == AsRoot(i, changed)
           IN  /\ Keeps(i, j)
               /\ \/ i.user = "root" /\ j = changed
                  \/ i.user # "root" /\ j.failure = "PermissionDenied"
  BY FailedImage DEF AsRoot

LEMMA EffectImage ==
    ASSUME NEW i, NEW c, IsImage(i), i.failure = None, c.do \in AllCommands
    PROVE  /\ Keeps(i, Effect(i, c))
           /\ Effect(i, c).failure \in EffectFailures \cup {None}
           /\ Effect(i, c).failure = "PermissionDenied"
                 => i.user # "root" /\ c.do \in RootCommands
           /\ Effect(i, c).failure \in {"ImageOSNotSupported", "NoApt"} => ~Supported(i)
           /\ Effect(i, c).failure \in UserFailures \cup {"NoApt"} => c.do # "check-os"
           /\ Effect(i, c).failure = None =>
                 /\ c.do = "check-os" => Supported(i)
                 /\ c.do = "getent" => c.name \in i.users
<1> DEFINE j == Effect(i, c)
<1> SUFFICES /\ Keeps(i, j)
             /\ j.failure \in EffectFailures \cup {None}
             /\ j.failure = "PermissionDenied" => i.user # "root" /\ c.do \in RootCommands
             /\ j.failure \in {"ImageOSNotSupported", "NoApt"} => ~Supported(i)
             /\ j.failure \in UserFailures \cup {"NoApt"} => c.do # "check-os"
             /\ j.failure = None =>
                   /\ c.do = "check-os" => Supported(i)
                   /\ c.do = "getent" => c.name \in i.users
  OBVIOUS
<1>0. Keeps(i, i)
  BY DEF Keeps
<1>a. None \notin EffectFailures
  BY NoneAssumption DEF EffectFailures, UserFailures, Failures
<1>1. CASE c.do = "check-os"
  <2>1. j = IF Supported(i) THEN i ELSE Failed(i, "ImageOSNotSupported")
    BY <1>1 DEF Effect
  <2> QED
    BY <1>0, <1>1, <1>a, <2>1, FailedImage DEF EffectFailures, UserFailures
<1>2. CASE c.do = "write-sources"
  <2> DEFINE k == [i EXCEPT !.sources = c.mirror]
  <2>1. j = IF Supported(i) THEN AsRoot(i, k) ELSE Failed(i, "NoApt")
    BY <1>2 DEF Effect
  <2>2. Keeps(i, k) /\ k.failure = None
    BY DEF IsImage, Keeps
  <2> HIDE DEF k, j
  <2> QED
    BY <1>2, <1>a, <2>1, <2>2, FailedImage, AsRootImage DEF EffectFailures, UserFailures, RootCommands
<1>3. CASE c.do \in {"write-list", "remove-list"}
  <2> DEFINE k == [i EXCEPT !.list = c.do = "write-list"]
  <2>1. j = k
    BY <1>3 DEF Effect
  <2>2. Keeps(i, k) /\ k.failure = None
    BY DEF IsImage, Keeps
  <2> HIDE DEF k, j
  <2> QED
    BY <1>3, <1>a, <2>1, <2>2 DEF EffectFailures, UserFailures
<1>4. CASE c.do = "apt-install"
  <2> DEFINE k == Layer(i, <<"apt", c.packages>>)
  <2>1. j = IF Supported(i) THEN AsRoot(i, k) ELSE Failed(i, "NoApt")
    BY <1>4 DEF Effect
  <2>2. Keeps(i, k) /\ k.failure = None
    BY LayerImage
  <2> HIDE DEF k, j
  <2> QED
    BY <1>4, <1>a, <2>1, <2>2, FailedImage, AsRootImage DEF EffectFailures, UserFailures, RootCommands
<1>5. CASE c.do \in {"pip-install", "step"}
  <2>1. \E did : j = Layer(i, did)
    BY <1>5 DEF Effect
  <2> HIDE DEF j
  <2> QED
    BY <1>5, <1>a, <2>1, LayerImage DEF EffectFailures, UserFailures
<1>6. CASE c.do = "groupadd"
  <2> DEFINE k == [i EXCEPT !.groups = @ \cup {c.name}]
  <2>1. j = AsRoot(i, k)
    BY <1>6 DEF Effect
  <2>2. Keeps(i, k) /\ k.failure = None
    BY DEF IsImage, Keeps
  <2> HIDE DEF k, j
  <2> QED
    BY <1>6, <1>a, <2>1, <2>2, AsRootImage DEF EffectFailures, UserFailures, RootCommands
<1>7. CASE c.do = "useradd"
  <2> DEFINE k == UserAdded(i, c)
  <2>1. j = AsRoot(i, k)
    BY <1>7 DEF Effect
  <2>2. Keeps(i, k) /\ k.failure \in {None, "UserExists", "GroupExists"}
    BY UserAddedImage
  <2> HIDE DEF k, j
  <2> QED
    BY <1>7, <1>a, <2>1, <2>2, AsRootImage DEF EffectFailures, UserFailures, RootCommands
<1>8. CASE c.do = "sudoers"
  <2> DEFINE k == [i EXCEPT !.sudoers = @ \cup {c.name}]
  <2>1. j = AsRoot(i, k)
    BY <1>8 DEF Effect
  <2>2. Keeps(i, k) /\ k.failure = None
    BY DEF IsImage, Keeps
  <2> HIDE DEF k, j
  <2> QED
    BY <1>8, <1>a, <2>1, <2>2, AsRootImage DEF EffectFailures, UserFailures, RootCommands
<1>9. CASE c.do = "getent"
  <2>1. j = IF c.name \in i.users THEN i ELSE Failed(i, "NoSuchUser")
    BY <1>9 DEF Effect
  <2> QED
    BY <1>0, <1>9, <1>a, <2>1, FailedImage DEF EffectFailures, UserFailures
<1> QED
  BY <1>1, <1>2, <1>3, <1>4, <1>5, <1>6, <1>7, <1>8, <1>9
  DEF AllCommands, RootCommands, FreeCommands

(* A RUN: what its commands do, one after the other, until one fails.      *)
LEMMA RunImage ==
    ASSUME NEW i, NEW s, IsImage(i), i.failure = None, Sequence(s),
           \A n \in DOMAIN s : s[n].do \in AllCommands
    PROVE  /\ Keeps(i, RunAll(i, s))
           /\ RunAll(i, s).failure \in EffectFailures \cup {None, "NoShell"}
           /\ RunAll(i, s).failure = "NoShell" <=> ~HasShell(i)
           /\ RunAll(i, s).failure = "PermissionDenied"
                 => i.user # "root" /\ \E n \in DOMAIN s : s[n].do \in RootCommands
           /\ RunAll(i, s).failure \in {"ImageOSNotSupported", "NoApt"} => ~Supported(i)
           /\ RunAll(i, s).failure \in UserFailures
                 => \/ i.user \notin i.users
                    \/ \E n \in DOMAIN s : s[n].do # "check-os"
           /\ RunAll(i, s).failure = "NoApt" => \E n \in DOMAIN s : s[n].do # "check-os"
           /\ RunAll(i, s).failure = None => \A n \in DOMAIN s :
                 /\ s[n].do = "check-os" => Supported(i)
                 /\ s[n].do = "getent" => s[n].name \in RunAll(i, s).users
<1> DEFINE j == RunAll(i, s)
           Goal(k, n) ==
             /\ Keeps(i, k)
             /\ k.failure \in EffectFailures \cup {None}
             /\ k.failure = "PermissionDenied"
                   => i.user # "root" /\ \E m \in 1..n : s[m].do \in RootCommands
             /\ k.failure \in {"ImageOSNotSupported", "NoApt"} => ~Supported(i)
             /\ k.failure \in UserFailures \cup {"NoApt"} => \E m \in 1..n : s[m].do # "check-os"
             /\ k.failure = None => \A m \in 1..n :
                   /\ s[m].do = "check-os" => Supported(i)
                   /\ s[m].do = "getent" => s[m].name \in k.users
<1>0. Len(s) \in Nat /\ DOMAIN s = 1..Len(s)
  BY SequenceFacts
<1>a. None \notin EffectFailures \cup {"NoShell"} /\ "NoShell" \notin EffectFailures
  BY NoneAssumption DEF EffectFailures, UserFailures, Failures
<1>1. CASE ~HasShell(i)
  <2>1. j = Failed(i, "NoShell")
    BY <1>1 DEF RunAll
  <2>2. Keeps(i, j) /\ j.failure = "NoShell"
    BY <2>1, FailedImage
  <2> HIDE DEF j
  <2>3. "NoShell" \notin UserFailures \cup {"NoApt"}
    BY <1>a DEF EffectFailures
  <2> QED
    BY <1>1, <1>a, <2>2, <2>3 DEF j
<1>2. CASE HasShell(i) /\ i.user \notin i.users
  <2>1. j = Failed(i, "NoSuchUser")
    BY <1>2 DEF RunAll
  <2>2. Keeps(i, j) /\ j.failure = "NoSuchUser"
    BY <2>1, FailedImage
  <2>3. "NoSuchUser" \in EffectFailures
    BY DEF EffectFailures, UserFailures
  <2> HIDE DEF j
  <2> QED
    BY <1>2, <1>a, <2>2, <2>3 DEF j
<1>3. CASE HasShell(i) /\ i.user \in i.users
  <2>0. \E f : /\ f[0] = i
               /\ \A n \in 1..Len(s) : f[n] = Effect(f[n - 1], s[n])
               /\ FoldLeft(Effect, i, s) = f[Len(s)]
    <3> HIDE DEF j, Goal
    <3> QED
      BY Folded, ZenonT(60)
  <2>1. PICK f : /\ f[0] = i
                 /\ \A n \in 1..Len(s) : f[n] = Effect(f[n - 1], s[n])
                 /\ FoldLeft(Effect, i, s) = f[Len(s)]
    BY <2>0
  <2>2. j = f[Len(s)]
    BY <1>3, <2>1 DEF RunAll
  <2> DEFINE T == {n \in Nat : n <= Len(s) => Goal(f[n], n)}
  <2>3. 0 \in T
    <3>1. Keeps(i, i) /\ i.failure \notin EffectFailures
      BY <1>a DEF Keeps
    <3>2. Goal(i, 0)
      BY <3>1 DEF EffectFailures, UserFailures
    <3> QED
      BY <2>1, <3>2
  <2>4. ASSUME NEW n \in Nat, n \in T
        PROVE  n + 1 \in T
    <3> SUFFICES ASSUME n + 1 <= Len(s)
                 PROVE  Goal(f[n + 1], n + 1)
      OBVIOUS
    <3> DEFINE k == f[n]
               c == s[n + 1]
               l == Effect(k, c)
    <3>1. Goal(k, n)
      BY <1>0, <2>4
    <3>2. f[n + 1] = l /\ n + 1 \in 1..Len(s) /\ c.do \in AllCommands
      <4>1. n + 1 \in 1..Len(s) /\ (n + 1) - 1 = n
        BY <1>0
      <4> QED
        BY <1>0, <2>1, <4>1
    <3>3. CASE k.failure # None
      <4>1. l = k
        BY <3>3 DEF Effect
      <4>2. 1..n \subseteq 1..n + 1
        OBVIOUS
      <4> HIDE DEF k, l
      <4> QED
        BY <3>1, <3>2, <3>3, <4>1, <4>2
    <3>4. CASE k.failure = None
      <4>1. IsImage(k) /\ k.base = i.base /\ k.user = i.user /\ i.users \subseteq k.users
        BY <3>1 DEF Keeps
      <4>2. Supported(k) = Supported(i)
        BY <4>1 DEF Supported
      <4>3. /\ Keeps(k, l)
            /\ l.failure \in EffectFailures \cup {None}
            /\ l.failure = "PermissionDenied" => k.user # "root" /\ c.do \in RootCommands
            /\ l.failure \in {"ImageOSNotSupported", "NoApt"} => ~Supported(k)
            /\ l.failure \in UserFailures \cup {"NoApt"} => c.do # "check-os"
            /\ l.failure = None =>
                  /\ c.do = "check-os" => Supported(k)
                  /\ c.do = "getent" => c.name \in k.users
        BY <3>2, <3>4, <4>1, EffectImage
      <4> HIDE DEF k, l
      <4>4. Keeps(i, l) /\ k.users \subseteq l.users
        BY <4>1, <4>3 DEF Keeps
      <4>5. n + 1 \in 1..n + 1
        OBVIOUS
      <4>6. ASSUME l.failure = None, NEW m \in 1..n + 1
            PROVE  /\ s[m].do = "check-os" => Supported(i)
                   /\ s[m].do = "getent" => s[m].name \in l.users
        <5>1. CASE m \in 1..n
          BY <3>1, <3>4, <4>4, <5>1
        <5>2. CASE m = n + 1
          BY <4>2, <4>3, <4>4, <4>6, <5>2
        <5> QED
          BY <5>1, <5>2
      <4> QED
        BY <3>2, <4>1, <4>2, <4>3, <4>4, <4>5, <4>6
    <3> QED
      BY <3>3, <3>4
  <2>5. Nat \subseteq T
    <3> HIDE DEF T
    <3> QED
      BY <2>3, <2>4, Induction
  <2>6. Goal(j, Len(s))
    BY <1>0, <2>2, <2>5
  <2> HIDE DEF j
  <2> QED
    BY <1>0, <1>3, <1>a, <2>6 DEF j
<1> QED
  BY <1>1, <1>2, <1>3

-----------------------------------------------------------------------------
(* The instructions of a build: the Dockerfile between CheckPush and Push. *)

Programs(p) ==
    {<<CheckPush>> \o GenerateDockerfile(p, order, apt, pypi) \o <<Push>> :
        order \in EnvOrders(p), apt \in Mirrors, pypi \in Mirrors}

(* Where the check of the base image is.                                   *)
CheckAt(p) == Checked(p) + 1

ProgramEndsAs(p, s) ==
    \E g \in CheckAt(p) + 1 .. Len(s) - 2 :
        /\ s[g] = GetentOf(p)
        /\ s[g + 1] = User(p.runAsUser)
        /\ \A k \in g + 2 .. Len(s) : s[k].op \in {"ENTRYPOINT", "CMD", "PUSH"}

ProgramLaid(p, s) ==
    /\ Sequence(s)
    /\ CheckAt(p) \in Nat /\ 5 <= CheckAt(p) /\ CheckAt(p) < Len(s)
    /\ s[1] = CheckPush
    /\ \A n \in 2 .. CheckAt(p) - 4 :
          s[n].op = "FROM" /\ s[n].image \in DOMAIN BaseImages
    /\ s[CheckAt(p) - 3] = From(p.base, None)
    /\ s[CheckAt(p) - 2] = Shell
    /\ s[CheckAt(p) - 1] = User("root")
    /\ s[CheckAt(p)] = Run(<<[do |-> "check-os"]>>)
    /\ \A n \in CheckAt(p) + 1 .. Len(s) - 1 :
          /\ OfBody(p, s[n])
          /\ NeedsRoot(s[n]) => \A k \in CheckAt(p) + 1 .. n - 1 : s[k].op # "USER"
    /\ s[Len(s)] = Push
    /\ p.runAsUser # None => ProgramEndsAs(p, s)

LEMMA ProgramLayout ==
    ASSUME NEW p \in Patches, NEW s \in Programs(p)
    PROVE  ProgramLaid(p, s)
<1>1. PICK order \in EnvOrders(p), apt \in Mirrors, pypi \in Mirrors :
         s = <<CheckPush>> \o GenerateDockerfile(p, order, apt, pypi) \o <<Push>>
  BY DEF Programs
<1> DEFINE d == GenerateDockerfile(p, order, apt, pypi)
           a == <<CheckPush>>
           z == <<Push>>
           b == a \o d
           c == Checked(p)
<1>2. WellTyped(p)
  BY SpecsAssumption
<1>3. Laid(p, d) /\ RootFirst(p, d) /\ (p.runAsUser # None => EndsAs(p, d))
  BY <1>2, DockerfileLayout
<1>4. /\ Sequence(a) /\ Len(a) = 1 /\ a[1] = CheckPush
      /\ Sequence(z) /\ Len(z) = 1 /\ z[1] = Push
  BY DEF Sequence, ToSet
<1>5. /\ c \in Nat /\ c >= 4 /\ c <= Len(d) /\ Sequence(d) /\ Len(d) \in Nat
      /\ \A n \in 1..c - 4 : /\ n \in DOMAIN p.fromImages
                             /\ d[n] = From(p.fromImages[n].image, p.fromImages[n].name)
      /\ d[c - 3] = From(p.base, None) /\ d[c - 2] = Shell
      /\ d[c - 1] = User("root") /\ d[c] = Run(<<[do |-> "check-os"]>>)
  <2>1. /\ Sequence(d) /\ c \in Nat /\ c <= Len(d)
        /\ \A n \in 1..c : d[n] = Opening(p)[n]
    BY <1>3 DEF Laid
  <2>2. /\ c >= 4
        /\ \A n \in 1..c - 4 :
              /\ n \in DOMAIN p.fromImages
              /\ Opening(p)[n] = From(p.fromImages[n].image, p.fromImages[n].name)
        /\ Opening(p)[c - 3] = From(p.base, None)
        /\ Opening(p)[c - 2] = Shell
        /\ Opening(p)[c - 1] = User("root")
        /\ Opening(p)[c] = Run(<<[do |-> "check-os"]>>)
    BY <1>2, OpeningFacts
  <2>3. Len(d) \in Nat
    BY <2>1, SequenceFacts
  <2> HIDE DEF d, c
  <2>4. /\ \A n \in 1..c - 4 : n \in 1..c
        /\ c - 3 \in 1..c /\ c - 2 \in 1..c /\ c - 1 \in 1..c /\ c \in 1..c
    BY <2>1, <2>2
  <2> QED
    BY <2>1, <2>2, <2>3, <2>4
<1> HIDE DEF a, d, z, c
<1>6. /\ Sequence(b) /\ Len(b) = Len(d) + 1 /\ b[1] = CheckPush
      /\ \A n \in 2..Len(d) + 1 : b[n] = d[n - 1]
  <2>1. /\ Sequence(b) /\ Len(b) = Len(a) + Len(d)
        /\ \A n \in 1..Len(a) : b[n] = a[n]
        /\ \A n \in Len(a) + 1 .. Len(a) + Len(d) : b[n] = d[n - Len(a)]
    <3>1. Sequence(a) /\ Sequence(d)
      BY <1>4, <1>5
    <3> QED
      BY <3>1, Concat
  <2> HIDE DEF b
  <2> QED
    BY <1>4, <1>5, <2>1
<1> HIDE DEF b
<1>7. /\ Sequence(s) /\ Len(s) = Len(d) + 2 /\ s[1] = CheckPush /\ s[Len(s)] = Push
      /\ \A n \in 2..Len(d) + 1 : s[n] = d[n - 1]
  <2>1. s = b \o z
    BY <1>1 DEF a, b, d, z
  <2>2. /\ Sequence(s) /\ Len(s) = Len(b) + Len(z)
        /\ \A n \in 1..Len(b) : s[n] = b[n]
        /\ \A n \in Len(b) + 1 .. Len(b) + Len(z) : s[n] = z[n - Len(b)]
    <3>1. Sequence(b) /\ Sequence(z)
      BY <1>4, <1>6
    <3> QED
      BY <2>1, <3>1, Concat
  <2> QED
    BY <1>4, <1>5, <1>6, <2>2
<1>8. CheckAt(p) = c + 1
  BY DEF CheckAt, c
<1>a. /\ c \in Nat /\ c >= 4 /\ c <= Len(d) /\ Len(d) \in Nat
      /\ CheckAt(p) = c + 1 /\ Len(s) = Len(d) + 2
  BY <1>5, <1>7, <1>8
<1>b. \A n \in 2..Len(d) + 1 : s[n] = d[n - 1]
  BY <1>7
<1>9. ASSUME NEW n \in 2 .. CheckAt(p) - 4
      PROVE  s[n].op = "FROM" /\ s[n].image \in DOMAIN BaseImages
  <2>1. n - 1 \in 1..c - 4 /\ n \in 2..Len(d) + 1
    BY <1>a
  <2>2. s[n] = From(p.fromImages[n - 1].image, p.fromImages[n - 1].name)
        /\ n - 1 \in DOMAIN p.fromImages
    BY <1>5, <1>7, <2>1
  <2> QED
    BY <2>2, BasesAssumption DEF From
<1>10. /\ s[CheckAt(p) - 3] = From(p.base, None)
       /\ s[CheckAt(p) - 2] = Shell
       /\ s[CheckAt(p) - 1] = User("root")
       /\ s[CheckAt(p)] = Run(<<[do |-> "check-os"]>>)
  <2>0. {c - 2, c - 1, c, c + 1} \subseteq 2..Len(d) + 1
    BY <1>a
  <2>1. /\ s[c - 2] = d[(c - 2) - 1] /\ s[c - 1] = d[(c - 1) - 1]
        /\ s[c] = d[c - 1] /\ s[c + 1] = d[(c + 1) - 1]
    BY <1>b, <2>0
  <2>2. /\ (c - 2) - 1 = c - 3 /\ (c - 1) - 1 = c - 2 /\ (c + 1) - 1 = c
        /\ CheckAt(p) - 3 = c - 2 /\ CheckAt(p) - 2 = c - 1 /\ CheckAt(p) - 1 = c
    BY <1>a
  <2> QED
    BY <1>5, <1>8, <2>1, <2>2
<1>11. ASSUME NEW n \in CheckAt(p) + 1 .. Len(s) - 1
       PROVE  /\ OfBody(p, s[n])
              /\ NeedsRoot(s[n]) => \A k \in CheckAt(p) + 1 .. n - 1 : s[k].op # "USER"
  <2>1. /\ n - 1 \in c + 1 .. Len(d) /\ s[n] = d[n - 1]
        /\ \A k \in CheckAt(p) + 1 .. n - 1 :
              k - 1 \in c + 1 .. (n - 1) - 1 /\ s[k] = d[k - 1]
    BY <1>a, <1>b
  <2>2. OfBody(p, d[n - 1])
    BY <1>3, <2>1 DEF Laid, c
  <2>3. NeedsRoot(d[n - 1]) => \A k \in c + 1 .. (n - 1) - 1 : d[k].op # "USER"
    BY <1>3, <2>1 DEF RootFirst, c
  <2> QED
    BY <2>1, <2>2, <2>3
<1>12. ASSUME p.runAsUser # None
       PROVE  ProgramEndsAs(p, s)
  <2>1. PICK g \in c + 1 .. Len(d) - 1 :
           /\ d[g] = GetentOf(p) /\ d[g + 1] = User(p.runAsUser)
           /\ \A k \in g + 2 .. Len(d) : d[k].op \in {"ENTRYPOINT", "CMD"}
    BY <1>3, <1>12 DEF EndsAs, c
  <2> DEFINE h == g + 1
  <2>2. /\ h \in CheckAt(p) + 1 .. Len(s) - 2 /\ s[h] = d[g] /\ s[h + 1] = d[g + 1]
    <3>1. /\ h \in 2..Len(d) + 1 /\ h - 1 = g
          /\ h + 1 \in 2..Len(d) + 1 /\ (h + 1) - 1 = g + 1
      BY <1>a
    <3>2. h \in CheckAt(p) + 1 .. Len(s) - 2
      BY <1>a
    <3> QED
      BY <1>b, <3>1, <3>2
  <2>3. ASSUME NEW k \in h + 2 .. Len(s)
        PROVE  s[k].op \in {"ENTRYPOINT", "CMD", "PUSH"}
    <3>1. CASE k = Len(s)
      BY <1>7, <3>1 DEF Push
    <3>2. CASE k # Len(s)
      <4>1. k - 1 \in g + 2 .. Len(d) /\ k \in 2..Len(d) + 1
        BY <1>a, <3>2
      <4>2. s[k] = d[k - 1]
        BY <1>b, <4>1
      <4> QED
        BY <2>1, <4>1, <4>2
    <3> QED
      BY <3>1, <3>2
  <2> HIDE DEF h
  <2> QED
    BY <2>1, <2>2, <2>3 DEF ProgramEndsAs
<1>13. CheckAt(p) \in Nat /\ 5 <= CheckAt(p) /\ CheckAt(p) < Len(s)
  BY <1>a
<1> QED
  BY <1>7, <1>9, <1>10, <1>11, <1>12, <1>13 DEF ProgramLaid

-----------------------------------------------------------------------------
(* What the first k instructions have made of the image.                   *)

Made(p, s, k, i) ==
    /\ IsImage(i) /\ i.base \in DOMAIN BaseImages
    /\ k >= CheckAt(p) - 3 => /\ i.base = p.base
                              /\ BaseImages[p.base].users \subseteq i.users
    /\ k >= CheckAt(p) => HasShell(i) /\ Supported(i)
    /\ \A m \in CheckAt(p) - 1 .. k :
          s[m].op = "USER" /\ (\A j \in m + 1 .. k : s[j].op # "USER")
             => i.user = s[m].name
    /\ \A m \in CheckAt(p) .. k : s[m] = GetentOf(p) => p.runAsUser \in i.users

(* One more instruction that starts no stage.                              *)
LEMMA MadeNext ==
    ASSUME NEW p, NEW s, NEW k \in Nat, NEW i, NEW j, Made(p, s, k, i),
           CheckAt(p) \in Nat, CheckAt(p) - 2 <= k + 1,
           IsImage(j), j.base = i.base, i.users \subseteq j.users,
           s[k + 1].op = "USER" => j.user = s[k + 1].name,
           s[k + 1].op # "USER" => j.user = i.user,
           k + 1 = CheckAt(p) => HasShell(j) /\ Supported(j),
           k + 1 >= CheckAt(p) /\ s[k + 1] = GetentOf(p) => p.runAsUser \in j.users
    PROVE  Made(p, s, k + 1, j)
<1> DEFINE c == CheckAt(p)
<1>1. /\ i.base \in DOMAIN BaseImages /\ i.base = p.base
      /\ BaseImages[p.base].users \subseteq j.users
  BY DEF Made
<1>2. (k + 1 >= c) => HasShell(j) /\ Supported(j)
  <2>1. CASE k >= c
    BY <2>1 DEF Made, HasShell, Supported
  <2>2. CASE ~(k >= c)
    BY <2>2
  <2> QED
    BY <2>1, <2>2
<1>3. ASSUME NEW m \in c - 1 .. k + 1, s[m].op = "USER",
             \A l \in m + 1 .. k + 1 : s[l].op # "USER"
      PROVE  j.user = s[m].name
  <2>1. CASE m = k + 1
    BY <1>3, <2>1
  <2>2. CASE m # k + 1
    <3>1. m \in c - 1 .. k /\ k + 1 \in m + 1 .. k + 1
      BY <2>2
    <3>2. \A l \in m + 1 .. k : s[l].op # "USER"
      BY <1>3
    <3>3. i.user = s[m].name
      BY <1>3, <3>1, <3>2 DEF Made
    <3>4. s[k + 1].op # "USER"
      BY <1>3, <3>1
    <3> QED
      BY <3>3, <3>4
  <2> QED
    BY <2>1, <2>2
<1>4. ASSUME NEW m \in c .. k + 1, s[m] = GetentOf(p)
      PROVE  p.runAsUser \in j.users
  <2>1. CASE m = k + 1
    BY <1>4, <2>1
  <2>2. CASE m \in c .. k
    BY <1>4, <2>2 DEF Made
  <2> QED
    BY <2>1, <2>2
<1> QED
  BY <1>1, <1>2, <1>3, <1>4 DEF Made

-----------------------------------------------------------------------------
(* The instructions.                                                       *)

LEMMA NewStageImage ==
    ASSUME NEW ref
    PROVE  /\ IsImage(NewStage(ref)) /\ NewStage(ref).base = ref
           /\ NewStage(ref).users = BaseImages[ref].users
           /\ NewStage(ref).failure = None
  BY DEF NewStage, IsImage

LEMMA PullImage ==
    ASSUME NEW b, NEW ref
    PROVE  /\ IsImage(Pull(b, ref)) /\ Pull(b, ref).base = ref
           /\ Pull(b, ref).users = BaseImages[ref].users
           /\ Pull(b, ref).failure \in {None, "PullDenied", "Unreachable", "NoPlatform"}
<1>1. \/ Pull(b, ref) = NewStage(ref)
      \/ \E why \in {"PullDenied", "Unreachable", "NoPlatform"} :
            Pull(b, ref) = Failed(NewStage(ref), why)
  BY DEF Pull
<1>2. ASSUME NEW why
      PROVE  /\ IsImage(Failed(NewStage(ref), why))
             /\ Failed(NewStage(ref), why).base = ref
             /\ Failed(NewStage(ref), why).users = BaseImages[ref].users
             /\ Failed(NewStage(ref), why).failure = why
  BY NewStageImage, FailedImage DEF Keeps
<1> QED
  BY <1>1, <1>2, NewStageImage

LEMMA PushableImage ==
    ASSUME NEW i, NEW b, IsImage(i)
    PROVE  /\ Keeps(i, Pushable(i, b))
           /\ \/ Pushable(i, b) = i
              \/ Pushable(i, b).failure \in {"InvalidTag", "PushDenied"}
<1>1. \/ Pushable(i, b) = i
      \/ \E why \in {"InvalidTag", "PushDenied"} : Pushable(i, b) = Failed(i, why)
  BY DEF Pushable
<1> QED
  BY <1>1, FailedImage DEF Keeps

LEMMA PushedImage ==
    ASSUME NEW i, NEW b, IsImage(i)
    PROVE  /\ Keeps(i, Pushed(i, b))
           /\ Pushed(i, b) = i \/ Pushed(i, b).failure = "BlobUnknown"
<1>1. Pushed(i, b) = i \/ Pushed(i, b) = Failed(i, "BlobUnknown")
  BY DEF Pushed
<1> QED
  BY <1>1, FailedImage DEF Keeps

(* Settings: instructions that neither run anything nor start a stage.     *)
LEMMA SettingImage ==
    ASSUME NEW i, NEW in, NEW b, IsImage(i),
           in.op \in {"COPY", "ENV", "WORKDIR", "ENTRYPOINT", "CMD", "SHELL", "USER"}
    PROVE  /\ IsImage(Perform(i, in, b)) /\ Perform(i, in, b).base = i.base
           /\ Perform(i, in, b).users = i.users
           /\ Perform(i, in, b).failure = i.failure
           /\ in.op = "USER" => Perform(i, in, b).user = in.name
           /\ in.op # "USER" => Perform(i, in, b).user = i.user
<1> DEFINE j == Perform(i, in, b)
<1> SUFFICES /\ IsImage(j) /\ j.base = i.base
             /\ j.users = i.users /\ j.failure = i.failure
             /\ in.op = "USER" => j.user = in.name
             /\ in.op # "USER" => j.user = i.user
  OBVIOUS
<1>1. CASE in.op = "SHELL"
  <2>1. j = i
    BY <1>1 DEF Perform
  <2> QED
    BY <1>1, <2>1
<1>2. CASE in.op = "USER"
  <2>1. j = [i EXCEPT !.user = in.name]
    BY <1>2 DEF Perform
  <2> HIDE DEF j
  <2> QED
    BY <1>2, <2>1 DEF IsImage
<1>3. CASE in.op = "WORKDIR"
  <2>1. j = [i EXCEPT !.workdir = in.dir]
    BY <1>3 DEF Perform
  <2> HIDE DEF j
  <2> QED
    BY <1>3, <2>1 DEF IsImage
<1>4. CASE in.op = "ENV"
  <2>1. \E env : j = [i EXCEPT !.env = env]
    BY <1>4 DEF Perform
  <2> HIDE DEF j
  <2> QED
    BY <1>4, <2>1 DEF IsImage
<1>5. CASE in.op = "COPY"
  <2>1. \E files : j = [i EXCEPT !.files = files]
    BY <1>5 DEF Perform
  <2> HIDE DEF j
  <2> QED
    BY <1>5, <2>1 DEF IsImage
<1>6. CASE in.op = "ENTRYPOINT"
  <2>1. j = [i EXCEPT !.entrypoint = in.args]
    BY <1>6 DEF Perform
  <2> HIDE DEF j
  <2> QED
    BY <1>6, <2>1 DEF IsImage
<1>7. CASE in.op = "CMD"
  <2>1. j = [i EXCEPT !.cmd = in.args]
    BY <1>7 DEF Perform
  <2> HIDE DEF j
  <2> QED
    BY <1>7, <2>1 DEF IsImage
<1> QED
  BY <1>1, <1>2, <1>3, <1>4, <1>5, <1>6, <1>7

(* Images with a shell know the user root.                                 *)
RootKnown ==
    \A ref \in DOMAIN BaseImages : BaseImages[ref].shell => "root" \in BaseImages[ref].users

(* What a failure says of the image.                                       *)
FailsFor(p, i) ==
    /\ IsImage(i) /\ i.base \in DOMAIN BaseImages /\ i.failure \in Failures \cup {None}
    /\ i.failure \notin {"NoApt", "PermissionDenied"}
    /\ i.failure = "NoShell" => ~HasShell(i)
    /\ i.failure = "ImageOSNotSupported" => ~Supported(i)
    /\ i.failure = "Rejected" => i.base = p.base /\ PlatformMismatch(p.base)
    /\ i.failure = "Exit42" => ExitsWith42(p)
    /\ RootKnown /\ i.failure \in UserFailures \cup {"BlobUnknown"}
          => HasShell(i) /\ Supported(i)

LEMMA PerformNext ==
    ASSUME NEW p \in Patches, NEW s, ProgramLaid(p, s), NEW k \in Nat, k < Len(s),
           NEW i, NEW b, Made(p, s, k, i), i.failure = None
    PROVE  /\ FailsFor(p, Perform(i, s[k + 1], b))
           /\ Perform(i, s[k + 1], b).failure # "Rejected"
           /\ Perform(i, s[k + 1], b).failure = None
                 => Made(p, s, k + 1, Perform(i, s[k + 1], b))
<1> DEFINE c == CheckAt(p)
           n == k + 1
           in == s[n]
           j == Perform(i, in, b)
<1> SUFFICES FailsFor(p, j) /\ j.failure # "Rejected" /\ (j.failure = None => Made(p, s, n, j))
  OBVIOUS
<1>1. IsImage(i) /\ i.base \in DOMAIN BaseImages /\ p.base \in DOMAIN BaseImages
  BY BasesAssumption DEF Made
<1>2. c \in Nat /\ 5 <= c /\ c < Len(s) /\ Len(s) \in Nat /\ n \in 1..Len(s)
  BY SequenceFacts DEF ProgramLaid
<1>3. None \notin Failures
  BY NoneAssumption
<1> HIDE DEF c, n, in, j
<1>4. CASE n = 1
  <2>0. i.failure = None
    OBVIOUS
  <2>1. in = CheckPush
    BY <1>4 DEF ProgramLaid, in
  <2>2. j = Pushable(i, b)
    BY <2>1 DEF j, Perform, CheckPush
  <2>3. /\ Keeps(i, j)
        /\ j = i \/ j.failure \in {"InvalidTag", "PushDenied"}
    BY <1>1, <2>2, PushableImage
  <2>4. FailsFor(p, j) /\ j.failure # "Rejected"
    <3>1. j.failure \in {None, "InvalidTag", "PushDenied"} /\ IsImage(j) /\ j.base \in DOMAIN BaseImages
      BY <1>1, <2>0, <2>3 DEF Keeps
    <3> QED
      BY <1>3, <3>1 DEF FailsFor, Failures, UserFailures
  <2>5. Made(p, s, n, j)
    BY <1>1, <1>2, <1>4, <2>3 DEF Made, Keeps, c
  <2> QED
    BY <2>4, <2>5
<1>5. CASE n \in 2 .. c - 3
  <2>1. /\ in.op = "FROM" /\ in.image \in DOMAIN BaseImages
        /\ n = c - 3 => in.image = p.base
    <3>1. CASE n = c - 3
      BY <1>1, <3>1 DEF ProgramLaid, in, c, From
    <3>2. CASE n \in 2 .. c - 4
      BY <1>2, <3>2 DEF ProgramLaid, in, c
    <3> QED
      BY <1>2, <1>5, <3>1, <3>2
  <2>2. j = Pull(b, in.image)
    BY <2>1 DEF j, Perform
  <2>3. /\ IsImage(j) /\ j.base = in.image /\ j.users = BaseImages[in.image].users
        /\ j.failure \in {None, "PullDenied", "Unreachable", "NoPlatform"}
    BY <2>2, PullImage
  <2>4. FailsFor(p, j) /\ j.failure # "Rejected"
    BY <1>3, <2>1, <2>3 DEF FailsFor, Failures, UserFailures
  <2>5. Made(p, s, n, j)
    BY <1>2, <1>5, <2>1, <2>3 DEF Made, c
  <2> QED
    BY <2>4, <2>5
<1>6. CASE n \in {c - 2, c - 1}
  <2>1. in = IF n = c - 2 THEN Shell ELSE User("root")
    BY <1>2, <1>6 DEF ProgramLaid, in, c
  <2>2. in.op \in {"SHELL", "USER"}
    BY <2>1 DEF Shell, User
  <2>3. /\ IsImage(j) /\ j.base = i.base /\ j.users = i.users /\ j.failure = i.failure
        /\ in.op = "USER" => j.user = in.name
        /\ in.op # "USER" => j.user = i.user
    BY <1>1, <2>2, SettingImage DEF j
  <2>4. FailsFor(p, j) /\ j.failure # "Rejected"
    BY <1>1, <1>3, <2>3 DEF FailsFor, Failures, UserFailures
  <2>5. c - 2 <= k + 1 /\ k + 1 # c /\ ~(k + 1 >= c)
    BY <1>2, <1>6 DEF n
  <2>6. Made(p, s, n, j)
    BY <1>2, <2>3, <2>5, MadeNext DEF c, n, in
  <2> QED
    BY <2>4, <2>6
<1>7. CASE n = c
  <2> DEFINE check == [do |-> "check-os"]
             cs == <<check>>
  <2>1. in.op = "RUN" /\ in.commands = cs /\ in # GetentOf(p)
    <3>1. in = Run(cs)
      BY <1>7 DEF ProgramLaid, in, c
    <3>2. in.commands[1].do = "check-os"
      BY <3>1 DEF Run
    <3>3. GetentOf(p).commands[1].do = "getent"
      BY DEF GetentOf, Run
    <3> QED
      BY <3>1, <3>2, <3>3 DEF Run
  <2>2. j = RunAll(i, cs)
    BY <2>1 DEF j, Perform
  <2>3. Sequence(cs) /\ DOMAIN cs = {1} /\ cs[1].do = "check-os" /\ "check-os" \in AllCommands
    BY DEF Sequence, ToSet, AllCommands
  <2>4. i.user = "root"
    <3>1. c - 1 \in c - 1 .. k /\ s[c - 1] = User("root") /\ c - 1 = k
      BY <1>2, <1>7 DEF ProgramLaid, c, n
    <3>2. s[c - 1].op = "USER" /\ s[c - 1].name = "root"
      BY <3>1 DEF User
    <3>3. (c - 1) + 1 .. k = {}
      BY <1>2, <3>1
    <3> QED
      BY <3>1, <3>2, <3>3 DEF Made, c
  <2>5. BaseImages[p.base].users \subseteq i.users /\ i.base = p.base
    BY <1>2, <1>7 DEF Made, c, n
  <2>6. "RUN" # "USER" /\ "check-os" \notin RootCommands
    BY DEF RootCommands
  <2> HIDE DEF cs
  <2>7. /\ Keeps(i, j)
        /\ j.failure \in EffectFailures \cup {None, "NoShell"}
        /\ j.failure = "NoShell" <=> ~HasShell(i)
        /\ j.failure # "PermissionDenied"
        /\ j.failure \in {"ImageOSNotSupported", "NoApt"} => ~Supported(i)
        /\ j.failure # "NoApt"
        /\ j.failure \in UserFailures => i.user \notin i.users
        /\ j.failure = None => Supported(i)
    <3>1. \A m \in DOMAIN cs : cs[m].do \in AllCommands /\ cs[m].do = "check-os"
      BY <2>3
    <3> QED
      BY <1>1, <2>2, <2>3, <2>4, <3>1, RunImage
  <2>8. HasShell(j) = HasShell(i) /\ Supported(j) = Supported(i)
    BY <2>7 DEF Keeps, HasShell, Supported
  <2>9. FailsFor(p, j) /\ j.failure # "Rejected"
    <3>1. j.base \in DOMAIN BaseImages
      BY <1>1, <2>7 DEF Keeps
    <3>2. RootKnown /\ HasShell(i) => i.user \in i.users
      BY <1>1, <2>4, <2>5 DEF RootKnown, HasShell
    <3>3. j.failure \notin UserFailures \cup {"BlobUnknown"} \/ ~RootKnown
      BY <1>3, <2>7, <3>2 DEF EffectFailures, UserFailures, Failures
    <3> QED
      BY <1>3, <2>7, <2>8, <3>1, <3>3 DEF FailsFor, Keeps, EffectFailures, UserFailures, Failures
  <2>10. ASSUME j.failure = None
         PROVE  Made(p, s, n, j)
    <3>1. HasShell(j) /\ Supported(j)
      BY <1>3, <2>7, <2>8, <2>10 DEF Failures
    <3> QED
      BY <1>2, <1>7, <2>1, <2>6, <2>7, <3>1, MadeNext DEF c, n, in, Keeps
  <2> QED
    BY <2>9, <2>10
<1>8. ASSUME n > c
      PROVE  /\ HasShell(i) /\ Supported(i) /\ i.base = p.base
             /\ c - 2 <= k + 1 /\ k + 1 # c
  <2>1. k >= c /\ k >= c - 3 /\ c - 2 <= k + 1 /\ k + 1 # c
    BY <1>2, <1>8 DEF n
  <2> QED
    BY <2>1 DEF Made, c
<1>9. CASE n \in c + 1 .. Len(s) - 1 /\ in.op = "RUN"
  <2> DEFINE cs == in.commands
  <2>0. n > c
    BY <1>2, <1>9
  <2>1. /\ Sequence(cs)
        /\ \A m \in DOMAIN cs : cs[m].do \in AllCommands
        /\ NeedsRoot(in) => \A m \in c + 1 .. n - 1 : s[m].op # "USER"
    <3>1. /\ OfBody(p, in)
          /\ NeedsRoot(in) => \A m \in c + 1 .. n - 1 : s[m].op # "USER"
      BY <1>9 DEF ProgramLaid, in, c
    <3> QED
      BY <1>9, <3>1 DEF OfBody, AllCommands
  <2>2. j = RunAll(i, cs)
    BY <1>9 DEF j, Perform
  <2>3. NeedsRoot(in) => i.user = "root"
    <3> SUFFICES ASSUME NeedsRoot(in)
                 PROVE  i.user = "root"
      OBVIOUS
    <3>1. \A m \in c + 1 .. n - 1 : s[m].op # "USER"
      BY <2>1
    <3>2. /\ s[c - 1] = User("root") /\ s[c] = Run(<<[do |-> "check-os"]>>)
      BY DEF ProgramLaid, c
    <3>3. s[c - 1].op = "USER" /\ s[c - 1].name = "root" /\ s[c].op # "USER"
      BY <3>2 DEF User, Run
    <3>4. c - 1 \in c - 1 .. k /\ \A m \in (c - 1) + 1 .. k : m = c \/ m \in c + 1 .. n - 1
      BY <1>2, <2>0 DEF n
    <3> QED
      BY <3>1, <3>3, <3>4 DEF Made, c
  <2>4. in = GetentOf(p) => cs[1].do = "getent" /\ cs[1].name = p.runAsUser /\ 1 \in DOMAIN cs
    BY DEF GetentOf, Run
  <2>5. (\E m \in DOMAIN cs : cs[m].do \in RootCommands) => NeedsRoot(in)
    BY <1>9 DEF NeedsRoot
  <2>6. HasShell(i) /\ Supported(i)
    BY <1>8, <2>0
  <2> HIDE DEF cs
  <2>7. /\ Keeps(i, j)
        /\ j.failure \in EffectFailures \cup {None, "NoShell"}
        /\ j.failure # "NoShell"
        /\ j.failure # "PermissionDenied"
        /\ j.failure \notin {"ImageOSNotSupported", "NoApt"}
        /\ j.failure = None => \A m \in DOMAIN cs :
              cs[m].do = "getent" => cs[m].name \in j.users
    BY <1>1, <2>1, <2>2, <2>3, <2>5, <2>6, RunImage
  <2>8. HasShell(j) /\ Supported(j) /\ j.base \in DOMAIN BaseImages
    BY <1>1, <2>6, <2>7 DEF Keeps, HasShell, Supported
  <2>9. FailsFor(p, j) /\ j.failure # "Rejected"
    BY <1>3, <2>7, <2>8 DEF FailsFor, Keeps, EffectFailures, UserFailures, Failures
  <2>10. ASSUME j.failure = None
         PROVE  Made(p, s, n, j)
    <3>1. in = GetentOf(p) => p.runAsUser \in j.users
      BY <2>4, <2>7, <2>10
    <3>2. in.op # "USER" /\ c - 2 <= k + 1 /\ k + 1 # c
      BY <1>8, <1>9, <2>0
    <3> QED
      BY <1>2, <2>7, <3>1, <3>2, MadeNext DEF c, n, in, Keeps
  <2> QED
    BY <2>9, <2>10
<1>10. CASE n \in c + 1 .. Len(s) - 1 /\ in.op # "RUN"
  <2>0. n > c
    BY <1>2, <1>10
  <2>1. in.op \in BodyOps /\ in # GetentOf(p)
    <3>1. OfBody(p, in)
      BY <1>10 DEF ProgramLaid, in, c
    <3> QED
      BY <1>10, <3>1 DEF OfBody, GetentOf, Run
  <2>2. in.op \in {"COPY", "ENV", "WORKDIR", "ENTRYPOINT", "CMD", "SHELL", "USER"}
    BY <1>10, <2>1 DEF BodyOps
  <2>3. /\ IsImage(j) /\ j.base = i.base /\ j.users = i.users /\ j.failure = i.failure
        /\ in.op = "USER" => j.user = in.name
        /\ in.op # "USER" => j.user = i.user
    BY <1>1, <2>2, SettingImage DEF j
  <2>4. FailsFor(p, j) /\ j.failure # "Rejected"
    BY <1>1, <1>3, <2>3 DEF FailsFor, Failures, UserFailures
  <2>5. c - 2 <= k + 1 /\ k + 1 # c
    BY <1>8, <2>0
  <2>6. Made(p, s, n, j)
    BY <1>2, <2>1, <2>3, <2>5, MadeNext DEF c, n, in
  <2> QED
    BY <2>4, <2>6
<1>11. CASE n = Len(s)
  <2>0. n > c
    BY <1>2, <1>11
  <2>1. in = Push
    BY <1>11 DEF ProgramLaid, in
  <2>2. in.op = "PUSH" /\ in # GetentOf(p)
    BY <2>1 DEF Push, GetentOf, Run
  <2>3. j = Pushed(i, b)
    BY <2>2 DEF j, Perform
  <2>4. /\ Keeps(i, j)
        /\ j = i \/ j.failure = "BlobUnknown"
    BY <1>1, <2>3, PushedImage
  <2>5. i.failure = None
    OBVIOUS
  <2>6. HasShell(j) /\ Supported(j) /\ j.base \in DOMAIN BaseImages /\ IsImage(j)
    BY <1>1, <1>8, <2>0, <2>4 DEF Keeps, HasShell, Supported
  <2>7. j.failure \in {None, "BlobUnknown"}
    BY <2>4, <2>5
  <2>8. FailsFor(p, j) /\ j.failure # "Rejected"
    BY <1>3, <2>6, <2>7 DEF FailsFor, UserFailures, Failures
  <2>9. in.op # "USER" /\ c - 2 <= k + 1 /\ k + 1 # c
    BY <1>8, <2>0, <2>2
  <2>10. Made(p, s, n, j)
    BY <1>2, <2>2, <2>4, <2>9, MadeNext DEF c, n, in, Keeps
  <2> QED
    BY <2>8, <2>10
<1>12. \/ n = 1 \/ n \in 2 .. c - 3 \/ n \in {c - 2, c - 1} \/ n = c
       \/ n \in c + 1 .. Len(s) - 1 \/ n = Len(s)
  BY <1>2
<1> QED
  BY <1>4, <1>5, <1>6, <1>7, <1>9, <1>10, <1>11, <1>12
-----------------------------------------------------------------------------
(* The inductive invariant.  A build that has not failed has executed some *)
(* first instructions of its program; one that has failed says something   *)
(* true of its image, and its log says it too, beside what retries and the *)
(* user's own commands wrote.                                              *)

SpokenWords(p) == UNION {p.shell[n].run.words : n \in DOMAIN p.shell}

Spoken(p, why) ==
    {"network"} \cup SpokenWords(p) \cup PhrasesOf(why)
    \cup (IF why = "CommandFailed" THEN {"not-found"} ELSE {})

IdleInv ==
    patch = None => job = None /\ todo = << >> /\ img = None /\ log = {}

RunningInv ==
    patch # None =>
        /\ patch \in Patches
        /\ job = IF img.failure = "Rejected" THEN None ELSE JobOf(patch)
        /\ FailsFor(patch, img)
        /\ img.failure # None => todo = << >>

ProgressInv ==
    patch # None /\ img.failure = None =>
        \E s \in Programs(patch) : \E k \in 0 .. Len(s) :
            todo = SubSeq(s, k + 1, Len(s)) /\ Made(patch, s, k, img)

LogInv ==
    patch # None => /\ PhrasesOf(img.failure) \subseteq log
                    /\ log \subseteq Spoken(patch, img.failure)

StoredInv ==
    stored # None =>
        /\ stored.image.failure = None
        /\ stored.image.base \in Bases
        /\ stored.hash.base = stored.image.base
        /\ BuildPlatform \in BaseImages[stored.image.base].platforms

BuildInv == IdleInv /\ RunningInv /\ ProgressInv /\ LogInv /\ StoredInv
-----------------------------------------------------------------------------
(* The steps.                                                              *)

LEMMA Remaining ==
    ASSUME NEW s, Sequence(s), NEW k \in 0 .. Len(s), NEW t,
           t = SubSeq(s, k + 1, Len(s)), t # << >>
    PROVE  /\ k \in Nat /\ k < Len(s)
           /\ Head(t) = s[k + 1]
           /\ Tail(t) = SubSeq(s, (k + 1) + 1, Len(s))
<1>1. Len(s) \in Nat /\ s \in Seq(ToSet(s)) /\ k \in Nat
  BY SequenceFacts DEF Sequence
<1>2. k < Len(s)
  BY <1>1
<1>3. /\ t = [n \in 1 .. Len(s) - k |-> s[n + k]]
      /\ Len(t) = Len(s) - k
  BY <1>1
<1>4. Head(t) = s[k + 1]
  BY <1>1, <1>2, <1>3
<1>5. Tail(t) = SubSeq(s, (k + 1) + 1, Len(s))
  BY <1>1, <1>2, <1>3
<1> QED
  BY <1>1, <1>2, <1>4, <1>5

LEMMA OpeningOps ==
    ASSUME NEW p, NEW s, ProgramLaid(p, s), NEW n \in 1 .. CheckAt(p) - 1
    PROVE  s[n].op \in {"CHECK-PUSH", "FROM", "SHELL", "USER"}
<1> DEFINE c == CheckAt(p)
<1>1. c \in Nat
  BY DEF ProgramLaid
<1>2. n = 1 \/ n \in 2 .. c - 4 \/ n = c - 3 \/ n = c - 2 \/ n = c - 1
  BY <1>1
<1>3. CASE n = 1
  <2>1. s[n] = CheckPush
    BY <1>3 DEF ProgramLaid
  <2> QED
    BY <2>1 DEF CheckPush
<1>4. CASE n \in 2 .. c - 4
  BY <1>4 DEF ProgramLaid
<1>5. CASE n = c - 3
  <2>1. s[n] = From(p.base, None)
    BY <1>5 DEF ProgramLaid
  <2> QED
    BY <2>1 DEF From
<1>6. CASE n = c - 2
  <2>1. s[n] = Shell
    BY <1>6 DEF ProgramLaid
  <2> QED
    BY <2>1 DEF Shell
<1>7. CASE n = c - 1
  <2>1. s[n] = User("root")
    BY <1>7 DEF ProgramLaid
  <2> QED
    BY <2>1 DEF User
<1> QED
  BY <1>2, <1>3, <1>4, <1>5, <1>6, <1>7

SpokenSteps(p) == {p.shell[n].run : n \in DOMAIN p.shell}

(* The steps of a program are the user's, and only they are repeated in    *)
(* the log.                                                                *)
LEMMA EchoSpoken ==
    ASSUME NEW p \in Patches, NEW s, ProgramLaid(p, s), NEW n \in 1 .. Len(s)
    PROVE  /\ StepsOf(s[n]) \subseteq SpokenSteps(p)
           /\ Echo(s[n]) \subseteq SpokenWords(p)
<1> DEFINE c == CheckAt(p)
           in == s[n]
<1> SUFFICES StepsOf(in) \subseteq SpokenSteps(p)
  BY DEF Echo, SpokenWords, SpokenSteps
<1>0. Len(s) \in Nat /\ c \in Nat
  BY SequenceFacts DEF ProgramLaid
<1>1. ASSUME in.op # "RUN"
      PROVE  StepsOf(in) = {}
  BY <1>1 DEF StepsOf, Commands
<1>2. CASE n < c
  <2>1. in.op \in {"CHECK-PUSH", "FROM", "SHELL", "USER"}
    <3>1. n \in 1 .. c - 1
      BY <1>0, <1>2
    <3> QED
      BY <3>1, OpeningOps
  <2> QED
    BY <1>1, <2>1
<1>3. CASE n = c
  <2>1. in = Run(<<[do |-> "check-os"]>>)
    BY <1>3 DEF ProgramLaid
  <2>2. \A d \in Commands(in) : d.do = "check-os"
    BY <2>1 DEF Commands, Run, ToSet
  <2> HIDE DEF in
  <2> QED
    BY <2>2 DEF StepsOf
<1>4. CASE n \in c + 1 .. Len(s) - 1
  <2>1. OfBody(p, in)
    BY <1>4 DEF ProgramLaid
  <2>2. CASE in.op = "RUN"
    <3>1. ASSUME NEW d \in Commands(in), d.do = "step"
          PROVE  d.run \in SpokenSteps(p)
      <4>1. PICK m \in DOMAIN in.commands : d = in.commands[m]
        BY <2>2 DEF Commands, ToSet
      <4>2. PICK l \in DOMAIN p.shell : d.run = p.shell[l].run
        BY <2>1, <2>2, <3>1, <4>1 DEF OfBody
      <4> QED
        BY <4>2 DEF SpokenSteps
    <3> HIDE DEF in
    <3> QED
      BY <3>1 DEF StepsOf
  <2> QED
    BY <1>1, <2>2
<1>5. CASE n = Len(s)
  <2>1. in.op = "PUSH"
    BY <1>5 DEF ProgramLaid, Push
  <2> QED
    BY <1>1, <2>1
<1> QED
  BY <1>0, <1>2, <1>3, <1>4, <1>5

LEMMA InitBuildInv ==
    Init => BuildInv
  BY NoneAssumption DEF Init, BuildInv, IdleInv, RunningInv, ProgressInv, LogInv, StoredInv

LEMMA RejectBuildInv ==
    ASSUME BuildInv, NEW p \in Patches, patch = None, RejectBuild(p)
    PROVE  BuildInv'
<1> USE DEF BuildInv
<1>0. /\ patch' = p /\ img' = Failed(NewStage(p.base), "Rejected")
      /\ job' = job /\ todo' = todo /\ log' = log /\ stored' = stored
      /\ job = None /\ todo = << >> /\ log = {} /\ p # None /\ PlatformMismatch(p.base)
  BY NoneAssumption DEF RejectBuild, IdleInv
<1>1. /\ IsImage(img') /\ img'.base = p.base /\ img'.failure = "Rejected"
  BY <1>0, NewStageImage, FailedImage DEF Keeps
<1>2. p.base \in DOMAIN BaseImages /\ None # "Rejected"
  BY BasesAssumption, NoneAssumption DEF Failures
<1>3. FailsFor(patch', img')
  BY <1>0, <1>1, <1>2 DEF FailsFor, Failures, UserFailures
<1>4. IdleInv' /\ RunningInv' /\ ProgressInv'
  BY <1>0, <1>1, <1>2, <1>3 DEF IdleInv, RunningInv, ProgressInv
<1>5. PhrasesOf(img'.failure) = {}
  BY <1>1 DEF PhrasesOf
<1>6. LogInv'
  BY <1>0, <1>5 DEF LogInv
<1>7. StoredInv'
  BY <1>0 DEF StoredInv
<1> QED
  BY <1>4, <1>6, <1>7

(* A failure that is None is no failure.                                   *)
LEMMA NoPhrases ==
    PhrasesOf(None) = {} /\ None # "CommandFailed" /\ None # "Rejected"
  BY NoneAssumption DEF PhrasesOf, Failures

LEMMA CreateBuildInv ==
    ASSUME BuildInv, NEW p \in Patches, patch = None, CreateBuild(p)
    PROVE  BuildInv'
<1> USE DEF BuildInv
<1>0. /\ patch' = p /\ img' = NewStage(p.base) /\ job' = JobOf(p)
      /\ log' = {} /\ stored' = stored /\ p # None /\ todo' \in Programs(p)
  BY NoneAssumption DEF CreateBuild, Programs
<1>1. /\ IsImage(img') /\ img'.base = p.base /\ img'.failure = None
  BY <1>0, NewStageImage
<1>2. p.base \in DOMAIN BaseImages
  BY BasesAssumption
<1>3. FailsFor(patch', img')
  BY <1>0, <1>1, <1>2, NoneAssumption DEF FailsFor, Failures, UserFailures
<1>4. IdleInv' /\ RunningInv'
  BY <1>0, <1>1, <1>3, NoPhrases DEF IdleInv, RunningInv
<1>5. ProgressInv'
  <2> DEFINE s == todo'
  <2>1. ProgramLaid(p, s)
    BY <1>0, ProgramLayout
  <2>2. /\ Sequence(s) /\ CheckAt(p) \in Nat /\ 5 <= CheckAt(p)
    BY <2>1 DEF ProgramLaid
  <2>3. Len(s) \in Nat /\ s = SubSeq(s, 0 + 1, Len(s)) /\ 0 \in 0 .. Len(s)
    <3>1. s = [n \in 1 .. Len(s) |-> s[n]] /\ Len(s) \in Nat /\ s \in Seq(ToSet(s))
      BY <2>2, SequenceFacts DEF Sequence
    <3> QED
      BY <3>1
  <2>4. Made(p, s, 0, img')
    BY <1>1, <1>2, <2>2 DEF Made
  <2> HIDE DEF s
  <2>5. \E k \in 0 .. Len(s) : s = SubSeq(s, k + 1, Len(s)) /\ Made(p, s, k, img')
    BY <2>3, <2>4
  <2>6. s \in Programs(p) /\ s = todo'
    BY <1>0 DEF s
  <2> QED
    BY <1>0, <2>5, <2>6 DEF ProgressInv
<1>6. LogInv'
  BY <1>0, <1>1, NoPhrases DEF LogInv
<1>7. StoredInv'
  BY <1>0 DEF StoredInv
<1> QED
  BY <1>4, <1>5, <1>6, <1>7

(* While instructions are left, no one of them has failed.                 *)
LEMMA Underway ==
    ASSUME BuildInv, todo # << >>
    PROVE  /\ patch \in Patches /\ patch # None /\ img.failure = None
           /\ job = JobOf(patch)
           /\ log \subseteq {"network"} \cup SpokenWords(patch)
           /\ IsImage(img) /\ img.base \in DOMAIN BaseImages
           /\ Echo(Head(todo)) \subseteq SpokenWords(patch)
           /\ StepsOf(Head(todo)) \subseteq SpokenSteps(patch)
           /\ \E s \in Programs(patch), k \in Nat :
                 /\ k < Len(s) /\ ProgramLaid(patch, s)
                 /\ Head(todo) = s[k + 1]
                 /\ Tail(todo) = SubSeq(s, (k + 1) + 1, Len(s))
                 /\ Made(patch, s, k, img)
<1>1. /\ patch \in Patches /\ patch # None /\ img.failure = None
      /\ job = JobOf(patch) /\ FailsFor(patch, img)
  BY NoPhrases DEF BuildInv, IdleInv, RunningInv
<1>2. log \subseteq {"network"} \cup SpokenWords(patch)
  BY <1>1, NoPhrases DEF BuildInv, LogInv, Spoken
<1>3. PICK s \in Programs(patch) : \E k \in 0 .. Len(s) :
         todo = SubSeq(s, k + 1, Len(s)) /\ Made(patch, s, k, img)
  BY <1>1 DEF BuildInv, ProgressInv
<1>4. PICK k \in 0 .. Len(s) : todo = SubSeq(s, k + 1, Len(s)) /\ Made(patch, s, k, img)
  BY <1>3
<1>5. ProgramLaid(patch, s)
  BY <1>1, ProgramLayout
<1>6. Sequence(s)
  BY <1>5 DEF ProgramLaid
<1>7. /\ k \in Nat /\ k < Len(s)
      /\ Head(todo) = s[k + 1]
      /\ Tail(todo) = SubSeq(s, (k + 1) + 1, Len(s))
  BY <1>4, <1>6, Remaining
<1>8. k + 1 \in 1 .. Len(s)
  BY <1>6, <1>7, SequenceFacts
<1>9. /\ Echo(Head(todo)) \subseteq SpokenWords(patch)
      /\ StepsOf(Head(todo)) \subseteq SpokenSteps(patch)
  BY <1>1, <1>5, <1>7, <1>8, EchoSpoken
<1> QED
  BY <1>1, <1>2, <1>4, <1>5, <1>7, <1>9 DEF FailsFor

LEMMA ExecuteInv ==
    ASSUME BuildInv, Execute
    PROVE  BuildInv'
<1>0. /\ todo # << >> /\ img' = Perform(img, Head(todo), job)
      /\ todo' = IF img'.failure = None THEN Tail(todo) ELSE << >>
      /\ patch' = patch /\ job' = job /\ stored' = stored
  BY DEF Execute
<1>1. /\ patch \in Patches /\ patch # None /\ img.failure = None
      /\ job = JobOf(patch)
      /\ log \subseteq {"network"} \cup SpokenWords(patch)
      /\ Echo(Head(todo)) \subseteq SpokenWords(patch)
  BY <1>0, Underway
<1>2. PICK s \in Programs(patch), k \in Nat :
         /\ k < Len(s) /\ ProgramLaid(patch, s)
         /\ Head(todo) = s[k + 1]
         /\ Tail(todo) = SubSeq(s, (k + 1) + 1, Len(s))
         /\ Made(patch, s, k, img)
  BY <1>0, Underway
<1>3. /\ FailsFor(patch, img')
      /\ img'.failure # "Rejected"
      /\ img'.failure = None => Made(patch, s, k + 1, img')
  BY <1>0, <1>1, <1>2, PerformNext
<1>4. k + 1 \in 0 .. Len(s)
  <2>1. Len(s) \in Nat
    BY <1>2, SequenceFacts DEF ProgramLaid
  <2> QED
    BY <1>2, <2>1
<1>6. IdleInv' /\ RunningInv'
  BY <1>0, <1>1, <1>3 DEF IdleInv, RunningInv
<1>7. ProgressInv'
  BY <1>0, <1>2, <1>3, <1>4 DEF ProgressInv
<1>8. LogInv'
  <2>1. PICK kept \in {{}, log}, noise \in Noise(Head(todo)) :
           log' = kept \cup noise \cup Echo(Head(todo)) \cup PhrasesOf(img'.failure)
    BY DEF Execute
  <2>2. noise \subseteq {"network"}
    BY DEF Noise
  <2> QED
    BY <1>0, <1>1, <2>1, <2>2 DEF LogInv, Spoken
<1>9. StoredInv'
  BY <1>0 DEF BuildInv, StoredInv
<1> QED
  BY <1>6, <1>7, <1>8, <1>9 DEF BuildInv

(* A command of a RUN fails for a reason of its own.                       *)
LEMMA CommandFailsInv ==
    ASSUME BuildInv, NEW why \in {"CommandFailed", "NetworkFailed", "Exit42"}, NEW lines,
           lines \subseteq IF why = "CommandFailed" THEN {"not-found"} ELSE {},
           CommandFails(why, lines)
    PROVE  BuildInv'
<1>0. /\ todo # << >> /\ img' = Failed(img, why) /\ todo' = << >>
      /\ patch' = patch /\ job' = job /\ stored' = stored
  BY DEF CommandFails
<1>1. /\ patch \in Patches /\ patch # None
      /\ job = JobOf(patch)
      /\ log \subseteq {"network"} \cup SpokenWords(patch)
      /\ IsImage(img) /\ img.base \in DOMAIN BaseImages
      /\ Echo(Head(todo)) \subseteq SpokenWords(patch)
      /\ StepsOf(Head(todo)) \subseteq SpokenSteps(patch)
  BY <1>0, Underway
<1>2. IsImage(img') /\ img'.failure = why /\ img'.base = img.base
  BY <1>0, <1>1, FailedImage DEF Keeps
<1>7. why = "Exit42" => ExitsWith42(patch)
  BY <1>1 DEF CommandFails, SpokenSteps, ExitsWith42
<1>3. FailsFor(patch, img') /\ img'.failure # None /\ img'.failure # "Rejected"
  BY <1>1, <1>2, <1>7, NoneAssumption DEF FailsFor, Failures, UserFailures
<1>4. IdleInv' /\ RunningInv' /\ ProgressInv'
  BY <1>0, <1>1, <1>3 DEF IdleInv, RunningInv, ProgressInv
<1>5. LogInv'
  <2>1. PICK kept \in {{}, log} :
           log' = kept \cup lines \cup Echo(Head(todo)) \cup PhrasesOf(why)
    BY DEF CommandFails
  <2> QED
    BY <1>0, <1>1, <1>2, <2>1 DEF LogInv, Spoken
<1>6. StoredInv'
  BY <1>0 DEF BuildInv, StoredInv
<1> QED
  BY <1>4, <1>5, <1>6 DEF BuildInv

(* A build that succeeded has executed its whole program.                  *)
LEMMA AllMade ==
    ASSUME BuildInv, Built
    PROVE  /\ patch \in Patches /\ IsImage(img) /\ img.failure = None
           /\ img.base = patch.base /\ HasShell(img) /\ Supported(img)
           /\ \E s \in Programs(patch) :
                 ProgramLaid(patch, s) /\ Made(patch, s, Len(s), img)
<1>1. /\ patch \in Patches /\ patch # None /\ img.failure = None /\ todo = << >>
  BY DEF Built, Ended, BuildInv, RunningInv
<1>2. PICK s \in Programs(patch) : \E k \in 0 .. Len(s) :
         todo = SubSeq(s, k + 1, Len(s)) /\ Made(patch, s, k, img)
  BY <1>1 DEF BuildInv, ProgressInv
<1>3. PICK k \in 0 .. Len(s) : todo = SubSeq(s, k + 1, Len(s)) /\ Made(patch, s, k, img)
  BY <1>2
<1>4. ProgramLaid(patch, s)
  BY <1>1, ProgramLayout
<1>5. /\ Sequence(s) /\ CheckAt(patch) \in Nat /\ CheckAt(patch) < Len(s)
      /\ Len(s) \in Nat
  BY <1>4, SequenceFacts DEF ProgramLaid
<1>6. k = Len(s)
  <2>1. s \in Seq(ToSet(s)) /\ k \in Nat /\ k <= Len(s)
    BY <1>5 DEF Sequence
  <2>2. Len(SubSeq(s, k + 1, Len(s))) = Len(s) - k
    BY <1>5, <2>1
  <2>3. Len(todo) = 0
    BY <1>1
  <2> QED
    BY <1>3, <1>5, <2>1, <2>2, <2>3
<1>7. Made(patch, s, Len(s), img) /\ Len(s) >= CheckAt(patch) /\ Len(s) >= CheckAt(patch) - 3
  BY <1>3, <1>5, <1>6
<1> QED
  BY <1>1, <1>4, <1>7 DEF Made

LEMMA FinishInv ==
    ASSUME BuildInv, Finish
    PROVE  BuildInv'
<1>0. /\ Ended /\ patch' = None /\ job' = None /\ img' = None /\ log' = {}
      /\ todo' = todo
      /\ \/ stored' = stored
         \/ Built /\ stored' = [hash |-> ComputeSpecHash(patch), image |-> Snapshot(img, job)]
  BY DEF Finish
<1>1. IdleInv' /\ RunningInv' /\ ProgressInv' /\ LogInv'
  BY <1>0 DEF IdleInv, RunningInv, ProgressInv, LogInv, Ended
<1>2. CASE stored' = stored
  BY <1>1, <1>2 DEF BuildInv, StoredInv
<1>3. CASE Built /\ stored' = [hash  |-> ComputeSpecHash(patch),
                              image |-> Snapshot(img, job)]
  <2>1. /\ patch \in Patches /\ IsImage(img) /\ img.failure = None
        /\ img.base = patch.base /\ HasShell(img)
    BY <1>3, AllMade
  <2>2. Snapshot(img, job).base = img.base /\ Snapshot(img, job).failure = None
    BY <2>1 DEF Snapshot, IsImage
  <2>3. ComputeSpecHash(patch).base = patch.base
    BY DEF ComputeSpecHash
  <2>4. StoredInv'
    BY <1>3, <2>1, <2>2, <2>3 DEF StoredInv, Bases, HasShell
  <2> QED
    BY <1>1, <2>4 DEF BuildInv
<1> QED
  BY <1>0, <1>2, <1>3

(* The inductive invariant is one.                                         *)
LEMMA BuildInvariance ==
    Spec => []BuildInv
<1>1. BuildInv /\ [Next]_vars => BuildInv'
  <2> SUFFICES ASSUME BuildInv, [Next]_vars
               PROVE  BuildInv'
    OBVIOUS
  <2>1. CASE UNCHANGED vars
    BY <2>1 DEF vars, BuildInv, IdleInv, RunningInv, ProgressInv, LogInv, StoredInv
  <2>2. CASE patch = None /\ \E p \in Patches : RejectBuild(p) \/ CreateBuild(p)
    BY <2>2, RejectBuildInv, CreateBuildInv
  <2>3. CASE Execute
    BY <2>3, ExecuteInv
  <2>4. CASE \E lines \in {{}, {"not-found"}} : CommandFails("CommandFailed", lines)
    BY <2>4, CommandFailsInv
  <2>5. CASE \E why \in {"NetworkFailed", "Exit42"} : CommandFails(why, {})
    BY <2>5, CommandFailsInv
  <2>6. CASE Finish
    BY <2>6, FinishInv
  <2> QED
    BY <2>1, <2>2, <2>3, <2>4, <2>5, <2>6 DEF Next
<1> QED
  BY <1>1, InitBuildInv, PTL DEF Spec

-----------------------------------------------------------------------------
(* The theorems.                                                           *)

LEMMA InstructionOps ==
    ASSUME NEW p \in Patches, NEW s, ProgramLaid(p, s), NEW n \in 1 .. Len(s)
    PROVE  s[n].op \in {"FROM", "SHELL", "USER", "WORKDIR", "ENV", "COPY", "RUN",
                       "ENTRYPOINT", "CMD", "CHECK-PUSH", "PUSH"}
<1> DEFINE c == CheckAt(p)
<1>1. Len(s) \in Nat /\ c \in Nat
  BY SequenceFacts DEF ProgramLaid
<1>2. n \in 1 .. c - 1 \/ n = c \/ n \in c + 1 .. Len(s) - 1 \/ n = Len(s)
  BY <1>1
<1>3. CASE n \in 1 .. c - 1
  BY <1>3, OpeningOps
<1>4. CASE n \in c + 1 .. Len(s) - 1
  <2>1. OfBody(p, s[n])
    BY <1>4 DEF ProgramLaid
  <2> QED
    BY <2>1 DEF OfBody, BodyOps
<1>5. CASE n = c \/ n = Len(s)
  <2>1. s[n] = Run(<<[do |-> "check-os"]>>) \/ s[n] = Push
    BY <1>5 DEF ProgramLaid
  <2> QED
    BY <2>1 DEF Run, Push
<1> QED
  BY <1>2, <1>3, <1>4, <1>5

LEMMA TypesKept ==
    ASSUME BuildInv
    PROVE  TypeOK
<1>1. patch \in Patches \cup {None}
  BY DEF BuildInv, RunningInv
<1>2. job # None => patch # None /\ job.destinations # << >>
  <2> SUFFICES ASSUME job # None
               PROVE  patch # None /\ job.destinations # << >>
    OBVIOUS
  <2>1. patch # None /\ job = JobOf(patch)
    BY DEF BuildInv, IdleInv, RunningInv
  <2>2. JobOf(patch).destinations # << >>
    BY DEF JobOf
  <2> QED
    BY <2>1, <2>2
<1>3. \A n \in DOMAIN todo :
         todo[n].op \in {"FROM", "SHELL", "USER", "WORKDIR", "ENV", "COPY", "RUN",
                        "ENTRYPOINT", "CMD", "CHECK-PUSH", "PUSH"}
  <2>1. CASE todo = << >>
    BY <2>1
  <2>2. CASE todo # << >>
    <3>1. patch \in Patches /\ patch # None /\ img.failure = None
      BY <2>2, Underway
    <3>2. PICK s \in Programs(patch) : \E k \in 0 .. Len(s) :
             todo = SubSeq(s, k + 1, Len(s)) /\ Made(patch, s, k, img)
      BY <3>1 DEF BuildInv, ProgressInv
    <3>3. PICK k \in 0 .. Len(s) : todo = SubSeq(s, k + 1, Len(s))
      BY <3>2
    <3>4. ProgramLaid(patch, s)
      BY <3>1, ProgramLayout
    <3>5. Len(s) \in Nat /\ s \in Seq(ToSet(s)) /\ k \in Nat
      BY <3>4, SequenceFacts DEF ProgramLaid, Sequence
    <3>6. \A n \in DOMAIN todo : n + k \in 1 .. Len(s) /\ todo[n] = s[n + k]
      BY <3>3, <3>5
    <3> QED
      BY <3>1, <3>4, <3>6, InstructionOps
  <2> QED
    BY <2>1, <2>2
<1>4. img # None => img.failure \in Failures \cup {None} /\ img.base \in DOMAIN BaseImages
  BY DEF BuildInv, IdleInv, RunningInv, FailsFor
<1>5. log \subseteq Phrases
  <2>1. CASE patch = None
    BY <2>1 DEF BuildInv, IdleInv
  <2>2. CASE patch # None
    <3>1. patch \in Patches /\ log \subseteq Spoken(patch, img.failure)
      BY <2>2 DEF BuildInv, RunningInv, LogInv
    <3>2. SpokenWords(patch) \subseteq Phrases
      BY <3>1, SpecsAssumption DEF SpokenWords
    <3>3. PhrasesOf(img.failure) \subseteq Phrases
      BY DEF PhrasesOf, Phrases
    <3> QED
      BY <3>1, <3>2, <3>3 DEF Spoken, Phrases
  <2> QED
    BY <2>1, <2>2
<1>6. stored # None => stored.image.failure = None /\ stored.image.base \in Bases
  BY DEF BuildInv, StoredInv
<1> QED
  BY <1>1, <1>2, <1>3, <1>4, <1>5, <1>6 DEF TypeOK

(* Specs, instructions, images and logs keep to their types, for lists of  *)
(* every length in the specs (GenerateDockerfile, constructJob).           *)
THEOREM DockerBuildTypeCorrect ==
    Spec => []TypeOK
  BY BuildInvariance, TypesKept, PTL

LEMMA PermittedKept ==
    ASSUME BuildInv
    PROVE  SystemStepsPermitted
  BY DEF BuildInv, IdleInv, RunningInv, FailsFor, SystemStepsPermitted

(* No step the controller adds is refused for lack of root: the USER root  *)
(* before the check of the base image is still in force wherever a command *)
(* changes the system (imagepatch_controller.go:966-975).                  *)
THEOREM SystemStepsAreRoot ==
    Spec => []SystemStepsPermitted
  BY BuildInvariance, PermittedKept, PTL

LEMMA RequestedKept ==
    ASSUME BuildInv
    PROVE  RunsAsRequested
<1> SUFFICES ASSUME Built, patch.runAsUser # None
             PROVE  img.user = patch.runAsUser /\ img.user \in img.users
  BY DEF RunsAsRequested
<1>1. PICK s \in Programs(patch) : ProgramLaid(patch, s) /\ Made(patch, s, Len(s), img)
  BY AllMade
<1>2. Len(s) \in Nat /\ CheckAt(patch) \in Nat
  BY <1>1, SequenceFacts DEF ProgramLaid
<1>3. PICK g \in CheckAt(patch) + 1 .. Len(s) - 2 :
         /\ s[g] = GetentOf(patch)
         /\ s[g + 1] = User(patch.runAsUser)
         /\ \A k \in g + 2 .. Len(s) : s[k].op \in {"ENTRYPOINT", "CMD", "PUSH"}
  BY <1>1 DEF ProgramLaid, ProgramEndsAs
<1>4. /\ g + 1 \in CheckAt(patch) - 1 .. Len(s)
      /\ g \in CheckAt(patch) .. Len(s)
      /\ \A k \in (g + 1) + 1 .. Len(s) : k \in g + 2 .. Len(s)
  BY <1>2, <1>3
<1>5. s[g + 1].op = "USER" /\ s[g + 1].name = patch.runAsUser
  BY <1>3 DEF User
<1>6. \A k \in (g + 1) + 1 .. Len(s) : s[k].op # "USER"
  BY <1>3, <1>4
<1>7. img.user = patch.runAsUser
  BY <1>1, <1>4, <1>5, <1>6 DEF Made
<1>8. patch.runAsUser \in img.users
  BY <1>1, <1>3, <1>4 DEF Made
<1> QED
  BY <1>7, <1>8

(* A build with runAsUser makes an image that runs as that user, who       *)
(* exists in it, whatever other users the spec creates and switches to     *)
(* (imagepatch_types.go, RunAsUser).                                       *)
THEOREM ImagesRunAsRequested ==
    Spec => []RunsAsRequested
  BY BuildInvariance, RequestedKept, PTL

LEMMA RejectedKept ==
    ASSUME BuildInv
    PROVE  RejectedIsUnbuildable
  BY NoPhrases DEF BuildInv, RunningInv, StoredInv, FailsFor, PlatformMismatch,
     RejectedIsUnbuildable, Ended

(* The inspection rejects no image of which a build ever succeeded         *)
(* (inspect.go:71-72).                                                     *)
THEOREM RejectionIsFinal ==
    Spec => []RejectedIsUnbuildable
  BY BuildInvariance, RejectedKept, PTL

(* What the label says, as far as the log goes.                            *)
LEMMA LabelIs ==
    /\ Label = "ImageOSNotSupported" <=> img.failure = "Rejected" \/ SaysUnsupported(log)
    /\ Label = "InvalidImage" <=>
          img.failure # "Rejected" /\ ~SaysUnsupported(log) /\ SaysRefused(log)
    /\ Label = "NetworkError" <=>
          /\ img.failure # "Rejected" /\ ~SaysUnsupported(log) /\ ~SaysRefused(log)
          /\ "network" \in log
  BY DEF Label, ClassifyLogTail

LEMMA NamedKept ==
    ASSUME BuildInv, RootKnown,
           \A p \in Patches : ~SaysUnsupported(SpokenWords(p))
    PROVE  UnsupportedBaseIsNamed
<1> SUFFICES ASSUME Ended, img.failure \notin Unrelated \cup {None}
             PROVE  Label = "ImageOSNotSupported"
                       <=> ~(HasShell(img) /\ Supported(img)) /\ img.failure # "NoPlatform"
  BY DEF UnsupportedBaseIsNamed
<1>1. /\ patch \in Patches /\ FailsFor(patch, img)
      /\ PhrasesOf(img.failure) \subseteq log /\ log \subseteq Spoken(patch, img.failure)
  BY DEF Ended, BuildInv, RunningInv, LogInv
<1>2. img.failure \in {"Rejected", "NoShell", "ImageOSNotSupported", "BlobUnknown",
                      "NoPlatform"} \cup UserFailures
  BY <1>1 DEF FailsFor, Failures, Unrelated, UserFailures
<1>3. CASE img.failure = "Rejected"
  <2>1. ~HasShell(img)
    BY <1>1, <1>3 DEF FailsFor, PlatformMismatch, HasShell
  <2> QED
    BY <1>3, <2>1, LabelIs
<1>4. CASE img.failure \in {"NoShell", "ImageOSNotSupported"}
  <2>1. SaysUnsupported(log)
    BY <1>1, <1>4 DEF PhrasesOf, SaysUnsupported
  <2>2. ~HasShell(img) \/ ~Supported(img)
    BY <1>1, <1>4 DEF FailsFor
  <2> QED
    BY <1>4, <2>1, <2>2, LabelIs
<1>5. CASE img.failure \in {"BlobUnknown"} \cup UserFailures
  <2>1. HasShell(img) /\ Supported(img)
    BY <1>1, <1>5 DEF FailsFor
  <2>2. PhrasesOf(img.failure) = {}
    BY <1>5 DEF PhrasesOf, UserFailures
  <2>3. log \subseteq {"network"} \cup SpokenWords(patch)
    BY <1>1, <1>5, <2>2 DEF Spoken, UserFailures
  <2>4. ~SaysUnsupported(log)
    BY <1>1, <2>3 DEF SaysUnsupported
  <2>5. img.failure \notin {"Rejected", "NoPlatform"}
    BY <1>5 DEF UserFailures
  <2> QED
    BY <2>1, <2>4, <2>5, LabelIs
<1>6. CASE img.failure = "NoPlatform"
  <2>1. PhrasesOf(img.failure) = {}
    BY <1>6 DEF PhrasesOf
  <2>2. log \subseteq {"network"} \cup SpokenWords(patch)
    BY <1>1, <1>6, <2>1 DEF Spoken
  <2>3. ~SaysUnsupported(log)
    BY <1>1, <2>2 DEF SaysUnsupported
  <2> QED
    BY <1>6, <2>3, LabelIs
<1> QED
  BY <1>2, <1>3, <1>4, <1>5, <1>6

(* If the user's commands do not themselves print what kaniko prints of an *)
(* exit with 42 or of a missing shell, and images with a shell know root,  *)
(* then a build that neither a registry, the network nor the user's own    *)
(* command made fail is labelled ImageOSNotSupported exactly when its base *)
(* image cannot be patched and it is not for an index without linux/amd64  *)
(* that kaniko gave up: that case, which only the inspection knows how to  *)
(* name, is never labelled so (imagepatch_controller.go:978-985,           *)
(* classify.go:215-220, inspect.go:50-54).                                 *)
THEOREM UnsupportedBasesAreNamed ==
    ASSUME RootKnown,
           \A p \in Patches : ~SaysUnsupported(SpokenWords(p))
    PROVE  Spec => []UnsupportedBaseIsNamed
<1>1. BuildInv => UnsupportedBaseIsNamed
  BY NamedKept
<1> QED
  BY <1>1, BuildInvariance, PTL

LEMMA BlameKept ==
    ASSUME BuildInv
    PROVE  NobodyIsMisblamed
<1> SUFFICES ASSUME Ended, img.failure # None, ~SpeaksOfErrors(patch), ~ExitsWith42(patch)
             PROVE  /\ Label = "ImageOSNotSupported"
                          <=> img.failure \in {"Rejected", "ImageOSNotSupported", "NoShell"}
                    /\ Label = "InvalidImage" <=> img.failure \in {"PullDenied", "PushDenied"}
                    /\ img.failure \in {"Unreachable", "NetworkFailed"}
                          => Label = "NetworkError"
  BY DEF NobodyIsMisblamed
<1>1. /\ img.failure \in Failures /\ img.failure # "Exit42"
      /\ PhrasesOf(img.failure) \subseteq log /\ log \subseteq Spoken(patch, img.failure)
  BY DEF Ended, BuildInv, RunningInv, LogInv, FailsFor
<1>2. SpokenWords(patch) = {}
  BY DEF SpeaksOfErrors, SpokenWords
<1>3. log \subseteq {"network"} \cup PhrasesOf(img.failure)
                  \cup (IF img.failure = "CommandFailed" THEN {"not-found"} ELSE {})
  BY <1>1, <1>2 DEF Spoken
<1>4. "manifest-for" \notin log
  BY <1>3 DEF PhrasesOf
<1>5. SaysUnsupported(log) <=> img.failure \in {"ImageOSNotSupported", "NoShell"}
  BY <1>1, <1>3 DEF PhrasesOf, SaysUnsupported
<1>6. SaysRefused(log) <=> img.failure \in {"PullDenied", "PushDenied"}
  BY <1>1, <1>3, <1>4 DEF PhrasesOf, SaysRefused
<1>7. img.failure \in {"Unreachable", "NetworkFailed"} => "network" \in log
  BY <1>1 DEF PhrasesOf
<1> QED
  BY <1>5, <1>6, <1>7, LabelIs

(* If the user's commands neither print the classifier's keywords nor exit *)
(* with 42, the label blames the image exactly when the check of the base  *)
(* image, its missing shell, the inspection or a registry's refusal ended  *)
(* the build, and names an outage of the network that ended it             *)
(* (classify.go:32-42, 206-212).                                           *)
THEOREM NobodyIsBlamedWrongly ==
    Spec => []NobodyIsMisblamed
  BY BuildInvariance, BlameKept, PTL

-----------------------------------------------------------------------------
(* References: their separators, and the pieces between them.              *)

LEMMA SameSequence ==
    ASSUME NEW s, NEW t, Sequence(s), Sequence(t), Len(s) = Len(t),
           \A n \in 1 .. Len(s) : s[n] = t[n]
    PROVE  s = t
<1>1. s = [n \in 1 .. Len(s) |-> s[n]] /\ t = [n \in 1 .. Len(t) |-> t[n]]
  BY SequenceFacts
<1> QED
  BY <1>1

LEMMA FirstSep ==
    ASSUME NEW ref, Sequence(ref), NEW sep
    PROVE  /\ FirstIndex(ref, sep) \in 0 .. Len(ref)
           /\ FirstIndex(ref, sep) # 0 => ref[FirstIndex(ref, sep)] = sep
           /\ \A n \in 1 .. Len(ref) : ref[n] = sep =>
                 FirstIndex(ref, sep) # 0 /\ FirstIndex(ref, sep) <= n
<1> DEFINE I == {n \in 1 .. Len(ref) : ref[n] = sep}
<1>0. Len(ref) \in Nat
  BY SequenceFacts
<1>1. FirstIndex(ref, sep) = IF I # {} THEN Min(I) ELSE 0
  BY DEF FirstIndex, SelectInSeq
<1>2. CASE I = {}
  <2>1. FirstIndex(ref, sep) = 0
    BY <1>1, <1>2
  <2> QED
    BY <1>0, <1>2, <2>1
<1>3. CASE I # {}
  <2>1. I \subseteq Nat
    BY <1>0
  <2>2. PICK m \in I : \A n \in I : m <= n
    BY <1>3, <2>1, LeastNumber
  <2>3. Min(I) \in I /\ \A n \in I : Min(I) <= n
    BY <2>2 DEF Min
  <2>4. FirstIndex(ref, sep) = Min(I)
    BY <1>1, <1>3
  <2>5. Min(I) \in 1 .. Len(ref) /\ ref[Min(I)] = sep
    BY <2>3
  <2>6. \A n \in 1 .. Len(ref) : ref[n] = sep => Min(I) <= n
    BY <2>3
  <2> DEFINE j == Min(I)
  <2>7. FirstIndex(ref, sep) = j /\ j \in 1 .. Len(ref) /\ ref[j] = sep
    BY <2>4, <2>5
  <2>8. \A n \in 1 .. Len(ref) : ref[n] = sep => j <= n
    BY <2>6
  <2> HIDE DEF j
  <2> QED
    BY <1>0, <2>7, <2>8
<1> QED
  BY <1>2, <1>3

LEMMA LastSep ==
    ASSUME NEW ref, Sequence(ref), NEW sep
    PROVE  /\ LastIndex(ref, sep) \in 0 .. Len(ref)
           /\ LastIndex(ref, sep) # 0 => ref[LastIndex(ref, sep)] = sep
           /\ \A n \in 1 .. Len(ref) : ref[n] = sep => n <= LastIndex(ref, sep)
<1> DEFINE I == {n \in 1 .. Len(ref) : ref[n] = sep}
<1>0. Len(ref) \in Nat
  BY SequenceFacts
<1>1. LastIndex(ref, sep) = IF I # {} THEN Max(I) ELSE 0
  BY DEF LastIndex, SelectLastInSeq
<1>2. CASE I = {}
  <2>1. LastIndex(ref, sep) = 0
    BY <1>1, <1>2
  <2> QED
    BY <1>0, <1>2, <2>1
<1>3. CASE I # {}
  <2>1. I \subseteq 1 .. Len(ref)
    OBVIOUS
  <2>2. Max(I) \in I /\ \A n \in I : n <= Max(I)
    BY <1>0, <1>3, <2>1, Greatest
  <2>3. LastIndex(ref, sep) = Max(I)
    BY <1>1, <1>3
  <2> QED
    BY <1>0, <2>2, <2>3
<1> QED
  BY <1>2, <1>3

LEMMA FirstAt ==
    ASSUME NEW ref, Sequence(ref), NEW sep, NEW n \in 1 .. Len(ref), ref[n] = sep,
           \A m \in 1 .. n - 1 : ref[m] # sep
    PROVE  FirstIndex(ref, sep) = n
<1>1. Len(ref) \in Nat
  BY SequenceFacts
<1>2. /\ FirstIndex(ref, sep) \in 1 .. Len(ref) /\ FirstIndex(ref, sep) <= n
      /\ ref[FirstIndex(ref, sep)] = sep
  BY <1>1, FirstSep
<1> QED
  BY <1>1, <1>2

LEMMA LastAt ==
    ASSUME NEW ref, Sequence(ref), NEW sep, NEW n \in 1 .. Len(ref), ref[n] = sep,
           \A m \in n + 1 .. Len(ref) : ref[m] # sep
    PROVE  LastIndex(ref, sep) = n
<1>1. Len(ref) \in Nat
  BY SequenceFacts
<1>2. /\ LastIndex(ref, sep) \in 1 .. Len(ref) /\ n <= LastIndex(ref, sep)
      /\ ref[LastIndex(ref, sep)] = sep
  BY <1>1, LastSep
<1> QED
  BY <1>1, <1>2

LEMMA NoSep ==
    ASSUME NEW ref, Sequence(ref), NEW sep, \A n \in 1 .. Len(ref) : ref[n] # sep
    PROVE  FirstIndex(ref, sep) = 0 /\ LastIndex(ref, sep) = 0
<1>1. Len(ref) \in Nat
  BY SequenceFacts
<1>2. FirstIndex(ref, sep) \notin 1 .. Len(ref)
  BY <1>1, FirstSep
<1>3. LastIndex(ref, sep) \notin 1 .. Len(ref)
  BY <1>1, LastSep
<1>4. FirstIndex(ref, sep) \in 0 .. Len(ref) /\ LastIndex(ref, sep) \in 0 .. Len(ref)
  BY FirstSep, LastSep
<1> QED
  BY <1>1, <1>2, <1>3, <1>4

LEMMA Piece ==
    ASSUME NEW s, Sequence(s), NEW a \in 1 .. Len(s) + 1, NEW b \in a - 1 .. Len(s)
    PROVE  /\ Sequence(SubSeq(s, a, b)) /\ Len(SubSeq(s, a, b)) = b - a + 1
           /\ \A n \in 1 .. b - a + 1 : SubSeq(s, a, b)[n] = s[a + n - 1]
<1> DEFINE t == SubSeq(s, a, b)
<1>1. Len(s) \in Nat /\ s \in Seq(ToSet(s)) /\ a \in Nat /\ b \in Nat
  BY SequenceFacts DEF Sequence
<1>2. t \in Seq(ToSet(s))
  BY <1>1
<1>3. Len(t) = b - a + 1 /\ \A n \in 1 .. b - a + 1 : t[n] = s[a + n - 1]
  BY <1>1
<1>4. Sequence(t)
  BY <1>2, SequenceOfSeq
<1> QED
  BY <1>3, <1>4

LEMMA BeforeCut ==
    ASSUME NEW ref, Sequence(ref), NEW i \in 1 .. Len(ref) + 1
    PROVE  /\ Sequence(Before(ref, i)) /\ Len(Before(ref, i)) = i - 1
           /\ \A n \in 1 .. i - 1 : Before(ref, i)[n] = ref[n]
<1>1. Len(ref) \in Nat
  BY SequenceFacts
<1>2. 1 \in 1 .. Len(ref) + 1 /\ i - 1 \in 1 - 1 .. Len(ref) /\ i - 1 - 1 + 1 = i - 1
  BY <1>1
<1>3. /\ Sequence(SubSeq(ref, 1, i - 1)) /\ Len(SubSeq(ref, 1, i - 1)) = i - 1
      /\ \A n \in 1 .. i - 1 : SubSeq(ref, 1, i - 1)[n] = ref[1 + n - 1]
  BY <1>2, Piece
<1>4. \A n \in 1 .. i - 1 : 1 + n - 1 = n
  BY <1>1
<1> QED
  BY <1>3, <1>4 DEF Before

LEMMA AfterCut ==
    ASSUME NEW ref, Sequence(ref), NEW i \in 0 .. Len(ref)
    PROVE  /\ Sequence(After(ref, i)) /\ Len(After(ref, i)) = Len(ref) - i
           /\ \A n \in 1 .. Len(ref) - i : After(ref, i)[n] = ref[i + n]
<1> DEFINE a == i + 1
           b == Len(ref)
<1>1. Len(ref) \in Nat
  BY SequenceFacts
<1>2. /\ a \in 1 .. Len(ref) + 1 /\ b \in a - 1 .. Len(ref)
      /\ b - a + 1 = Len(ref) - i
  BY <1>1
<1>3. After(ref, i) = SubSeq(ref, a, b)
  BY DEF After
<1>4. \A n \in 1 .. Len(ref) - i : a + n - 1 = i + n
  BY <1>1
<1> HIDE DEF a, b
<1>5. /\ Sequence(SubSeq(ref, a, b)) /\ Len(SubSeq(ref, a, b)) = b - a + 1
      /\ \A n \in 1 .. b - a + 1 : SubSeq(ref, a, b)[n] = ref[a + n - 1]
  BY <1>2, Piece
<1> QED
  BY <1>2, <1>3, <1>4, <1>5

(* The repository of a reference without a digest is what stands before    *)
(* its tag: every slash is in it.                                          *)
LEMMA Repository ==
    ASSUME NEW ref, Sequence(ref), LastIndex(ref, "@") = 0
    PROVE  /\ Sequence(RepositoryOf(ref)) /\ Len(RepositoryOf(ref)) <= Len(ref)
           /\ \A n \in 1 .. Len(RepositoryOf(ref)) : RepositoryOf(ref)[n] = ref[n]
           /\ \A n \in 1 .. Len(ref) : ref[n] = "/" => n <= Len(RepositoryOf(ref))
<1> DEFINE colon == LastIndex(ref, ":")
           slash == LastIndex(ref, "/")
           r == RepositoryOf(ref)
<1> SUFFICES /\ Sequence(r) /\ Len(r) <= Len(ref)
             /\ \A n \in 1 .. Len(r) : r[n] = ref[n]
             /\ \A n \in 1 .. Len(ref) : ref[n] = "/" => n <= Len(r)
  OBVIOUS
<1>0. Len(ref) \in Nat
  BY SequenceFacts
<1>1. /\ colon \in 0 .. Len(ref) /\ slash \in 0 .. Len(ref)
      /\ \A n \in 1 .. Len(ref) : ref[n] = "/" => n <= slash
  BY LastSep
<1>2. r = IF colon > slash THEN Before(ref, colon) ELSE ref
  BY DEF RepositoryOf
<1> HIDE DEF r, colon, slash
<1>3. CASE colon > slash
  <2>1. colon \in 1 .. Len(ref) + 1
    BY <1>0, <1>1, <1>3
  <2>2. Sequence(r) /\ Len(r) = colon - 1 /\ \A n \in 1 .. colon - 1 : r[n] = ref[n]
    BY <1>2, <1>3, <2>1, BeforeCut
  <2> QED
    BY <1>0, <1>1, <1>3, <2>1, <2>2
<1>4. CASE ~(colon > slash)
  <2>1. r = ref
    BY <1>2, <1>4
  <2> QED
    BY <1>0, <2>1
<1> QED
  BY <1>3, <1>4

LEMMA SameFirstSlash ==
    ASSUME NEW ref, Sequence(ref), LastIndex(ref, "@") = 0
    PROVE  /\ FirstIndex(RepositoryOf(ref), "/") = FirstIndex(ref, "/")
           /\ FirstIndex(ref, "/") # 0 =>
                 Before(RepositoryOf(ref), FirstIndex(ref, "/")) = Before(ref, FirstIndex(ref, "/"))
<1> DEFINE r == RepositoryOf(ref)
           f == FirstIndex(ref, "/")
<1> SUFFICES /\ FirstIndex(r, "/") = f
             /\ f # 0 => Before(r, f) = Before(ref, f)
  OBVIOUS
<1>0. Len(ref) \in Nat
  BY SequenceFacts
<1>1. /\ Sequence(r) /\ Len(r) <= Len(ref)
      /\ \A n \in 1 .. Len(r) : r[n] = ref[n]
      /\ \A n \in 1 .. Len(ref) : ref[n] = "/" => n <= Len(r)
  BY Repository
<1>2. Len(r) \in Nat
  BY <1>1, SequenceFacts
<1>3. /\ f \in 0 .. Len(ref)
      /\ f # 0 => ref[f] = "/"
      /\ \A n \in 1 .. Len(ref) : ref[n] = "/" => f # 0 /\ f <= n
  BY FirstSep
<1> HIDE DEF r, f
<1>4. CASE f = 0
  <2>1. \A n \in 1 .. Len(r) : n \in 1 .. Len(ref) /\ r[n] # "/"
    BY <1>0, <1>1, <1>2, <1>3, <1>4
  <2>2. FirstIndex(r, "/") = 0
    BY <1>1, <2>1, NoSep
  <2> QED
    BY <1>4, <2>2
<1>5. CASE f # 0
  <2>1. f \in 1 .. Len(ref) /\ ref[f] = "/"
    BY <1>0, <1>3, <1>5
  <2>2. f \in 1 .. Len(r) /\ r[f] = "/"
    BY <1>0, <1>1, <1>2, <2>1
  <2>3. \A m \in 1 .. f - 1 : r[m] # "/"
    <3>1. \A m \in 1 .. f - 1 : m \in 1 .. Len(r) /\ m \in 1 .. Len(ref) /\ ~(f <= m)
      BY <1>0, <1>2, <2>1, <2>2
    <3> QED
      BY <1>1, <1>3, <3>1
  <2>4. FirstIndex(r, "/") = f
    BY <1>1, <2>2, <2>3, FirstAt
  <2>5. /\ f \in 1 .. Len(r) + 1 /\ f \in 1 .. Len(ref) + 1
    BY <1>0, <1>2, <2>1, <2>2
  <2>6. /\ Sequence(Before(r, f)) /\ Len(Before(r, f)) = f - 1
        /\ \A n \in 1 .. f - 1 : Before(r, f)[n] = r[n]
    BY <1>1, <2>5, BeforeCut
  <2>7. /\ Sequence(Before(ref, f)) /\ Len(Before(ref, f)) = f - 1
        /\ \A n \in 1 .. f - 1 : Before(ref, f)[n] = ref[n]
    BY <2>5, BeforeCut
  <2>8. \A n \in 1 .. f - 1 : Before(r, f)[n] = Before(ref, f)[n]
    <3>1. \A n \in 1 .. f - 1 : n \in 1 .. Len(r)
      BY <1>2, <2>2
    <3> QED
      BY <1>1, <2>6, <2>7, <3>1
  <2>9. Before(r, f) = Before(ref, f)
    BY <2>6, <2>7, <2>8, SameSequence
  <2> QED
    BY <2>4, <2>9
<1> QED
  BY <1>4, <1>5

(* A reference of an image on the host itself, for which go-containerreg-  *)
(* istry has no name.                                                      *)
OnLocalhost(ref) == Before(ref, FirstIndex(ref, "/")) = <<"localhost">>

LEMMA SplitAgrees ==
    ASSUME NEW ref, Sequence(ref), ValidTag(ref), ~OnLocalhost(ref)
    PROVE  (IF SplitImageRef(ref).registry = DockerIO THEN Hub
            ELSE SplitImageRef(ref).registry) = HostOf(ref)
<1> DEFINE f == FirstIndex(ref, "/")
           head == Before(ref, f)
           r == RepositoryOf(ref)
           looks == \E i \in DOMAIN head : head[i] \in {".", ":"}
<1>1. LastIndex(ref, "@") = 0 /\ head # <<"localhost">>
  BY DEF ValidTag, OnLocalhost
<1>2. FirstIndex(r, "/") = f /\ (f # 0 => Before(r, f) = head)
  BY <1>1, SameFirstSlash
<1>3. SplitImageRef(ref).registry = IF f # 0 /\ looks THEN head ELSE DockerIO
  BY <1>1 DEF SplitImageRef
<1>4. HasHost(r) <=> f # 0 /\ looks
  BY <1>2 DEF HasHost
<1>5. HostOf(ref) = IF f # 0 /\ looks /\ head # DockerIO THEN head ELSE Hub
  BY <1>2, <1>4 DEF HostOf
<1> HIDE DEF f, head, looks
<1> QED
  BY <1>3, <1>5

-----------------------------------------------------------------------------
(* The references of a build are lists of words, whatever was derived.     *)

LEMMA TrimmedRight ==
    ASSUME NEW ref, Sequence(ref), NEW sep
    PROVE  Sequence(TrimRight(ref, sep))
<1> DEFINE I == {n \in 1 .. Len(ref) : ref[n] # sep}
           m == SelectLastInSeq(ref, LAMBDA t : t # sep)
<1>0. Len(ref) \in Nat
  BY SequenceFacts
<1>1. m = IF I # {} THEN Max(I) ELSE 0
  BY DEF SelectLastInSeq
<1>2. I # {} => Max(I) \in 1 .. Len(ref)
  <2>1. I \subseteq 1 .. Len(ref)
    OBVIOUS
  <2> HIDE DEF I
  <2> QED
    BY <1>0, <2>1, Greatest
<1>3. TrimRight(ref, sep) = SubSeq(ref, 1, m)
  BY DEF TrimRight
<1>4. m \in 0 .. Len(ref)
  <2> HIDE DEF I, m
  <2> QED
    BY <1>0, <1>1, <1>2
<1> HIDE DEF m
<1>5. 1 \in 1 .. Len(ref) + 1 /\ m \in 1 - 1 .. Len(ref)
  BY <1>0, <1>4
<1> QED
  BY <1>3, <1>5, Piece

LEMMA DestinationIsRef ==
    ASSUME NEW p \in Patches
    PROVE  Sequence(Destination(p))
<1> DEFINE base     == p.base
           registry == Environment.DEFAULT_IMAGE_REGISTRY
           colon == LastIndex(base, ":")
           tag   == IF colon = 0 THEN <<"latest">> ELSE After(base, colon)
           ref   == IF colon = 0 THEN base ELSE Before(base, colon)
           last  == After(ref, LastIndex(ref, "/"))
           name  == last \o <<"-patch", ":">> \o tag
<1>1. Sequence(p.targetImage) /\ Sequence(base) /\ Sequence(registry)
  BY RefsAssumption DEF Sequence
<1>2. Destination(p) \in {p.targetImage, name, TrimRight(registry, "/") \o <<"/">> \o name}
  BY DEF Destination, ResolveDestination
<1>3. Sequence(tag) /\ Sequence(ref)
  <2>1. colon \in 0 .. Len(base) /\ Len(base) \in Nat
    BY <1>1, LastSep, SequenceFacts
  <2>2. Sequence(<<"latest">>)
    BY DEF Sequence, ToSet
  <2>3. colon # 0 => colon \in 1 .. Len(base) + 1
    BY <2>1
  <2>4. Sequence(After(base, colon)) /\ (colon # 0 => Sequence(Before(base, colon)))
    BY <1>1, <2>1, <2>3, AfterCut, BeforeCut
  <2> HIDE DEF colon, base
  <2> QED
    BY <1>1, <2>2, <2>4
<1>4. Sequence(last)
  <2>1. LastIndex(ref, "/") \in 0 .. Len(ref)
    BY <1>3, LastSep
  <2> QED
    BY <1>3, <2>1, AfterCut
<1>5. Sequence(<<"-patch", ":">>) /\ Sequence(<<"/">>)
  BY DEF Sequence, ToSet
<1> HIDE DEF last, tag, ref, registry
<1>6. Sequence(last \o <<"-patch", ":">>)
  BY <1>4, <1>5, Concat
<1>7. Sequence(name)
  BY <1>3, <1>6, Concat
<1> HIDE DEF name
<1>8. Sequence(TrimRight(registry, "/"))
  BY <1>1, TrimmedRight
<1>9. Sequence(TrimRight(registry, "/") \o <<"/">>)
  BY <1>5, <1>8, Concat
<1>10. Sequence(TrimRight(registry, "/") \o <<"/">> \o name)
  BY <1>7, <1>9, Concat
<1> QED
  BY <1>1, <1>2, <1>7, <1>10

-----------------------------------------------------------------------------
(* kaniko's first act is to check its destinations: whatever else a build  *)
(* fails of, it has tags to push to.                                       *)

TargetInv ==
    patch # None /\ img.failure \notin {"Rejected", "InvalidTag"} =>
        \/ todo # << >> /\ Head(todo) = CheckPush
        \/ \A d \in ToSet(JobOf(patch).destinations) : ValidTag(d)

LEMMA TargetNext ==
    ASSUME BuildInv, TargetInv, [Next]_vars
    PROVE  TargetInv'
<1>1. CASE UNCHANGED vars
  BY <1>1 DEF vars, TargetInv
<1>2. ASSUME NEW p \in Patches, patch = None, RejectBuild(p)
      PROVE  TargetInv'
  <2>1. img' = Failed(NewStage(p.base), "Rejected")
    BY <1>2 DEF RejectBuild
  <2>2. img'.failure = "Rejected"
    BY <2>1, NewStageImage, FailedImage DEF Keeps
  <2> QED
    BY <2>2 DEF TargetInv
<1>3. ASSUME NEW p \in Patches, patch = None, CreateBuild(p)
      PROVE  TargetInv'
  <2>1. todo' \in Programs(p)
    BY <1>3 DEF CreateBuild, Programs
  <2>2. ProgramLaid(p, todo')
    BY <2>1, ProgramLayout
  <2>3. Sequence(todo') /\ Len(todo') \in Nat /\ Len(todo') # 0 /\ todo'[1] = CheckPush
    BY <2>2, SequenceFacts DEF ProgramLaid
  <2>4. todo' # << >> /\ Head(todo') = CheckPush
    BY <2>3 DEF Sequence
  <2> QED
    BY <2>4 DEF TargetInv
<1>4. CASE Execute
  <2>1. /\ todo # << >> /\ img' = Perform(img, Head(todo), job)
        /\ patch' = patch
    BY <1>4 DEF Execute
  <2>2. patch # None /\ img.failure = None /\ job = JobOf(patch) /\ IsImage(img)
    BY <2>1, Underway
  <2>3. CASE Head(todo) = CheckPush
    <3>1. img' = Pushable(img, job)
      BY <2>1, <2>3 DEF Perform, CheckPush
    <3>2. \/ \A d \in ToSet(job.destinations) : ValidTag(d)
          \/ img' = Failed(img, "InvalidTag")
      BY <3>1 DEF Pushable
    <3>3. Failed(img, "InvalidTag").failure = "InvalidTag"
      BY <2>2, FailedImage DEF Keeps
    <3> QED
      BY <2>1, <2>2, <3>2, <3>3 DEF TargetInv
  <2>4. CASE Head(todo) # CheckPush
    <3>1. img.failure \notin {"Rejected", "InvalidTag"}
      BY <2>2, NoneAssumption DEF Failures
    <3> QED
      BY <2>1, <2>2, <2>4, <3>1 DEF TargetInv
  <2> QED
    BY <2>3, <2>4
<1>5. ASSUME NEW why, NEW lines, CommandFails(why, lines)
      PROVE  TargetInv'
  <2>1. todo # << >> /\ Head(todo).op = "RUN" /\ patch' = patch
    BY <1>5 DEF CommandFails
  <2>2. patch # None /\ img.failure = None
    BY <2>1, Underway
  <2>3. img.failure \notin {"Rejected", "InvalidTag"} /\ Head(todo) # CheckPush
    BY <2>1, <2>2, NoneAssumption DEF Failures, CheckPush
  <2> QED
    BY <2>1, <2>2, <2>3 DEF TargetInv
<1>6. CASE Finish
  BY <1>6 DEF Finish, TargetInv
<1> QED
  BY <1>1, <1>2, <1>3, <1>4, <1>5, <1>6 DEF Next

LEMMA TargetInvariance ==
    Spec => []TargetInv
<1>1. Init => TargetInv
  BY DEF Init, TargetInv
<1>2. BuildInv /\ TargetInv /\ [Next]_vars => TargetInv'
  BY TargetNext
<1> QED
  BY <1>1, <1>2, BuildInvariance, PTL DEF Spec

LEMMA JobTarget ==
    ASSUME NEW p
    PROVE  /\ JobOf(p).destinations[1] = Destination(p)
           /\ Destination(p) \in ToSet(JobOf(p).destinations)
  BY DEF JobOf, ToSet

LEMMA LabelledKept ==
    ASSUME BuildInv, TargetInv,
           \A p \in Patches : ~OnLocalhost(Destination(p))
    PROVE  LabelNamesTheRegistry
<1> SUFFICES ASSUME Ended, job # None, img.failure # "InvalidTag"
             PROVE  (IF SplitImageRef(job.destinations[1]).registry = DockerIO THEN Hub
                     ELSE SplitImageRef(job.destinations[1]).registry)
                        = HostOf(job.destinations[1])
  BY DEF LabelNamesTheRegistry
<1>1. /\ patch \in Patches /\ patch # None /\ job = JobOf(patch) /\ todo = << >>
      /\ img.failure # "Rejected"
  BY DEF Ended, BuildInv, RunningInv
<1>2. ValidTag(Destination(patch))
  BY <1>1, JobTarget DEF TargetInv
<1>3. Sequence(Destination(patch)) /\ ~OnLocalhost(Destination(patch))
  BY <1>1, DestinationIsRef
<1> QED
  BY <1>1, <1>2, <1>3, SplitAgrees, JobTarget

(* The label that the metrics cut from the reference a build was told to   *)
(* push to, which is what status.image says of it once it says anything,   *)
(* is the registry that kaniko pushed to: for every reference with a port, *)
(* with dots or with neither, except localhost/... without a port, which   *)
(* kaniko takes for a path on Docker Hub (metrics.go:249-256).             *)
THEOREM MetricsNameTheRegistry ==
    ASSUME \A p \in Patches : ~OnLocalhost(Destination(p))
    PROVE  Spec => []LabelNamesTheRegistry
<1>1. BuildInv /\ TargetInv => LabelNamesTheRegistry
  BY LabelledKept
<1> QED
  BY <1>1, BuildInvariance, TargetInvariance, PTL

-----------------------------------------------------------------------------
(* Tags: what stands before the last colon names the repository.           *)

LEMMA TagAt ==
    ASSUME NEW d, Sequence(d), NEW c \in 1 .. Len(d), d[c] = ":",
           \A n \in c + 1 .. Len(d) : d[n] \notin {":", "/"},
           \A n \in 1 .. Len(d) : d[n] # "@"
    PROVE  /\ LastIndex(d, "@") = 0 /\ LastIndex(d, ":") = c
           /\ RepositoryOf(d) = Before(d, c)
<1>1. Len(d) \in Nat
  BY SequenceFacts
<1>2. LastIndex(d, "@") = 0
  BY NoSep
<1>3. \A n \in c + 1 .. Len(d) : d[n] # ":"
  OBVIOUS
<1>4. LastIndex(d, ":") = c
  BY <1>3, LastAt
<1>5. /\ LastIndex(d, "/") \in 0 .. Len(d)
      /\ LastIndex(d, "/") # 0 => d[LastIndex(d, "/")] = "/"
  BY LastSep
<1>6. c > LastIndex(d, "/")
  BY <1>1, <1>5
<1> QED
  BY <1>2, <1>4, <1>6 DEF RepositoryOf

(* Host and path depend on nothing but the repository.                     *)
LEMMA OneRepository ==
    ASSUME NEW a, NEW b, RepositoryOf(a) = RepositoryOf(b)
    PROVE  SameRepository(a, b) /\ PathOf(a) = PathOf(b)
<1>1. HostOf(a) = HostOf(b)
  BY DEF HostOf
<1> QED
  BY <1>1 DEF SameRepository, PathOf

LEMMA DedupInRepository ==
    ASSUME NEW d, Sequence(d), ValidTag(d), ComputeDedupRef(d) # << >>
    PROVE  ValidTag(ComputeDedupRef(d)) /\ SameRepository(ComputeDedupRef(d), d)
<1> DEFINE colon == LastIndex(d, ":")
           r == Before(d, colon)
           t == <<":", "dedup">>
           e == r \o t
<1>1. Len(d) \in Nat /\ LastIndex(d, "@") = 0 /\ ValidRef(d)
  BY SequenceFacts DEF ValidTag
<1>2. /\ colon \in 0 .. Len(d) /\ (colon # 0 => d[colon] = ":")
      /\ \A n \in 1 .. Len(d) : d[n] = ":" => n <= colon
  BY LastSep
<1>3. /\ LastIndex(d, "/") \in 0 .. Len(d)
      /\ LastIndex(d, "/") # 0 => d[LastIndex(d, "/")] = "/"
      /\ \A n \in 1 .. Len(d) : d[n] = "/" => n <= LastIndex(d, "/")
  BY LastSep
<1>4. colon # 0 /\ ~(colon < LastIndex(d, "/")) /\ ComputeDedupRef(d) = e
  BY DEF ComputeDedupRef
<1> HIDE DEF colon
<1>5. colon \in 1 .. Len(d) /\ d[colon] = ":" /\ colon > LastIndex(d, "/")
  BY <1>1, <1>2, <1>3, <1>4
<1>6. RepositoryOf(d) = r
  BY <1>1, <1>5 DEF RepositoryOf, colon
<1>7. \A n \in 1 .. Len(d) : d[n] # "@"
  BY <1>1, LastSep
<1>8. /\ Sequence(r) /\ Len(r) = colon - 1
      /\ \A n \in 1 .. colon - 1 : r[n] = d[n]
  <2>1. colon \in 1 .. Len(d) + 1
    BY <1>1, <1>5
  <2> QED
    BY <2>1, BeforeCut
<1> HIDE DEF r
<1>9. Sequence(t) /\ Len(t) = 2 /\ t[1] = ":" /\ t[2] = "dedup"
  BY DEF Sequence, ToSet
<1> HIDE DEF t
<1>10. /\ Sequence(e) /\ Len(e) = Len(r) + Len(t)
       /\ \A n \in 1 .. Len(r) : e[n] = r[n]
       /\ \A n \in 1 .. Len(t) : e[Len(r) + n] = t[n]
  <2>1. Sequence(r) /\ Sequence(t)
    BY <1>8, <1>9
  <2> QED
    BY <2>1, Concat
<1> HIDE DEF e
<1>11. /\ colon \in 1 .. Len(e) /\ Len(e) = colon + 1 /\ Len(r) + 1 = colon
       /\ Len(r) + 2 = colon + 1
  BY <1>5, <1>8, <1>9, <1>10
<1>12. e[colon] = ":" /\ e[colon + 1] = "dedup"
  <2>1. 1 \in 1 .. Len(t) /\ 2 \in 1 .. Len(t)
    BY <1>9
  <2>2. e[Len(r) + 1] = ":" /\ e[Len(r) + 2] = "dedup"
    BY <1>9, <1>10, <2>1
  <2> QED
    BY <1>11, <2>2
<1>13. \A n \in colon + 1 .. Len(e) : e[n] \notin {":", "/"}
  <2>1. \A n \in colon + 1 .. Len(e) : n = colon + 1
    BY <1>5, <1>11
  <2> QED
    BY <1>12, <2>1
<1>14. \A n \in 1 .. Len(e) : e[n] # "@"
  <2>1. \A n \in 1 .. Len(e) : n \in 1 .. colon - 1 \/ n = colon \/ n = colon + 1
    BY <1>5, <1>11
  <2>2. \A n \in 1 .. colon - 1 : e[n] = d[n] /\ n \in 1 .. Len(d)
    BY <1>1, <1>5, <1>8, <1>10
  <2> QED
    BY <1>7, <1>12, <2>1, <2>2
<1>15. /\ LastIndex(e, "@") = 0 /\ RepositoryOf(e) = Before(e, colon)
  BY <1>10, <1>11, <1>12, <1>13, <1>14, TagAt
<1>16. Before(e, colon) = r
  <2>1. colon \in 1 .. Len(e) + 1
    BY <1>5, <1>11
  <2>2. /\ Sequence(Before(e, colon)) /\ Len(Before(e, colon)) = colon - 1
        /\ \A n \in 1 .. colon - 1 : Before(e, colon)[n] = e[n]
    BY <1>10, <2>1, BeforeCut
  <2>3. \A n \in 1 .. colon - 1 : Before(e, colon)[n] = r[n]
    BY <1>8, <1>10, <2>2
  <2> QED
    BY <1>8, <2>2, <2>3, SameSequence
<1>17. SameRepository(e, d) /\ PathOf(e) = PathOf(d)
  BY <1>6, <1>15, <1>16, OneRepository
<1>18. e # << >>
  BY <1>11
<1>19. ValidTag(e)
  BY <1>1, <1>15, <1>17, <1>18 DEF ValidTag, ValidRef
<1> QED
  BY <1>4, <1>17, <1>19
(* What comes after the last slash is in the path.                         *)
LEMMA NameInPath ==
    ASSUME NEW ref, Sequence(RepositoryOf(ref)),
           NEW n \in 1 .. Len(RepositoryOf(ref)), n > LastIndex(RepositoryOf(ref), "/")
    PROVE  RepositoryOf(ref)[n] \in ToSet(PathOf(ref))
<1> DEFINE r == RepositoryOf(ref)
           f == FirstIndex(r, "/")
           a == After(r, f)
           path == IF HasHost(r) THEN a ELSE r
           l == <<"library", "/">>
<1> SUFFICES r[n] \in ToSet(PathOf(ref))
  OBVIOUS
<1>1. PathOf(ref) \in {path, l \o path}
  BY DEF PathOf
<1>2. Sequence(r) /\ Len(r) \in Nat /\ n \in 1 .. Len(r) /\ n > LastIndex(r, "/")
  BY SequenceFacts
<1>3. /\ f \in 0 .. Len(r)
      /\ f # 0 => r[f] = "/"
  BY <1>2, FirstSep
<1>4. \A m \in 1 .. Len(r) : r[m] = "/" => m <= LastIndex(r, "/")
  BY <1>2, LastSep
<1>5. LastIndex(r, "/") \in 0 .. Len(r)
  BY <1>2, LastSep
<1> HIDE DEF r
<1> HIDE DEF f
<1>6. f < n
  BY <1>2, <1>3, <1>4, <1>5
<1>7. /\ Sequence(a) /\ Len(a) = Len(r) - f
      /\ \A m \in 1 .. Len(r) - f : a[m] = r[f + m]
  BY <1>2, <1>3, AfterCut
<1> HIDE DEF a
<1>8. n - f \in 1 .. Len(r) - f /\ f + (n - f) = n
  BY <1>2, <1>3, <1>6
<1>9. a[n - f] = r[n] /\ n - f \in 1 .. Len(a)
  BY <1>7, <1>8
<1>10. Sequence(path) /\ \E m \in 1 .. Len(path) : path[m] = r[n]
  BY <1>2, <1>7, <1>9
<1> HIDE DEF path
<1>11. Sequence(l) /\ Sequence(path)
  BY <1>10 DEF Sequence, ToSet
<1> HIDE DEF l
<1>12. PICK m \in 1 .. Len(path) : path[m] = r[n]
  BY <1>10
<1>13. m \in DOMAIN path
  BY <1>11, SequenceFacts
<1>14. /\ Len(l) \in Nat /\ Len(path) \in Nat
       /\ DOMAIN (l \o path) = 1 .. Len(l) + Len(path)
       /\ (l \o path)[Len(l) + m] = path[m]
  BY <1>11, <1>12, Concat
<1>15. Len(l) + m \in DOMAIN (l \o path)
  BY <1>12, <1>14
<1> QED
  BY <1>1, <1>12, <1>13, <1>14, <1>15 DEF ToSet

(* A repository whose colons are all in its host has a path without one.   *)
LEMMA PathWithoutColon ==
    ASSUME NEW ref, Sequence(RepositoryOf(ref)),
           \A n \in 1 .. Len(RepositoryOf(ref)) :
              /\ RepositoryOf(ref)[n] # "@"
              /\ RepositoryOf(ref)[n] = ":" => n < FirstIndex(RepositoryOf(ref), "/")
    PROVE  ToSet(PathOf(ref)) \cap {":", "@"} = {}
<1> DEFINE r == RepositoryOf(ref)
           f == FirstIndex(r, "/")
           a == After(r, f)
           head == Before(r, f)
           path == IF HasHost(r) THEN a ELSE r
           l == <<"library", "/">>
<1> SUFFICES ToSet(PathOf(ref)) \cap {":", "@"} = {}
  OBVIOUS
<1>1. PathOf(ref) \in {path, l \o path}
  BY DEF PathOf
<1>2. /\ Sequence(r) /\ Len(r) \in Nat
      /\ \A n \in 1 .. Len(r) : r[n] # "@" /\ (r[n] = ":" => n < f)
  BY SequenceFacts
<1>3. f \in 0 .. Len(r)
  BY <1>2, FirstSep
<1>4. HasHost(r) <=> f # 0 /\ \E i \in DOMAIN head : head[i] \in {".", ":"}
  BY DEF HasHost
<1> HIDE DEF r
<1> HIDE DEF f
<1>5. \A n \in 1 .. Len(path) : path[n] \notin {":", "@"}
  <2>1. CASE HasHost(r)
    <3>1. /\ Sequence(a) /\ Len(a) = Len(r) - f
          /\ \A m \in 1 .. Len(r) - f : a[m] = r[f + m]
      BY <1>2, <1>3, AfterCut
    <3> HIDE DEF a
    <3>2. \A m \in 1 .. Len(r) - f : f + m \in 1 .. Len(r) /\ ~(f + m < f)
      BY <1>2, <1>3
    <3>3. \A m \in 1 .. Len(a) : a[m] \notin {":", "@"}
      BY <1>2, <3>1, <3>2
    <3> QED
      BY <2>1, <3>3
  <2>2. CASE ~HasHost(r)
    <3>1. ASSUME NEW n \in 1 .. Len(r), r[n] = ":"
          PROVE  FALSE
      <4>1. n < f /\ f \in 1 .. Len(r) + 1 /\ n \in 1 .. f - 1
        BY <1>2, <1>3, <3>1
      <4>2. Sequence(head) /\ Len(head) = f - 1 /\ head[n] = r[n]
        BY <1>2, <4>1, BeforeCut
      <4>3. n \in DOMAIN head
        BY <4>1, <4>2, SequenceFacts
      <4> QED
        BY <1>4, <2>2, <3>1, <4>1, <4>2, <4>3
    <3> QED
      BY <1>2, <2>2, <3>1
  <2> QED
    BY <2>1, <2>2
<1>6. Sequence(path)
  <2>1. Sequence(a)
    BY <1>2, <1>3, AfterCut
  <2> QED
    BY <1>2, <2>1
<1> HIDE DEF path
<1>7. Sequence(l) /\ Sequence(path)
  BY <1>6 DEF Sequence, ToSet
<1>8. Len(l) = 2 /\ \A n \in 1 .. 2 : l[n] \notin {":", "@"}
  OBVIOUS
<1> HIDE DEF l
<1>9. DOMAIN path = 1 .. Len(path) /\ Len(path) \in Nat
  BY <1>7, SequenceFacts
<1>10. /\ DOMAIN (l \o path) = 1 .. Len(l) + Len(path)
       /\ \A n \in 1 .. Len(l) : (l \o path)[n] = l[n]
       /\ \A n \in Len(l) + 1 .. Len(l) + Len(path) : (l \o path)[n] = path[n - Len(l)]
  BY <1>7, Concat
<1>11. \A n \in 1 .. 2 + Len(path) :
          \/ n \in 1 .. 2
          \/ n \in 2 + 1 .. 2 + Len(path) /\ n - 2 \in 1 .. Len(path)
  BY <1>9
<1>12. \A n \in DOMAIN (l \o path) : (l \o path)[n] \notin {":", "@"}
  BY <1>5, <1>8, <1>10, <1>11
<1>13. \A n \in DOMAIN path : path[n] \notin {":", "@"}
  BY <1>5, <1>9
<1> QED
  BY <1>1, <1>12, <1>13 DEF ToSet

-----------------------------------------------------------------------------
(* Derived targets.                                                        *)

(* An address of a registry: what follows its host has no port.            *)
Address(registry) ==
    \A n \in DOMAIN registry :
        /\ registry[n] # "@"
        /\ registry[n] = ":" => \A m \in 1 .. n : registry[m] # "/"

(* A base with a port and no tag, or with a digest.                        *)
OddBase(ref) ==
    \/ LastIndex(ref, "@") # 0
    \/ LastIndex(ref, ":") \in 1..LastIndex(ref, "/")

(* The last part of the base's name, and its tag, hold no separators.      *)
LEMMA BaseParts ==
    ASSUME NEW base, Sequence(base), ValidRef(base), ~OddBase(base),
           NEW last, NEW tag,
           last = After(RepositoryOf(base), LastIndex(RepositoryOf(base), "/")),
           tag = IF LastIndex(base, ":") = 0 THEN <<"latest">>
                 ELSE After(base, LastIndex(base, ":"))
    PROVE  /\ Sequence(last) /\ Sequence(tag)
           /\ \A n \in 1 .. Len(last) : last[n] \notin {":", "/", "@"}
           /\ \A n \in 1 .. Len(tag) : tag[n] \notin {":", "/", "@"}
<1> DEFINE r == RepositoryOf(base)
           slash == LastIndex(r, "/")
           colon == LastIndex(base, ":")
<1>1. /\ LastIndex(base, "@") = 0 /\ ToSet(PathOf(base)) \cap {":", "@"} = {}
      /\ ~(colon \in 1 .. LastIndex(base, "/"))
  BY DEF OddBase, ValidRef
<1>2. /\ Sequence(r) /\ Len(r) \in Nat /\ Len(base) \in Nat
  BY <1>1, Repository, SequenceFacts
<1>3. /\ slash \in 0 .. Len(r)
      /\ \A n \in 1 .. Len(r) : r[n] = "/" => n <= slash
  BY <1>2, LastSep
<1>4. \A n \in 1 .. Len(r) : n > slash => r[n] \notin {":", "@"}
  BY <1>1, <1>2, NameInPath
<1>5. last = After(r, slash)
  OBVIOUS
<1>6. /\ colon \in 0 .. Len(base)
      /\ \A n \in 1 .. Len(base) : base[n] = ":" => n <= colon
  BY LastSep
<1>7. /\ LastIndex(base, "/") \in 0 .. Len(base)
      /\ \A n \in 1 .. Len(base) : base[n] = "/" => n <= LastIndex(base, "/")
  BY LastSep
<1>8. \A n \in 1 .. Len(base) : base[n] # "@"
  BY <1>1, <1>2, LastSep
<1>9. tag = IF colon = 0 THEN <<"latest">> ELSE After(base, colon)
  OBVIOUS
<1> HIDE DEF r
<1> HIDE DEF slash, colon
<1>10. /\ Sequence(last) /\ Len(last) = Len(r) - slash
       /\ \A n \in 1 .. Len(r) - slash : last[n] = r[slash + n]
  BY <1>2, <1>3, <1>5, AfterCut
<1>11. \A n \in 1 .. Len(r) - slash :
          slash + n \in 1 .. Len(r) /\ slash + n > slash /\ ~(slash + n <= slash)
  BY <1>2, <1>3
<1>12. \A n \in 1 .. Len(last) : last[n] \notin {":", "/", "@"}
  BY <1>3, <1>4, <1>10, <1>11
<1>13. CASE colon = 0
  <2>1. tag = <<"latest">>
    BY <1>9, <1>13
  <2>2. Len(tag) = 1 /\ tag[1] = "latest"
    BY <2>1
  <2>3. \A n \in 1 .. Len(tag) : tag[n] \notin {":", "/", "@"}
    BY <2>2
  <2>4. Sequence(<<"latest">>)
    BY DEF Sequence, ToSet
  <2> QED
    BY <1>10, <1>12, <2>1, <2>3, <2>4
<1>14. CASE colon # 0
  <2>1. tag = After(base, colon)
    BY <1>9, <1>14
  <2>2. /\ Sequence(tag) /\ Len(tag) = Len(base) - colon
        /\ \A n \in 1 .. Len(base) - colon : tag[n] = base[colon + n]
    BY <1>6, <2>1, AfterCut
  <2>3. LastIndex(base, "/") < colon
    BY <1>1, <1>2, <1>6, <1>7, <1>14
  <2>4. \A n \in 1 .. Len(tag) :
           /\ colon + n \in 1 .. Len(base) /\ tag[n] = base[colon + n]
           /\ ~(colon + n <= colon) /\ ~(colon + n <= LastIndex(base, "/"))
    BY <1>2, <1>6, <1>7, <2>2, <2>3
  <2>5. \A n \in 1 .. Len(tag) : tag[n] \notin {":", "/", "@"}
    <3> SUFFICES ASSUME NEW n \in 1 .. Len(tag)
                 PROVE  tag[n] \notin {":", "/", "@"}
      OBVIOUS
    <3> DEFINE m == colon + n
    <3>1. m \in 1 .. Len(base) /\ tag[n] = base[m] /\ ~(m <= colon) /\ ~(m <= LastIndex(base, "/"))
      BY <2>4
    <3> HIDE DEF m
    <3> QED
      BY <1>6, <1>7, <1>8, <3>1
  <2> QED
    BY <1>10, <1>12, <2>2, <2>5
<1> QED
  BY <1>13, <1>14

(* A name with its -patch and its tag.                                     *)
LEMMA PatchName ==
    ASSUME NEW last, Sequence(last), NEW tag, Sequence(tag),
           \A n \in 1 .. Len(last) : last[n] \notin {":", "/", "@"},
           \A n \in 1 .. Len(tag) : tag[n] \notin {":", "/", "@"},
           NEW name, name = last \o <<"-patch", ":">> \o tag
    PROVE  /\ Sequence(name)
           /\ \E c \in 1 .. Len(name) :
                 name[c] = ":" /\ \A n \in 1 .. Len(name) :
                    n # c => name[n] \notin {":", "/", "@"}
<1> DEFINE q == <<"-patch", ":">>
           b == last \o q
           c == Len(last) + 2
<1>1. name = b \o tag
  OBVIOUS
<1>2. Sequence(q) /\ Len(q) = 2 /\ q[1] = "-patch" /\ q[2] = ":"
  BY DEF Sequence, ToSet
<1> HIDE DEF q
<1>3. Sequence(last) /\ Sequence(q)
  BY <1>2
<1>4. /\ Sequence(b) /\ Len(last) \in Nat /\ Len(b) = Len(last) + Len(q)
      /\ \A n \in 1 .. Len(last) : b[n] = last[n]
      /\ \A n \in 1 .. Len(q) : b[Len(last) + n] = q[n]
  BY <1>3, Concat
<1> HIDE DEF b
<1>5. Len(b) = c /\ b[Len(last) + 1] = "-patch" /\ b[c] = ":"
  <2>1. 1 \in 1 .. Len(q) /\ 2 \in 1 .. Len(q)
    BY <1>2
  <2> QED
    BY <1>2, <1>4, <2>1
<1>6. Sequence(b) /\ Sequence(tag)
  BY <1>4
<1>7. /\ Sequence(name) /\ Len(tag) \in Nat /\ Len(name) = Len(b) + Len(tag)
      /\ \A n \in 1 .. Len(b) : name[n] = b[n]
      /\ \A n \in Len(b) + 1 .. Len(b) + Len(tag) : name[n] = tag[n - Len(b)]
  <2> DEFINE e == b \o tag
  <2>1. /\ Sequence(e) /\ Len(tag) \in Nat /\ Len(e) = Len(b) + Len(tag)
        /\ \A n \in 1 .. Len(b) : e[n] = b[n]
        /\ \A n \in Len(b) + 1 .. Len(b) + Len(tag) : e[n] = tag[n - Len(b)]
    BY <1>6, Concat
  <2>2. name = e
    BY <1>1
  <2> HIDE DEF e
  <2> QED
    BY <2>1, <2>2
<1>8. /\ c \in 1 .. Len(name) /\ c \in 1 .. Len(b)
  BY <1>4, <1>5, <1>7
<1>9. ASSUME NEW n \in 1 .. Len(name), n # c
      PROVE  name[n] \notin {":", "/", "@"}
  <2>1. n \in 1 .. Len(last) \/ n = Len(last) + 1 \/ n \in Len(b) + 1 .. Len(b) + Len(tag)
    BY <1>4, <1>5, <1>7, <1>9
  <2>2. CASE n \in 1 .. Len(last)
    <3>1. n \in 1 .. Len(b)
      BY <1>4, <1>5, <2>2
    <3>2. name[n] = last[n]
      BY <1>4, <1>7, <2>2, <3>1
    <3> QED
      BY <2>2, <3>2
  <2>3. CASE n = Len(last) + 1
    <3>1. n \in 1 .. Len(b)
      BY <1>4, <1>5, <2>3
    <3>2. name[n] = "-patch"
      BY <1>5, <1>7, <2>3, <3>1
    <3> QED
      BY <3>2
  <2>4. CASE n \in Len(b) + 1 .. Len(b) + Len(tag)
    <3>1. n - Len(b) \in 1 .. Len(tag) /\ name[n] = tag[n - Len(b)]
      BY <1>4, <1>5, <1>7, <2>4
    <3> QED
      BY <3>1
  <2> QED
    BY <2>1, <2>2, <2>3, <2>4
<1>10. name[c] = ":"
  BY <1>5, <1>7, <1>8
<1> HIDE DEF c
<1> QED
  BY <1>7, <1>8, <1>9, <1>10

(* A derived target is a tag: its registry's port is in its host, and its  *)
(* last colon is that of the tag.                                          *)
LEMMA DerivedTag ==
    ASSUME NEW name, Sequence(name), NEW c \in 1 .. Len(name), name[c] = ":",
           \A n \in 1 .. Len(name) : n # c => name[n] \notin {":", "/", "@"},
           NEW host, Sequence(host), Address(host),
           NEW d, d = name \/ d = host \o <<"/">> \o name, Sequence(d)
    PROVE  ValidTag(d)
<1>1. PICK k \in 1 .. Len(d) :
         /\ d[k] = ":"
         /\ \A n \in k + 1 .. Len(d) : d[n] \notin {":", "/"}
         /\ \A n \in 1 .. Len(d) : d[n] # "@"
         /\ \A n \in 1 .. k - 1 : d[n] = ":" =>
               /\ \A m \in 1 .. n : d[m] # "/"
               /\ \E m \in 1 .. k - 1 : d[m] = "/"
  <2>1. CASE d = name
    <3>1. Len(d) \in Nat
      BY SequenceFacts
    <3>2. c \in 1 .. Len(d)
      BY <2>1
    <3>3. /\ \A n \in c + 1 .. Len(d) : n \in 1 .. Len(d) /\ n # c
          /\ \A n \in 1 .. c - 1 : n \in 1 .. Len(d) /\ n # c
      BY <3>1, <3>2
    <3>4. ":" # "@"
      OBVIOUS
    <3> QED
      BY <2>1, <3>2, <3>3, <3>4
  <2>2. CASE d = host \o <<"/">> \o name
    <3> DEFINE q == <<"/">>
               b == host \o q
               h == Len(host)
    <3>1. Sequence(q) /\ Len(q) = 1 /\ q[1] = "/"
      BY DEF Sequence, ToSet
    <3> HIDE DEF q
    <3>2. Sequence(host) /\ Sequence(q)
      BY <3>1
    <3>3. /\ Sequence(b) /\ h \in Nat /\ Len(b) = h + Len(q)
          /\ \A n \in 1 .. h : b[n] = host[n]
          /\ \A n \in 1 .. Len(q) : b[h + n] = q[n]
      BY <3>2, Concat
    <3>4. d = b \o name
      BY <2>2 DEF q
    <3> HIDE DEF b
    <3>5. Len(b) = h + 1 /\ b[h + 1] = "/"
      <4>1. 1 \in 1 .. Len(q)
        BY <3>1
      <4> QED
        BY <3>1, <3>3, <4>1
    <3>6. Sequence(b) /\ Sequence(name)
      BY <3>3
    <3>7. /\ Len(name) \in Nat /\ Len(d) = Len(b) + Len(name)
          /\ \A n \in 1 .. Len(b) : d[n] = b[n]
          /\ \A n \in Len(b) + 1 .. Len(b) + Len(name) : d[n] = name[n - Len(b)]
      <4> DEFINE e == b \o name
      <4>1. /\ Len(name) \in Nat /\ Len(e) = Len(b) + Len(name)
            /\ \A n \in 1 .. Len(b) : e[n] = b[n]
            /\ \A n \in Len(b) + 1 .. Len(b) + Len(name) : e[n] = name[n - Len(b)]
        BY <3>6, Concat
      <4>2. d = e
        BY <3>4
      <4> HIDE DEF e
      <4> QED
        BY <4>1, <4>2
    <3>8. \A n \in 1 .. h : /\ n \in 1 .. Len(b) /\ n \in DOMAIN host
                            /\ \A m \in 1 .. n : m \in 1 .. h /\ m \in 1 .. Len(b)
      BY <3>3, <3>5, SequenceFacts
    <3>9. \A n \in 1 .. h : d[n] = host[n]
      BY <3>3, <3>7, <3>8
    <3>10. d[h + 1] = "/" /\ h + 1 \in 1 .. Len(d)
      BY <3>3, <3>5, <3>7
    <3>11. \A n \in h + 2 .. Len(d) : d[n] = name[n - (h + 1)] /\ n - (h + 1) \in 1 .. Len(name)
      BY <3>3, <3>5, <3>7
    <3> DEFINE k == h + 1 + c
    <3>12. /\ k \in 1 .. Len(d) /\ k \in h + 2 .. Len(d) /\ k - (h + 1) = c
           /\ h + 1 \in 1 .. k - 1
      BY <3>3, <3>5, <3>7
    <3>13. d[k] = ":"
      BY <3>11, <3>12
    <3>14. \A n \in h + 2 .. Len(d) : n # k => n - (h + 1) # c
      BY <3>3
    <3>15. \A n \in h + 2 .. Len(d) : n # k => d[n] \notin {":", "/", "@"}
      BY <3>11, <3>14
    <3>16. \A n \in 1 .. Len(d) : n \in 1 .. h \/ n = h + 1 \/ n \in h + 2 .. Len(d)
      <4>1. h \in Nat /\ Len(d) \in Nat
        BY <3>3, SequenceFacts
      <4> HIDE DEF h
      <4> QED
        BY <4>1
    <3>17. \A n \in 1 .. h : /\ d[n] # "@"
                             /\ d[n] = ":" => \A m \in 1 .. n : d[m] # "/"
      BY <3>8, <3>9 DEF Address
    <3>18. \A n \in k + 1 .. Len(d) : n \in h + 2 .. Len(d) /\ n # k
      BY <3>3, <3>12
    <3>19. \A n \in 1 .. k - 1 : /\ n # k
                                 /\ n \in 1 .. h \/ n = h + 1 \/ n \in h + 2 .. Len(d)
      BY <3>3, <3>12, <3>16
    <3> HIDE DEF k
    <3>20. \A n \in 1 .. Len(d) : d[n] # "@"
      <4>1. ":" # "@" /\ "/" # "@"
        OBVIOUS
      <4> QED
        BY <3>10, <3>13, <3>15, <3>16, <3>17, <4>1
    <3>21. \A n \in 1 .. k - 1 : d[n] = ":" => n \in 1 .. h
      <4>1. ":" # "/"
        OBVIOUS
      <4> QED
        BY <3>10, <3>15, <3>19, <4>1
    <3> QED
      BY <3>10, <3>12, <3>13, <3>15, <3>17, <3>18, <3>20, <3>21
  <2> QED
    BY <2>1, <2>2
<1>2. Len(d) \in Nat
  BY SequenceFacts
<1>3. LastIndex(d, "@") = 0 /\ RepositoryOf(d) = Before(d, k)
  BY <1>1, TagAt
<1> DEFINE r == Before(d, k)
<1>4. /\ Sequence(r) /\ Len(r) = k - 1
      /\ \A n \in 1 .. k - 1 : r[n] = d[n]
  <2>1. k \in 1 .. Len(d) + 1
    BY <1>2
  <2> QED
    BY <2>1, BeforeCut
<1> HIDE DEF r
<1>5. ASSUME NEW n \in 1 .. Len(r)
      PROVE  r[n] # "@" /\ (r[n] = ":" => n < FirstIndex(r, "/"))
  <2>1. n \in 1 .. k - 1 /\ n \in 1 .. Len(d) /\ r[n] = d[n]
    BY <1>2, <1>4
  <2>2. r[n] # "@"
    BY <1>1, <2>1
  <2>3. ASSUME r[n] = ":"
        PROVE  n < FirstIndex(r, "/")
    <3>1. PICK m \in 1 .. k - 1 : d[m] = "/"
      BY <1>1, <2>1, <2>3
    <3>2. /\ FirstIndex(r, "/") \in 0 .. Len(r)
          /\ FirstIndex(r, "/") # 0 => r[FirstIndex(r, "/")] = "/"
          /\ \A l \in 1 .. Len(r) : r[l] = "/" =>
                FirstIndex(r, "/") # 0 /\ FirstIndex(r, "/") <= l
      BY <1>4, FirstSep
    <3> DEFINE f == FirstIndex(r, "/")
    <3>3. m \in 1 .. Len(r) /\ r[m] = "/"
      BY <1>2, <1>4, <3>1
    <3>4. f \in 1 .. k - 1 /\ d[f] = "/"
      BY <1>2, <1>4, <3>2, <3>3
    <3>5. \A l \in 1 .. n : d[l] # "/"
      BY <1>1, <2>1, <2>3
    <3>6. f \notin 1 .. n
      BY <3>4, <3>5
    <3> HIDE DEF f
    <3>7. n < f
      BY <1>2, <2>1, <3>4, <3>6
    <3> QED
      BY <3>7 DEF f
  <2> QED
    BY <2>2, <2>3
<1>6. RepositoryOf(d) = r
  BY <1>3 DEF r
<1>7. ToSet(PathOf(d)) \cap {":", "@"} = {}
  BY <1>4, <1>5, <1>6, PathWithoutColon
<1>8. d # << >>
  BY <1>2
<1> QED
  BY <1>3, <1>7, <1>8 DEF ValidTag, ValidRef

LEMMA TrimmedAddress ==
    ASSUME NEW registry, Sequence(registry), Address(registry)
    PROVE  Address(TrimRight(registry, "/"))
<1> DEFINE I == {n \in 1 .. Len(registry) : registry[n] # "/"}
           m == SelectLastInSeq(registry, LAMBDA t : t # "/")
           s == SubSeq(registry, 1, m)
<1>0. Len(registry) \in Nat /\ DOMAIN registry = 1 .. Len(registry)
  BY SequenceFacts
<1>1. m = IF I # {} THEN Max(I) ELSE 0
  BY DEF SelectLastInSeq
<1>2. I # {} => Max(I) \in 1 .. Len(registry)
  <2>1. I \subseteq 1 .. Len(registry)
    OBVIOUS
  <2> HIDE DEF I
  <2> QED
    BY <1>0, <2>1, Greatest
<1>3. TrimRight(registry, "/") = s
  BY DEF TrimRight
<1>4. m \in 0 .. Len(registry)
  <2> HIDE DEF I, m
  <2> QED
    BY <1>0, <1>1, <1>2
<1> HIDE DEF m
<1>5. 1 \in 1 .. Len(registry) + 1 /\ m \in 1 - 1 .. Len(registry) /\ m - 1 + 1 = m
  BY <1>0, <1>4
<1>6. /\ Sequence(s) /\ Len(s) = m
      /\ \A n \in 1 .. m : s[n] = registry[1 + n - 1]
  BY <1>5, Piece
<1>7. \A n \in 1 .. m : /\ n \in DOMAIN registry /\ 1 + n - 1 = n
                        /\ \A l \in 1 .. n : l \in 1 .. m
  BY <1>0, <1>4
<1> HIDE DEF s
<1>8. DOMAIN s = 1 .. m /\ \A n \in 1 .. m : s[n] = registry[n]
  BY <1>6, <1>7, SequenceFacts
<1>9. Address(s)
  BY <1>7, <1>8 DEF Address
<1> QED
  BY <1>3, <1>9

LEMMA DestinationIsTag ==
    ASSUME NEW p \in Patches, ValidRef(p.base),
           p.targetImage # << >> => ValidTag(p.targetImage),
           Address(Environment.DEFAULT_IMAGE_REGISTRY),
           ~(p.targetImage = << >> /\ OddBase(p.base))
    PROVE  ValidTag(Destination(p))
<1>1. CASE p.targetImage # << >>
  BY <1>1 DEF Destination, ResolveDestination
<1>2. CASE p.targetImage = << >>
  <2> DEFINE base     == p.base
             registry == Environment.DEFAULT_IMAGE_REGISTRY
             colon == LastIndex(base, ":")
             tag   == IF colon = 0 THEN <<"latest">> ELSE After(base, colon)
             ref   == IF colon = 0 THEN base ELSE Before(base, colon)
             last  == After(ref, LastIndex(ref, "/"))
             name  == last \o <<"-patch", ":">> \o tag
             host  == TrimRight(registry, "/")
  <2>1. Sequence(base) /\ Sequence(registry) /\ Address(registry)
    BY RefsAssumption DEF Sequence
  <2>2. Destination(p) = name \/ Destination(p) = host \o <<"/">> \o name
    BY <1>2 DEF Destination, ResolveDestination
  <2>3. ~OddBase(base) /\ ValidRef(base)
    BY <1>2
  <2>4. ref = RepositoryOf(base)
    <3>1. /\ LastIndex(base, "@") = 0 /\ ~(colon \in 1 .. LastIndex(base, "/"))
      BY <2>3 DEF OddBase
    <3>2. /\ colon \in 0 .. Len(base) /\ LastIndex(base, "/") \in 0 .. Len(base)
          /\ Len(base) \in Nat
      BY <2>1, LastSep, SequenceFacts
    <3>3. colon = 0 <=> ~(colon > LastIndex(base, "/"))
      BY <3>1, <3>2
    <3> QED
      BY <3>1, <3>3 DEF RepositoryOf
  <2>5. Sequence(Destination(p))
    BY DestinationIsRef
  <2>6. /\ Sequence(last) /\ Sequence(tag)
        /\ \A n \in 1 .. Len(last) : last[n] \notin {":", "/", "@"}
        /\ \A n \in 1 .. Len(tag) : tag[n] \notin {":", "/", "@"}
    <3>1. last = After(RepositoryOf(base), LastIndex(RepositoryOf(base), "/"))
      BY <2>4
    <3> HIDE DEF last
    <3> QED
      BY <2>1, <2>3, <3>1, BaseParts
  <2> HIDE DEF last, tag
  <2>7. /\ Sequence(name)
        /\ \E c \in 1 .. Len(name) :
              name[c] = ":" /\ \A n \in 1 .. Len(name) :
                 n # c => name[n] \notin {":", "/", "@"}
    BY <2>6, PatchName
  <2>8. Sequence(host) /\ Address(host)
    BY <2>1, TrimmedRight, TrimmedAddress
  <2> HIDE DEF name, host
  <2>9. PICK c \in 1 .. Len(name) :
              name[c] = ":" /\ \A n \in 1 .. Len(name) :
                 n # c => name[n] \notin {":", "/", "@"}
    BY <2>7
  <2> QED
    BY <2>2, <2>5, <2>7, <2>8, <2>9, DerivedTag
<1> QED
  BY <1>1, <1>2

LEMMA TagsKept ==
    ASSUME BuildInv,
           Address(Environment.DEFAULT_IMAGE_REGISTRY),
           \A p \in Patches : /\ ValidRef(p.base)
                              /\ p.targetImage # << >> => ValidTag(p.targetImage)
                              /\ p.targetImage = << >> => ~OddBase(p.base)
    PROVE  TargetsAreTags
<1> SUFFICES ASSUME Ended, job # None, NEW d \in ToSet(job.destinations)
             PROVE  ValidTag(d) /\ SameRepository(d, job.destinations[1])
  BY DEF TargetsAreTags
<1> DEFINE t == Destination(patch)
           e == DedupDestination(patch)
<1>1. patch \in Patches /\ job = JobOf(patch)
  BY DEF Ended, BuildInv, RunningInv
<1>2. ValidTag(t) /\ Sequence(t)
  BY <1>1, DestinationIsTag, DestinationIsRef
<1>3. /\ job.destinations[1] = t
      /\ \/ d = t
         \/ d = e /\ e # << >>
  BY <1>1 DEF JobOf, ToSet
<1>4. e # << >> => e = ComputeDedupRef(t)
  BY DEF DedupDestination
<1> HIDE DEF t, e
<1>5. SameRepository(t, t)
  BY DEF SameRepository
<1>6. CASE d = t
  BY <1>2, <1>3, <1>5, <1>6
<1>7. CASE d = e /\ e # << >>
  BY <1>2, <1>3, <1>4, <1>7, DedupInRepository
<1> QED
  BY <1>3, <1>6, <1>7

(* If no target is to be derived from a base that has a port and no tag,   *)
(* or a digest -- resolveDestination takes the port, or the digest, for    *)
(* the tag --, then every tag a build pushes is one and the dedup tag is   *)
(* in the target's repository: for targets with and without a tag, on      *)
(* registries with and without a port, and paths of any depth, provided    *)
(* that the targets and bases that the specs name are references and the   *)
(* cluster's registry is an address (resolveDestination, computeDedupRef). *)
THEOREM PushedTagsAreTags ==
    ASSUME Address(Environment.DEFAULT_IMAGE_REGISTRY),
           \A p \in Patches : /\ ValidRef(p.base)
                              /\ p.targetImage # << >> => ValidTag(p.targetImage)
                              /\ p.targetImage = << >> => ~OddBase(p.base)
    PROVE  Spec => []TargetsAreTags
<1>1. BuildInv => TargetsAreTags
  BY TagsKept
<1> QED
  BY <1>1, BuildInvariance, PTL

-----------------------------------------------------------------------------
(* Refusals: a pull or a push that fails has been refused to the account   *)
(* that the docker config of the Job gives kaniko.                         *)

Refusals(j, i) ==
    /\ i.failure \in {"PullDenied", "Unreachable"} =>
          \A h \in Sources(j, i.base) :
             ~(Registries[h].up /\ May(j.auth, h, i.base, "pull"))
    /\ i.failure = "PullDenied" => Registries[HostOf(i.base)].up
    /\ i.failure = "PushDenied" =>
          \E d \in ToSet(j.destinations) : ~May(j.auth, HostOf(d), d, "push")

RefusalInv ==
    /\ patch # None /\ img.failure # "Rejected" => AuthLoads(patch)
    /\ patch # None => Refusals(job, img)

RegistryFailures == {"PullDenied", "Unreachable", "PushDenied"}

LEMMA NoRefusal ==
    ASSUME NEW j, NEW i, i.failure \notin RegistryFailures
    PROVE  Refusals(j, i)
  BY DEF Refusals, RegistryFailures

LEMMA PullRefusal ==
    ASSUME NEW j, NEW ref
    PROVE  Refusals(j, Pull(j, ref))
<1> DEFINE Refused == \A h \in Sources(j, ref) :
                         ~(Registries[h].up /\ May(j.auth, h, ref, "pull"))
           Why == IF Registries[HostOf(ref)].up THEN "PullDenied" ELSE "Unreachable"
<1>1. /\ NewStage(ref).base = ref /\ NewStage(ref).failure = None
      /\ \A why : /\ Failed(NewStage(ref), why).base = ref
                  /\ Failed(NewStage(ref), why).failure = why
  BY NewStageImage, FailedImage DEF Keeps
<1>2. None \notin RegistryFailures /\ "NoPlatform" \notin RegistryFailures
  BY NoneAssumption DEF RegistryFailures, Failures
<1>3. CASE Refused
  <2>1. Pull(j, ref) = Failed(NewStage(ref), Why)
    BY <1>3 DEF Pull
  <2> QED
    BY <1>1, <1>3, <2>1 DEF Refusals
<1>4. CASE ~Refused
  <2>1. Pull(j, ref) \in {NewStage(ref), Failed(NewStage(ref), "NoPlatform")}
    BY <1>4 DEF Pull
  <2> QED
    BY <1>1, <1>2, <2>1, NoRefusal
<1> QED
  BY <1>3, <1>4

LEMMA PushRefusal ==
    ASSUME NEW j, NEW i, IsImage(i), i.failure = None
    PROVE  Refusals(j, Pushable(i, j))
<1> DEFINE all == ToSet(j.destinations)
           Refused == \E d \in all : ~May(j.auth, HostOf(d), d, "push")
<1>1. \A why : Failed(i, why).failure = why
  BY FailedImage
<1>2. None \notin RegistryFailures /\ "InvalidTag" \notin RegistryFailures
  BY NoneAssumption DEF RegistryFailures, Failures
<1>3. CASE Refused
  <2>1. Pushable(i, j) \in {Failed(i, "InvalidTag"), Failed(i, "PushDenied")}
    BY <1>3 DEF Pushable
  <2>2. "PushDenied" \notin {"PullDenied", "Unreachable"}
    OBVIOUS
  <2> QED
    BY <1>1, <1>2, <1>3, <2>1, <2>2 DEF Refusals, RegistryFailures
<1>4. CASE ~Refused
  <2>1. Pushable(i, j) \in {Failed(i, "InvalidTag"), i}
    BY <1>4 DEF Pushable
  <2> QED
    BY <1>1, <1>2, <2>1, NoRefusal
<1> QED
  BY <1>3, <1>4

(* The commands of a RUN.                                                  *)
LEMMA CommandsKnown ==
    ASSUME NEW p \in Patches, NEW s, ProgramLaid(p, s), NEW n \in 1 .. Len(s),
           s[n].op = "RUN"
    PROVE  /\ Sequence(s[n].commands)
           /\ \A m \in DOMAIN s[n].commands : s[n].commands[m].do \in AllCommands
<1> DEFINE c == CheckAt(p)
<1>1. Len(s) \in Nat /\ c \in Nat
  BY SequenceFacts DEF ProgramLaid
<1>2. CASE n \in 1 .. c - 1
  BY <1>2, OpeningOps
<1>3. CASE n = c
  <2>1. s[n].commands = <<[do |-> "check-os"]>>
    BY <1>3 DEF ProgramLaid, Run
  <2> QED
    BY <2>1 DEF Sequence, ToSet, AllCommands
<1>4. CASE n \in c + 1 .. Len(s) - 1
  <2>1. OfBody(p, s[n])
    BY <1>4 DEF ProgramLaid
  <2> QED
    BY <2>1 DEF OfBody, AllCommands
<1>5. CASE n = Len(s)
  BY <1>5 DEF ProgramLaid, Push
<1> QED
  BY <1>1, <1>2, <1>3, <1>4, <1>5

(* Of all instructions, only a pull and the check of the push are refused. *)
LEMMA PerformRefusal ==
    ASSUME NEW p \in Patches, NEW s, ProgramLaid(p, s), NEW n \in 1 .. Len(s),
           NEW i, NEW j, IsImage(i), i.failure = None
    PROVE  Refusals(j, Perform(i, s[n], j))
<1> DEFINE in == s[n]
           r  == Perform(i, in, j)
<1>1. None \notin RegistryFailures
  BY NoneAssumption DEF RegistryFailures, Failures
<1>2. in.op \in {"FROM", "SHELL", "USER", "WORKDIR", "ENV", "COPY", "RUN",
                 "ENTRYPOINT", "CMD", "CHECK-PUSH", "PUSH"}
  BY InstructionOps
<1>3. CASE in.op = "FROM"
  <2>1. r = Pull(j, in.image)
    BY <1>3 DEF Perform
  <2> QED
    BY <2>1, PullRefusal
<1>4. CASE in.op = "CHECK-PUSH"
  <2>1. r = Pushable(i, j)
    BY <1>4 DEF Perform
  <2> QED
    BY <2>1, PushRefusal
<1>5. CASE in.op = "PUSH"
  <2>1. r = Pushed(i, j)
    BY <1>5 DEF Perform
  <2>2. r.failure \in {None, "BlobUnknown"}
    BY <2>1, PushedImage
  <2>3. r.failure \notin RegistryFailures
    BY <1>1, <2>2 DEF RegistryFailures
  <2> QED
    BY <2>3, NoRefusal
<1>6. CASE in.op = "RUN"
  <2>1. r = RunAll(i, in.commands)
    BY <1>6 DEF Perform
  <2>2. /\ Sequence(in.commands)
        /\ \A m \in DOMAIN in.commands : in.commands[m].do \in AllCommands
    BY <1>6, CommandsKnown
  <2>3. RunAll(i, in.commands).failure \in EffectFailures \cup {None, "NoShell"}
    BY <2>2, RunImage
  <2>4. r.failure \notin RegistryFailures
    BY <1>1, <2>1, <2>3 DEF RegistryFailures, EffectFailures, UserFailures
  <2> QED
    BY <2>4, NoRefusal
<1>7. CASE in.op \in {"COPY", "ENV", "WORKDIR", "ENTRYPOINT", "CMD", "SHELL", "USER"}
  <2>1. r.failure = None
    BY <1>7, SettingImage
  <2> QED
    BY <1>1, <2>1, NoRefusal
<1> QED
  BY <1>2, <1>3, <1>4, <1>5, <1>6, <1>7

LEMMA RefusalNext ==
    ASSUME BuildInv, RefusalInv, [Next]_vars
    PROVE  RefusalInv'
<1>0. /\ None \notin RegistryFailures /\ "Rejected" \notin RegistryFailures
      /\ None \notin Patches /\ None # "Rejected"
  BY NoneAssumption DEF RegistryFailures, Failures
<1>1. CASE UNCHANGED vars
  BY <1>1 DEF vars, RefusalInv
<1>2. ASSUME NEW p \in Patches, patch = None, RejectBuild(p)
      PROVE  RefusalInv'
  <2>1. img' = Failed(NewStage(p.base), "Rejected") /\ job' = None
    BY <1>2 DEF RejectBuild, BuildInv, IdleInv
  <2>2. img'.failure = "Rejected"
    BY <2>1, NewStageImage, FailedImage DEF Keeps
  <2> QED
    BY <1>0, <2>1, <2>2, NoRefusal DEF RefusalInv
<1>3. ASSUME NEW p \in Patches, patch = None, CreateBuild(p)
      PROVE  RefusalInv'
  <2>1. AuthLoads(p) /\ patch' = p /\ img' = NewStage(p.base)
    BY <1>3 DEF CreateBuild
  <2>2. img'.failure \notin RegistryFailures
    BY <1>0, <2>1, NewStageImage
  <2> QED
    BY <2>1, <2>2, NoRefusal DEF RefusalInv
<1>4. CASE Execute
  <2>1. /\ todo # << >> /\ img' = Perform(img, Head(todo), job)
        /\ patch' = patch /\ job' = job
    BY <1>4 DEF Execute
  <2>2. patch \in Patches /\ patch # None /\ img.failure = None /\ IsImage(img)
    BY <2>1, Underway
  <2>3. PICK s \in Programs(patch), k \in Nat :
           k < Len(s) /\ ProgramLaid(patch, s) /\ Head(todo) = s[k + 1]
    BY <2>1, Underway
  <2>4. k + 1 \in 1 .. Len(s)
    BY <2>3, SequenceFacts DEF ProgramLaid
  <2>5. Refusals(job, Perform(img, s[k + 1], job))
    BY <2>2, <2>3, <2>4, PerformRefusal
  <2> QED
    BY <1>0, <2>1, <2>2, <2>3, <2>5 DEF RefusalInv
<1>5. ASSUME NEW why \in {"CommandFailed", "NetworkFailed", "Exit42"}, NEW lines,
             CommandFails(why, lines)
      PROVE  RefusalInv'
  <2>1. todo # << >> /\ img' = Failed(img, why) /\ patch' = patch /\ job' = job
    BY <1>5 DEF CommandFails
  <2>2. IsImage(img) /\ patch # None /\ img.failure = None
    BY <2>1, Underway
  <2>3. img'.failure \notin RegistryFailures
    BY <2>1, <2>2, FailedImage DEF RegistryFailures
  <2> QED
    BY <1>0, <2>1, <2>2, <2>3, NoRefusal DEF RefusalInv
<1>6. CASE Finish
  BY <1>6 DEF Finish, RefusalInv
<1> QED
  BY <1>1, <1>2, <1>3, <1>4, <1>5, <1>6 DEF Next

LEMMA RefusalInvariance ==
    Spec => []RefusalInv
<1>1. Init => RefusalInv
  BY DEF Init, RefusalInv
<1>2. BuildInv /\ RefusalInv /\ [Next]_vars => RefusalInv'
  BY RefusalNext
<1> QED
  BY <1>1, <1>2, BuildInvariance, PTL DEF Spec

(* The account kaniko finds in the one file made of two: the overlay's if  *)
(* it has one that the base does not specialise, the base's if the overlay *)
(* has none.                                                               *)
LEMMA MergedAccount ==
    ASSUME NEW base, NEW overlay, NEW host, NEW path
    PROVE  LET merged == MergeDockerConfigs(base, overlay)
               narrow == RepositoryKey(host, path)
               wide   == LoginKey(host)
           IN  /\ \/ narrow \in DOMAIN overlay.auths
                  \/ wide \in DOMAIN overlay.auths /\ narrow \notin DOMAIN base.auths
                  => KanikoAccount(merged, host, path) = KanikoAccount(overlay, host, path)
               /\ {narrow, wide} \cap DOMAIN overlay.auths = {}
                  => KanikoAccount(merged, host, path) = KanikoAccount(base, host, path)
<1> DEFINE merged == MergeDockerConfigs(base, overlay)
           narrow == RepositoryKey(host, path)
           wide   == LoginKey(host)
           M == merged.auths
           B == base.auths
           O == overlay.auths
<1>1. /\ KanikoAccount(merged, host, path) = Lookup(merged, narrow, wide)
      /\ KanikoAccount(overlay, host, path) = Lookup(overlay, narrow, wide)
      /\ KanikoAccount(base, host, path) = Lookup(base, narrow, wide)
  BY DEF KanikoAccount
<1>2. M = Overlaid(B, O)
  BY DEF MergeDockerConfigs
<1> HIDE DEF narrow, wide, merged
<1>3. /\ DOMAIN M = DOMAIN B \cup DOMAIN O
      /\ \A x \in DOMAIN M : M[x] = IF x \in DOMAIN O THEN O[x] ELSE B[x]
  BY <1>2 DEF Overlaid
<1>4. ASSUME narrow \in DOMAIN O \/ (wide \in DOMAIN O /\ narrow \notin DOMAIN B)
      PROVE  Lookup(merged, narrow, wide) = Lookup(overlay, narrow, wide)
  <2>1. CASE narrow \in DOMAIN O
    <3>1. narrow \in DOMAIN M /\ M[narrow] = O[narrow]
      BY <1>3, <2>1
    <3> QED
      BY <2>1, <3>1 DEF Lookup
  <2>2. CASE narrow \notin DOMAIN O
    <3>1. wide \in DOMAIN O /\ wide \in DOMAIN M /\ narrow \notin DOMAIN M /\ M[wide] = O[wide]
      BY <1>3, <1>4, <2>2
    <3>2. Lookup(merged, narrow, wide) = M[wide]
      BY <3>1 DEF Lookup
    <3>3. Lookup(overlay, narrow, wide) = O[wide]
      BY <2>2, <3>1 DEF Lookup
    <3> QED
      BY <3>1, <3>2, <3>3
  <2> QED
    BY <2>1, <2>2
<1>5. ASSUME {narrow, wide} \cap DOMAIN O = {}
      PROVE  Lookup(merged, narrow, wide) = Lookup(base, narrow, wide)
  <2>1. \A x \in {narrow, wide} : /\ x \in DOMAIN M <=> x \in DOMAIN B
                                  /\ x \in DOMAIN M => M[x] = B[x]
    BY <1>3, <1>5
  <2>2. CASE narrow \in DOMAIN B
    BY <2>1, <2>2 DEF Lookup
  <2>3. CASE narrow \notin DOMAIN B /\ wide \in DOMAIN B
    <3>1. Lookup(merged, narrow, wide) = M[wide]
      BY <2>1, <2>3 DEF Lookup
    <3>2. Lookup(base, narrow, wide) = B[wide]
      BY <2>3 DEF Lookup
    <3> QED
      BY <2>1, <2>3, <3>1, <3>2
  <2>4. CASE narrow \notin DOMAIN B /\ wide \notin DOMAIN B
    <3>1. Lookup(merged, narrow, wide) = Anonymous
      BY <2>1, <2>4 DEF Lookup
    <3>2. Lookup(base, narrow, wide) = Anonymous
      BY <2>4 DEF Lookup
    <3> QED
      BY <3>1, <3>2
  <2> QED
    BY <2>2, <2>3, <2>4
<1> QED
  BY <1>1, <1>4, <1>5 DEF merged, narrow, wide

(* The key that the Job mounts of the default Secret is there.             *)
DefaultIsMountable == "config.json" \in DOMAIN Secrets[DefaultDockerAuthSecret]

(* A push Secret has no entry for the repository of a base image for which *)
(* the pull Secret has but one for the whole registry.                     *)
PullIsNarrower ==
    \A p \in Patches, ref \in DOMAIN BaseImages :
        LET narrow == RepositoryKey(HostOf(ref), PathOf(ref))
            pull == OverlayConfig(p).auths
            push == ConfigOf(BaseSecret(p)).auths
        IN  p.pullSecret # None /\ AuthLoads(p) =>
               (narrow \in DOMAIN push /\ LoginKey(HostOf(ref)) \in DOMAIN pull
                   => narrow \in DOMAIN pull)

LEMMA MountedPull ==
    ASSUME NEW p \in Patches, NEW ref \in DOMAIN BaseImages, AuthLoads(p), PullIsNarrower,
           HasEntry(OverlayConfig(p), ref)
    PROVE  May(MountedConfig(p), HostOf(ref), ref, "pull")
              <=> May(OverlayConfig(p), HostOf(ref), ref, "pull")
<1> DEFINE narrow == RepositoryKey(HostOf(ref), PathOf(ref))
           wide   == LoginKey(HostOf(ref))
           pull == OverlayConfig(p)
           push == ConfigOf(BaseSecret(p))
<1>1. {narrow, wide} \cap DOMAIN pull.auths # {}
  BY DEF HasEntry, KeysFor
<1>2. p.pullSecret # None
  <2>1. DOMAIN NoConfig.auths = {}
    BY DEF NoConfig
  <2>2. p.pullSecret = None => pull = NoConfig
    BY DEF OverlayConfig
  <2> QED
    BY <1>1, <2>1, <2>2
<1>3. MountedConfig(p) = MergeDockerConfigs(push, pull)
  BY <1>2 DEF MountedConfig, HasOwnAuth
<1>4. narrow \in DOMAIN push.auths /\ wide \in DOMAIN pull.auths => narrow \in DOMAIN pull.auths
  BY <1>2 DEF PullIsNarrower
<1>5. narrow \in DOMAIN pull.auths \/ (wide \in DOMAIN pull.auths /\ narrow \notin DOMAIN push.auths)
  BY <1>1, <1>4
<1> HIDE DEF pull, push
<1>6. KanikoAccount(MountedConfig(p), HostOf(ref), PathOf(ref))
         = KanikoAccount(pull, HostOf(ref), PathOf(ref))
  BY <1>3, <1>5, MergedAccount
<1> QED
  BY <1>6 DEF May, pull

LEMMA MountedPush ==
    ASSUME NEW p \in Patches, NEW ref, DefaultIsMountable, ~HasEntry(OverlayConfig(p), ref)
    PROVE  May(MountedConfig(p), HostOf(ref), ref, "push")
              <=> May(ConfigOf(BaseSecret(p)), HostOf(ref), ref, "push")
<1> DEFINE pull == OverlayConfig(p)
           push == ConfigOf(BaseSecret(p))
<1>1. {RepositoryKey(HostOf(ref), PathOf(ref)), LoginKey(HostOf(ref))} \cap DOMAIN pull.auths = {}
  BY DEF HasEntry, KeysFor
<1>2. CASE HasOwnAuth(p)
  <2>1. MountedConfig(p) = MergeDockerConfigs(push, pull)
    BY <1>2 DEF MountedConfig
  <2> HIDE DEF pull, push
  <2>2. KanikoAccount(MountedConfig(p), HostOf(ref), PathOf(ref))
           = KanikoAccount(push, HostOf(ref), PathOf(ref))
    BY <1>1, <2>1, MergedAccount
  <2> QED
    BY <2>2 DEF May, push
<1>3. CASE ~HasOwnAuth(p)
  <2>1. MountedConfig(p) = Secrets[DefaultDockerAuthSecret]["config.json"]
    BY <1>3 DEF MountedConfig
  <2>2. push = Secrets[DefaultDockerAuthSecret]["config.json"]
    BY <1>3 DEF HasOwnAuth, BaseSecret, ConfigOf, ExtractDockerConfig, DefaultIsMountable
  <2> QED
    BY <2>1, <2>2
<1> QED
  BY <1>2, <1>3

LEMMA CredentialsKept ==
    ASSUME BuildInv, TargetInv, RefusalInv, DefaultIsMountable, PullIsNarrower
    PROVE  CredentialsReachKaniko
<1> DEFINE pull == OverlayConfig(patch)
           push == ConfigOf(BaseSecret(patch))
           target == job.destinations[1]
<1> SUFFICES ASSUME Ended
             PROVE  /\ img.failure = "PullDenied"
                          => ~(HasEntry(pull, img.base)
                               /\ May(pull, HostOf(img.base), img.base, "pull"))
                    /\ img.failure = "PushDenied"
                          => HasEntry(pull, target) \/ ~May(push, HostOf(target), target, "push")
  BY DEF CredentialsReachKaniko
<1>1. /\ patch \in Patches /\ patch # None /\ todo = << >>
      /\ job = IF img.failure = "Rejected" THEN None ELSE JobOf(patch)
      /\ img.base \in DOMAIN BaseImages /\ Refusals(job, img)
  BY DEF Ended, BuildInv, RunningInv, FailsFor, RefusalInv
<1>2. ASSUME img.failure \in {"PullDenied", "PushDenied"}
      PROVE  /\ job = JobOf(patch) /\ AuthLoads(patch) /\ job.auth = MountedConfig(patch)
             /\ \A d \in ToSet(job.destinations) : ValidTag(d)
  <2>1. job = JobOf(patch) /\ img.failure \notin {"Rejected", "InvalidTag"}
    BY <1>1, <1>2
  <2>2. job.auth = MountedConfig(patch)
    BY <2>1 DEF JobOf
  <2> QED
    BY <1>1, <2>1, <2>2 DEF TargetInv, RefusalInv
<1>3. ASSUME img.failure = "PullDenied", HasEntry(pull, img.base),
             May(pull, HostOf(img.base), img.base, "pull")
      PROVE  FALSE
  <2>1. AuthLoads(patch) /\ job.auth = MountedConfig(patch)
    BY <1>2, <1>3
  <2>2. May(job.auth, HostOf(img.base), img.base, "pull")
    BY <1>1, <1>3, <2>1, MountedPull
  <2>3. /\ Registries[HostOf(img.base)].up
        /\ \A h \in Sources(job, img.base) :
              ~(Registries[h].up /\ May(job.auth, h, img.base, "pull"))
    BY <1>1, <1>3 DEF Refusals
  <2>4. HostOf(img.base) \in Sources(job, img.base)
    BY DEF Sources
  <2> QED
    BY <2>2, <2>3, <2>4
<1>4. ASSUME img.failure = "PushDenied", ~HasEntry(pull, target)
      PROVE  ~May(push, HostOf(target), target, "push")
  <2>1. PICK d \in ToSet(job.destinations) : ~May(job.auth, HostOf(d), d, "push")
    BY <1>1, <1>4 DEF Refusals
  <2>2. /\ job = JobOf(patch) /\ job.auth = MountedConfig(patch)
        /\ target = Destination(patch) /\ ValidTag(target) /\ Sequence(target)
    BY <1>1, <1>2, <1>4, JobTarget, DestinationIsRef
  <2>3. SameRepository(d, target)
    <3>1. DedupDestination(patch) \in {<< >>, ComputeDedupRef(target)}
      BY <2>2 DEF DedupDestination
    <3>2. \/ job.destinations = <<target>>
          \/ /\ job.destinations = <<target, DedupDestination(patch)>>
             /\ DedupDestination(patch) # << >>
      BY <2>2 DEF JobOf
    <3> HIDE DEF target
    <3>3. d = target \/ (d = DedupDestination(patch) /\ d # << >>)
      BY <2>1, <3>2 DEF ToSet
    <3>4. d = target \/ (d = ComputeDedupRef(target) /\ ComputeDedupRef(target) # << >>)
      BY <3>1, <3>3
    <3> QED
      BY <2>2, <3>4, DedupInRepository DEF SameRepository
  <2> HIDE DEF target
  <2>4. ~May(job.auth, HostOf(target), target, "push")
    BY <2>1, <2>3 DEF May, SameRepository
  <2>5. ~May(MountedConfig(patch), HostOf(target), target, "push")
    BY <2>2, <2>4
  <2> QED
    BY <1>1, <1>4, <2>5, MountedPush
<1> QED
  BY <1>3, <1>4

(* With the credentials merged into one file, kaniko is refused a pull     *)
(* only if the pull Secret's account is, and a push only if the push       *)
(* Secret's is or the pull Secret speaks of the target too: for Secrets    *)
(* with any entries, and any registries, as long as the push Secret does   *)
(* not name the repository of a base image which the pull Secret opens by  *)
(* its registry (imagepatch_controller.go:669-670, 739-742).               *)
THEOREM MergedCredentialsReachKaniko ==
    ASSUME DefaultIsMountable, PullIsNarrower
    PROVE  Spec => []CredentialsReachKaniko
<1>1. BuildInv /\ TargetInv /\ RefusalInv => CredentialsReachKaniko
  BY CredentialsKept
<1> QED
  BY <1>1, BuildInvariance, TargetInvariance, RefusalInvariance, PTL

-----------------------------------------------------------------------------
(* Mirrors.                                                                *)

LEMMA LastPairCounts ==
    ASSUME NEW S, S \subseteq Nat, NEW n \in S, \A l \in S : ~(l > n)
    PROVE  Max(S) = n
<1>1. \A l \in S : n >= l
  OBVIOUS
<1>2. \A m \in S : (\A l \in S : m >= l) => m = n
  BY <1>1
<1> QED
  BY <1>1, <1>2 DEF Max

LEMMA MirrorIsSource ==
    ASSUME NEW p, NEW ref, NEW n \in DOMAIN Environment.KANIKO_REGISTRY_MAP,
           LET pairs == Environment.KANIKO_REGISTRY_MAP
           IN  /\ << >> \notin {pairs[n][1], pairs[n][2]}
               /\ \/ pairs[n][1] = HostOf(ref)
                  \/ HostOf(ref) = Hub /\ pairs[n][1] = DockerIO
               /\ ~\E l \in DOMAIN pairs :
                     /\ l > n /\ << >> \notin {pairs[l][1], pairs[l][2]}
                     /\ pairs[l][1] = pairs[n][1]
    PROVE  Environment.KANIKO_REGISTRY_MAP[n][2] \in Sources(JobOf(p), ref)
<1> DEFINE pairs == Environment.KANIKO_REGISTRY_MAP
           valid == {l \in DOMAIN pairs : << >> \notin {pairs[l][1], pairs[l][2]}}
           t == pairs[n][1]
           S == {l \in valid : pairs[l][1] = t}
           map == RegistryMapFromEnv
<1>1. Max(S) = n
  <2>1. DOMAIN pairs \subseteq Nat
    BY RegistryMapAssumption
  <2>2. S \subseteq Nat /\ n \in S /\ \A l \in S : ~(l > n)
    BY <2>1
  <2> HIDE DEF S
  <2> QED
    BY <2>2, LastPairCounts
<1>2. t \in DOMAIN map /\ map[t] = pairs[n][2]
  <2>1. map = [u \in {pairs[l][1] : l \in valid} |->
                  pairs[Max({l \in valid : pairs[l][1] = u})][2]]
    BY DEF RegistryMapFromEnv
  <2>2. t \in {pairs[l][1] : l \in valid}
    OBVIOUS
  <2>3. map[t] = pairs[Max(S)][2]
    BY <2>1, <2>2
  <2> QED
    BY <1>1, <2>1, <2>2, <2>3
<1> HIDE DEF map
<1>3. HostOf(ref) # DockerIO
  <2>1. Hub[1] # DockerIO[1]
    BY DEF Hub, DockerIO
  <2>2. Hub # DockerIO
    BY <2>1
  <2> QED
    BY <2>2 DEF HostOf
<1>4. (IF t = DockerIO THEN Hub ELSE t) = HostOf(ref)
  BY <1>3
<1>5. <<HostOf(ref), pairs[n][2]>> \in RegistryMapArgs(map)
  BY <1>2, <1>4 DEF RegistryMapArgs
<1>6. JobOf(p).registryMap = RegistryMapArgs(map)
  BY DEF JobOf, map
<1> QED
  BY <1>5, <1>6 DEF Sources

(* A registry that is out of reach fails no build while a mirror of it is  *)
(* up and lets the build pull, by whichever of its names the environment   *)
(* sets the mirror (imagepatch_controller.go:1306-1355).                   *)
THEOREM MirrorsServeTheirRegistry ==
    Spec => []MirrorsAreUsed
<1>1. ASSUME BuildInv, RefusalInv
      PROVE  MirrorsAreUsed
  <2> DEFINE pairs == Environment.KANIKO_REGISTRY_MAP
  <2>1. ASSUME Ended, img.failure = "Unreachable"
        PROVE  /\ job = JobOf(patch)
               /\ \A h \in Sources(job, img.base) :
                     ~(Registries[h].up /\ May(job.auth, h, img.base, "pull"))
    <3>1. patch # None /\ job = JobOf(patch)
      BY <1>1, <2>1 DEF Ended, BuildInv, RunningInv
    <3>2. Refusals(job, img)
      BY <1>1, <3>1 DEF RefusalInv
    <3> QED
      BY <2>1, <3>1, <3>2 DEF Refusals
  <2> SUFFICES ASSUME Ended, img.failure = "Unreachable",
                      NEW n \in DOMAIN pairs,
                      << >> \notin {pairs[n][1], pairs[n][2]},
                      pairs[n][1] \in {HostOf(img.base)}
                          \cup (IF HostOf(img.base) = Hub THEN {DockerIO} ELSE {}),
                      ~\E l \in DOMAIN pairs :
                          /\ l > n /\ << >> \notin {pairs[l][1], pairs[l][2]}
                          /\ pairs[l][1] = pairs[n][1],
                      Registries[pairs[n][2]].up,
                      May(job.auth, pairs[n][2], img.base, "pull")
               PROVE  FALSE
    BY DEF MirrorsAreUsed
  <2>2. pairs[n][2] \in Sources(job, img.base)
    BY <2>1, MirrorIsSource
  <2> QED
    BY <2>1, <2>2
<1> QED
  BY <1>1, BuildInvariance, RefusalInvariance, PTL

-----------------------------------------------------------------------------
(* Two programs of one spec.                                               *)
LEMMA ProgramIs ==
    ASSUME NEW p, NEW s \in Programs(p)
    PROVE  \E o \in EnvOrders(p), m \in Mirrors, i \in Mirrors :
              s = <<CheckPush>> \o GenerateDockerfile(p, o, m, i) \o <<Push>>
  BY DEF Programs

LEMMA ProgramCourses ==
    ASSUME NEW p \in Patches, NEW s \in Programs(p), NEW t \in Programs(p)
    PROVE  \E o, q, e, r :
              /\ Courses(p.env, o, q, s, t, e, r) /\ r < Len(s)
              /\ {o[n] : n \in 1 .. Len(o)} = DOMAIN p.env
              /\ {q[n] : n \in 1 .. Len(q)} = DOMAIN p.env
<1>0. WellTyped(p)
  BY SpecsAssumption
<1>1. PICK o \in EnvOrders(p), m \in Mirrors, i \in Mirrors :
         s = <<CheckPush>> \o GenerateDockerfile(p, o, m, i) \o <<Push>>
  BY ProgramIs
<1>2. PICK q \in EnvOrders(p), l \in Mirrors, j \in Mirrors :
         t = <<CheckPush>> \o GenerateDockerfile(p, q, l, j) \o <<Push>>
  BY ProgramIs
<1>3. /\ Sequence(o) /\ Sequence(q) /\ Len(q) = Len(o)
      /\ {o[n] : n \in 1 .. Len(o)} = DOMAIN p.env
      /\ {q[n] : n \in 1 .. Len(q)} = DOMAIN p.env
  BY <1>0, OrderFacts
<1> DEFINE u  == Opening(p) \o Copies(p)
           s2 == u \o EnvLines(p, o)
           t2 == u \o EnvLines(p, q)
           s3 == s2 \o AptMirror(p)
           t3 == t2 \o AptMirror(p)
           s4 == s3 \o AptInstall(p, m)
           t4 == t3 \o AptInstall(p, l)
           s5 == s4 \o PipInstall(p, i)
           t5 == t4 \o PipInstall(p, j)
           s6 == s5 \o CreateUser(p)
           t6 == t5 \o CreateUser(p)
           s7 == s6 \o ShellSteps(p)
           t7 == t6 \o ShellSteps(p)
           s8 == s7 \o RunAsUser(p)
           t8 == t7 \o RunAsUser(p)
           s9 == s8 \o Start(p)
           t9 == t8 \o Start(p)
           e  == Len(u)
           r  == Len(s3)
           C(a, b) == Courses(p.env, o, q, a, b, e, r)
<1>4. GenerateDockerfile(p, o, m, i) = s9 /\ GenerateDockerfile(p, q, l, j) = t9
  BY DEF GenerateDockerfile, Opening
<1>5. Opened(u)
  BY <1>0, QuietParts, QuietJoined
<1>6. /\ Courses(p.env, o, q, s2, t2, e, Len(u) + Len(o))
      /\ Len(s2) = Len(u) + Len(o)
  <2>1. Sequence(o) /\ Sequence(q) /\ Len(q) = Len(o)
    BY <1>3
  <2> QED
    BY <1>5, <2>1, CoursesBegun
<1> HIDE DEF e
<1>7. Courses(p.env, o, q, s2, t2, e, Len(s2))
  BY <1>6
<1> HIDE DEF s2, t2, u
<1>8. C(s3, t3)
  BY <1>0, <1>7, QuietParts, CoursesQuietly
<1> HIDE DEF s3, t3
<1>9. C(s4, t4)
  <2> DEFINE v == AptInstall(p, m)
             w == AptInstall(p, l)
  <2>1. Sequence(v) /\ Sequence(w)
    BY AptInstallPart DEF PartOf
  <2>2. \/ v = << >> /\ w = << >>
        \/ v = <<AptRun(p.apt.install, m)>> /\ w = <<AptRun(p.apt.install, l)>>
    BY DEF AptInstall, AptRun, Given
  <2>3. AptAlike(AptRun(p.apt.install, m), AptRun(p.apt.install, l))
    BY DEF AptAlike
  <2> HIDE DEF v, w
  <2>4. Len(w) = Len(v) /\ \A n \in 1 .. Len(v) : n = 1 /\ AptAlike(v[n], w[n])
    <3> DEFINE x == AptRun(p.apt.install, m)
               y == AptRun(p.apt.install, l)
    <3>1. AptAlike(x, y)
      BY <2>3
    <3>2. (v = << >> /\ w = << >>) \/ (v = <<x>> /\ w = <<y>>)
      BY <2>2
    <3> HIDE DEF x, y
    <3>3. CASE v = << >> /\ w = << >>
      BY <3>3
    <3>4. CASE v = <<x>> /\ w = <<y>>
      BY <3>1, <3>4
    <3> QED
      BY <3>2, <3>3, <3>4
  <2>5. \A n \in 1 .. Len(v) : n = 1 /\ r = Len(s3) /\ AptAlike(v[n], w[n])
    BY <2>4
  <2> HIDE DEF r
  <2> QED
    BY <1>8, <2>1, <2>4, <2>5, CoursesExtended DEF v, w
<1> HIDE DEF r
<1> HIDE DEF s4, t4
<1>10. C(s5, t5)
  <2> DEFINE v == PipInstall(p, i)
             w == PipInstall(p, j)
  <2>1. Sequence(v) /\ Sequence(w)
    BY PipInstallPart DEF PartOf
  <2>2. \/ v = << >> /\ w = << >>
        \/ v = <<PipRun(p.pip.install, i)>> /\ w = <<PipRun(p.pip.install, j)>>
    BY DEF PipInstall, PipRun, Given
  <2>3. PipAlike(PipRun(p.pip.install, i), PipRun(p.pip.install, j))
    BY DEF PipAlike
  <2> HIDE DEF v, w
  <2>4. Len(w) = Len(v) /\ \A n \in 1 .. Len(v) : PipAlike(v[n], w[n])
    BY <2>2, <2>3
  <2> QED
    BY <1>9, <2>1, <2>4, CoursesExtended DEF v, w
<1> HIDE DEF s5, t5
<1>11. C(s6, t6)
  BY <1>10, CreateUserPart, CoursesSame DEF PartOf
<1> HIDE DEF s6, t6
<1>12. C(s7, t7)
  BY <1>0, <1>11, ShellStepsPart, CoursesSame DEF PartOf
<1> HIDE DEF s7, t7
<1>13. C(s8, t8)
  BY <1>12, RunAsUserPart, CoursesSame DEF PartOf
<1> HIDE DEF s8, t8
<1>14. C(s9, t9)
  BY <1>13, StartPart, CoursesSame DEF PartOf
<1> HIDE DEF s9, t9
<1>15. Quiet(CheckPush)
  BY DEF Quiet, CheckPush
<1> DEFINE s10 == <<CheckPush>> \o s9
           t10 == <<CheckPush>> \o t9
<1>16. Courses(p.env, o, q, s10, t10, e + 1, r + 1)
  BY <1>14, <1>15, CoursesPrefixed
<1> HIDE DEF s10, t10
<1>17. Sequence(<<Push>>)
  BY DEF Sequence, ToSet
<1>18. Courses(p.env, o, q, s10 \o <<Push>>, t10 \o <<Push>>, e + 1, r + 1)
  BY <1>16, <1>17, CoursesSame
<1>19. s = s10 \o <<Push>> /\ t = t10 \o <<Push>>
  BY <1>1, <1>2, <1>4 DEF s10, t10
<1>20. r + 1 < Len(s)
  <2>1. Sequence(s10) /\ Len(s10) \in Nat /\ r + 1 <= Len(s10) /\ r + 1 \in Nat
    BY <1>16, SequenceFacts DEF Courses
  <2>2. Sequence(s10) /\ Sequence(<<Push>>)
    BY <1>17, <2>1
  <2>3. Len(s10 \o <<Push>>) = Len(s10) + Len(<<Push>>)
    BY <2>2, Concat
  <2>4. Len(<<Push>>) = 1
    OBVIOUS
  <2> QED
    BY <1>19, <2>1, <2>3, <2>4
<1> QED
  BY <1>3, <1>18, <1>19, <1>20

-----------------------------------------------------------------------------
(* Two executions of one instruction: what succeeds does not depend on the *)
(* Job.                                                                    *)

Ops == {"FROM", "SHELL", "USER", "WORKDIR", "ENV", "COPY", "RUN",
        "ENTRYPOINT", "CMD", "CHECK-PUSH", "PUSH"}

Sound(i)    == IsImage(i) /\ i.failure = None
Listless(i) == i.list = FALSE

LEMMA FailureIsNone ==
    ASSUME NEW i, IsImage(i), NEW why \in Failures
    PROVE  Failed(i, why).failure # None
<1>1. Failed(i, why).failure = why
  BY FailedImage
<1> QED
  BY <1>1, NoneAssumption

LEMMA OneEffect ==
    ASSUME NEW i, NEW c
    PROVE  FoldLeft(Effect, i, <<c>>) = Effect(i, c)
<1> DEFINE s == <<c>>
<1>1. Sequence(s) /\ Len(s) = 1 /\ s[1] = c
  BY DEF Sequence, ToSet
<1> HIDE DEF s
<1>2. \E f : /\ f[0] = i
             /\ \A n \in 1..Len(s) : f[n] = Effect(f[n - 1], s[n])
             /\ FoldLeft(Effect, i, s) = f[Len(s)]
  <2>1. Sequence(s)
    BY <1>1
  <2> QED
    BY <2>1, Folded, ZenonT(60)
<1>3. PICK f : /\ f[0] = i
               /\ \A n \in 1..Len(s) : f[n] = Effect(f[n - 1], s[n])
               /\ FoldLeft(Effect, i, s) = f[Len(s)]
  BY <1>2
<1>4. 1 \in 1 .. Len(s) /\ 1 - 1 = 0
  BY <1>1
<1>5. f[1] = Effect(f[0], s[1])
  BY <1>3, <1>4
<1>6. FoldLeft(Effect, i, s) = Effect(i, c)
  BY <1>1, <1>3, <1>5
<1> QED
  BY <1>6 DEF s

(* A RUN that succeeds has executed its commands.                          *)
LEMMA RunSound ==
    ASSUME NEW i, Sound(i), NEW s, RunAll(i, s).failure = None
    PROVE  RunAll(i, s) = FoldLeft(Effect, i, s)
<1>1. Failed(i, "NoShell").failure # None /\ Failed(i, "NoSuchUser").failure # None
  BY FailureIsNone DEF Sound, Failures
<1>2. \/ RunAll(i, s) = Failed(i, "NoShell")
      \/ RunAll(i, s) = Failed(i, "NoSuchUser")
      \/ RunAll(i, s) = FoldLeft(Effect, i, s)
  BY DEF RunAll
<1> QED
  BY <1>1, <1>2

LEMMA SameStep ==
    ASSUME NEW i, Sound(i), NEW in, in.op \in Ops, NEW b, NEW d,
           Perform(i, in, b).failure = None, Perform(i, in, d).failure = None
    PROVE  Perform(i, in, b) = Perform(i, in, d)
<1>0. IsImage(i) /\ i.failure = None
  BY DEF Sound
<1>1. CASE in.op = "CHECK-PUSH"
  <2>1. Perform(i, in, b) = Pushable(i, b) /\ Perform(i, in, d) = Pushable(i, d)
    BY <1>1 DEF Perform
  <2>2. None \notin {"InvalidTag", "PushDenied"}
    BY NoneAssumption DEF Failures
  <2> QED
    BY <1>0, <2>1, <2>2, PushableImage
<1>2. CASE in.op = "FROM"
  <2>1. Perform(i, in, b) = Pull(b, in.image) /\ Perform(i, in, d) = Pull(d, in.image)
    BY <1>2 DEF Perform
  <2>2. ASSUME NEW job2, Pull(job2, in.image).failure = None
        PROVE  Pull(job2, in.image) = NewStage(in.image)
    <3>1. \/ Pull(job2, in.image) = NewStage(in.image)
          \/ \E why \in {"PullDenied", "Unreachable", "NoPlatform"} :
                Pull(job2, in.image) = Failed(NewStage(in.image), why)
      BY DEF Pull
    <3>2. \A why \in {"PullDenied", "Unreachable", "NoPlatform"} :
             Failed(NewStage(in.image), why).failure # None
      BY FailureIsNone, NewStageImage DEF Failures
    <3> QED
      BY <2>2, <3>1, <3>2
  <2> QED
    BY <2>1, <2>2
<1>3. CASE in.op = "PUSH"
  <2>1. Perform(i, in, b) = Pushed(i, b) /\ Perform(i, in, d) = Pushed(i, d)
    BY <1>3 DEF Perform
  <2>2. None # "BlobUnknown"
    BY NoneAssumption DEF Failures
  <2> QED
    BY <1>0, <2>1, <2>2, PushedImage
<1>4. CASE in.op \in Ops \ {"CHECK-PUSH", "FROM", "PUSH"}
  BY <1>4 DEF Perform, Ops
<1> QED
  BY <1>1, <1>2, <1>3, <1>4

LEMMA PipEffect ==
    ASSUME NEW i, i.failure = None, NEW c, c.do = "pip-install"
    PROVE  Effect(i, c) = Layer(i, <<"pip", i.user, c.packages>>)
  BY DEF Effect

LEMMA AptEffect ==
    ASSUME NEW i, Sound(i), NEW c, c.do = "apt-install", Effect(i, c).failure = None
    PROVE  Effect(i, c) = Layer(i, <<"apt", c.packages>>)
<1> DEFINE k == Layer(i, <<"apt", c.packages>>)
<1>1. i.failure = None /\ IsImage(i)
  BY DEF Sound
<1>2. /\ Failed(i, "PermissionDenied").failure # None
      /\ Failed(i, "NoApt").failure # None
  BY <1>1, FailureIsNone DEF Failures
<1>3. Effect(i, c) = IF Supported(i) THEN AsRoot(i, k) ELSE Failed(i, "NoApt")
  BY <1>1 DEF Effect
<1>4. AsRoot(i, k) = k \/ AsRoot(i, k) = Failed(i, "PermissionDenied")
  BY DEF AsRoot
<1> HIDE DEF k
<1>5. Effect(i, c) = k
  BY <1>2, <1>3, <1>4
<1> QED
  BY <1>5 DEF k

LEMMA ListEffects ==
    ASSUME NEW i, i.failure = None, NEW c
    PROVE  /\ c.do = "write-list"  => Effect(i, c) = [i EXCEPT !.list = TRUE]
           /\ c.do = "remove-list" => Effect(i, c) = [i EXCEPT !.list = FALSE]
<1>1. CASE c.do = "write-list"
  BY <1>1 DEF Effect
<1>2. CASE c.do = "remove-list"
  BY <1>2 DEF Effect
<1> QED
  BY <1>1, <1>2

LEMMA QuietEffect ==
    ASSUME NEW i, Sound(i), NEW c, c.do \in {"check-os", "write-sources"},
           Effect(i, c).failure = None
    PROVE  Effect(i, c).list = i.list /\ Effect(i, c).env = i.env
<1> DEFINE k == [i EXCEPT !.sources = c.mirror]
           j == Effect(i, c)
<1>1. i.failure = None /\ IsImage(i)
  BY DEF Sound
<1>2. /\ Failed(i, "PermissionDenied").failure # None
      /\ Failed(i, "NoApt").failure # None
      /\ Failed(i, "ImageOSNotSupported").failure # None
  BY <1>1, FailureIsNone DEF Failures
<1>3. k.list = i.list /\ k.env = i.env
  BY <1>1 DEF IsImage
<1>4. \/ j = IF Supported(i) THEN AsRoot(i, k) ELSE Failed(i, "NoApt")
      \/ j = IF Supported(i) THEN i ELSE Failed(i, "ImageOSNotSupported")
  BY <1>1 DEF Effect
<1>5. AsRoot(i, k) = k \/ AsRoot(i, k) = Failed(i, "PermissionDenied")
  BY DEF AsRoot
<1>6. j.failure = None
  OBVIOUS
<1> HIDE DEF k, j
<1>7. j = k \/ j = i
  BY <1>2, <1>4, <1>5, <1>6
<1>8. j.list = i.list /\ j.env = i.env
  BY <1>3, <1>7
<1> QED
  BY <1>8 DEF j

(* A list that is written and removed again leaves no trace.               *)
LEMMA ListRemoved ==
    ASSUME NEW i, IsImage(i), NEW v, i.list = v, NEW w, NEW did
    PROVE  [Layer([i EXCEPT !.list = w], did) EXCEPT !.list = v] = Layer(i, did)
<1> DEFINE k == [i EXCEPT !.list = w]
           n == Layer(k, did)
           l == Layer(i, did)
           a == Append(i.layers, did)
<1> SUFFICES [n EXCEPT !.list = v] = l
  OBVIOUS
<1>1. i = [base |-> i.base, user |-> i.user, workdir |-> i.workdir, env |-> i.env,
           files |-> i.files, list |-> v, sources |-> i.sources, users |-> i.users,
           groups |-> i.groups, sudoers |-> i.sudoers, layers |-> i.layers,
           entrypoint |-> i.entrypoint, cmd |-> i.cmd, failure |-> i.failure]
  BY DEF IsImage
<1>2. k = [base |-> i.base, user |-> i.user, workdir |-> i.workdir, env |-> i.env,
           files |-> i.files, list |-> w, sources |-> i.sources, users |-> i.users,
           groups |-> i.groups, sudoers |-> i.sudoers, layers |-> i.layers,
           entrypoint |-> i.entrypoint, cmd |-> i.cmd, failure |-> i.failure]
  BY <1>1
<1> HIDE DEF k
<1>3. n = [base |-> i.base, user |-> i.user, workdir |-> i.workdir, env |-> i.env,
           files |-> i.files, list |-> w, sources |-> i.sources, users |-> i.users,
           groups |-> i.groups, sudoers |-> i.sudoers, layers |-> a,
           entrypoint |-> i.entrypoint, cmd |-> i.cmd, failure |-> i.failure]
  BY <1>2, SMTT(30) DEF Layer
<1> HIDE DEF n, l, a
<1>4. [n EXCEPT !.list = v] =
          [base |-> i.base, user |-> i.user, workdir |-> i.workdir, env |-> i.env,
           files |-> i.files, list |-> v, sources |-> i.sources, users |-> i.users,
           groups |-> i.groups, sudoers |-> i.sudoers, layers |-> a,
           entrypoint |-> i.entrypoint, cmd |-> i.cmd, failure |-> i.failure]
  BY <1>3
<1>5. l = [base |-> i.base, user |-> i.user, workdir |-> i.workdir, env |-> i.env,
           files |-> i.files, list |-> v, sources |-> i.sources, users |-> i.users,
           groups |-> i.groups, sudoers |-> i.sudoers, layers |-> a,
           entrypoint |-> i.entrypoint, cmd |-> i.cmd, failure |-> i.failure]
  BY <1>1, SMTT(30) DEF Layer, l, a
<1> QED
  BY <1>4, <1>5

LEMMA ListedImage ==
    ASSUME NEW i, Sound(i), NEW w
    PROVE  Sound([i EXCEPT !.list = w])
  BY DEF Sound, IsImage

(* pip: from whatever index.                                               *)
LEMMA PipStep ==
    ASSUME NEW i, Sound(i), NEW packages, NEW m, NEW b,
           Perform(i, PipRun(packages, m), b).failure = None
    PROVE  Perform(i, PipRun(packages, m), b) = Layer(i, <<"pip", i.user, packages>>)
<1> DEFINE c == [do |-> "pip-install", packages |-> packages, index |-> m]
           j == Perform(i, PipRun(packages, m), b)
<1>1. j = RunAll(i, <<c>>)
  BY DEF Perform, PipRun, Run
<1>2. j = Effect(i, c)
  <2>1. RunAll(i, <<c>>).failure = None
    BY <1>1
  <2> QED
    BY <1>1, <2>1, RunSound, OneEffect
<1>3. c.do = "pip-install" /\ c.packages = packages /\ i.failure = None
  BY DEF Sound
<1> HIDE DEF c, j
<1>4. Effect(i, c) = Layer(i, <<"pip", i.user, c.packages>>)
  BY <1>3, PipEffect
<1> QED
  BY <1>2, <1>3, <1>4 DEF j

(* apt: with and without a list of its own, which is gone afterwards.      *)
LEMMA AptStep ==
    ASSUME NEW i, Sound(i), Listless(i), NEW packages, NEW m, NEW b,
           Perform(i, AptRun(packages, m), b).failure = None
    PROVE  Perform(i, AptRun(packages, m), b) = Layer(i, <<"apt", packages>>)
<1> DEFINE x == [do |-> "write-list", mirror |-> m]
           c == [do |-> "apt-install", packages |-> packages]
           z == [do |-> "remove-list"]
           s == <<x>> \o <<c>> \o <<z>>
           j == Perform(i, AptRun(packages, m), b)
           l == Layer(i, <<"apt", packages>>)
<1> SUFFICES j = l
  OBVIOUS
<1>0. /\ x.do = "write-list" /\ c.do = "apt-install" /\ c.packages = packages
      /\ z.do = "remove-list"
  OBVIOUS
<1>a. m = None => j = RunAll(i, <<c>>)
  BY DEF Perform, AptRun, Run
<1>b. m # None => j = RunAll(i, s)
  BY DEF Perform, AptRun, Run
<1>c. j.failure = None
  OBVIOUS
<1>d. s = <<x, c, z>>
  BY Triple
<1> HIDE DEF x, c, z, s, j
<1>1. CASE m = None
  <2>1. RunAll(i, <<c>>).failure = None
    BY <1>1, <1>a, <1>c
  <2>2. j = Effect(i, c)
    BY <1>1, <1>a, <2>1, RunSound, OneEffect
  <2>3. Effect(i, c) = Layer(i, <<"apt", c.packages>>)
    <3>1. Effect(i, c).failure = None /\ c.do = "apt-install"
      BY <1>0, <1>c, <2>2
    <3> QED
      BY <3>1, AptEffect
  <2> QED
    BY <1>0, <2>2, <2>3
<1>2. CASE m # None
  <2>1. Sequence(s)
    BY <1>d DEF Sequence, ToSet
  <2>2. Len(s) = 3 /\ s[1] = x /\ s[2] = c /\ s[3] = z
    BY <1>d
  <2>3. RunAll(i, s).failure = None
    BY <1>2, <1>b, <1>c
  <2>4. j = FoldLeft(Effect, i, s)
    BY <1>2, <1>b, <2>3, RunSound
  <2>5. \E f : /\ f[0] = i
               /\ \A n \in 1..Len(s) : f[n] = Effect(f[n - 1], s[n])
               /\ FoldLeft(Effect, i, s) = f[Len(s)]
    BY <2>1, Folded, ZenonT(60)
  <2>6. PICK f : /\ f[0] = i
                 /\ \A n \in 1..Len(s) : f[n] = Effect(f[n - 1], s[n])
                 /\ FoldLeft(Effect, i, s) = f[Len(s)]
    BY <2>5
  <2> DEFINE u == Effect(i, x)
             v == Effect(u, c)
  <2>7. j = Effect(v, z)
    <3>1. 1 \in 1..Len(s) /\ 2 \in 1..Len(s) /\ 3 \in 1..Len(s) /\ 1 - 1 = 0 /\ 2 - 1 = 1 /\ 3 - 1 = 2
      BY <2>2
    <3>2. f[1] = Effect(f[1 - 1], s[1]) /\ f[2] = Effect(f[2 - 1], s[2]) /\ f[3] = Effect(f[3 - 1], s[3])
      BY <2>6, <3>1
    <3>3. f[1] = u
      BY <2>2, <2>6, <3>1, <3>2
    <3>4. f[2] = v
      BY <2>2, <3>1, <3>2, <3>3
    <3> HIDE DEF u, v
    <3> QED
      BY <2>2, <2>4, <2>6, <3>1, <3>2, <3>4
  <2> DEFINE there == TRUE
             gone  == FALSE
  <2>8. u = [i EXCEPT !.list = there] /\ i.list = gone /\ i.failure = None /\ IsImage(i)
    BY <1>0, ListEffects DEF Sound, Listless
  <2> HIDE DEF there
  <2>9. Sound(u)
    BY <2>8, ListedImage
  <2> HIDE DEF u
  <2>10. v.failure = None
    <3>1. ASSUME v.failure # None
          PROVE  Effect(v, z) = v
      BY <3>1 DEF Effect
    <3> HIDE DEF v
    <3> QED
      BY <1>c, <2>7, <3>1
  <2>11. v = Layer(u, <<"apt", packages>>)
    BY <1>0, <2>9, <2>10, AptEffect
  <2> HIDE DEF v
  <2>12. j = [v EXCEPT !.list = gone]
    BY <1>0, <2>7, <2>10, ListEffects
  <2> HIDE DEF gone
  <2>13. [Layer([i EXCEPT !.list = there], <<"apt", packages>>) EXCEPT !.list = gone] = l
    BY <2>8, ListRemoved
  <2> HIDE DEF l
  <2> QED
    BY <2>8, <2>11, <2>12, <2>13
<1> QED
  BY <1>1, <1>2

LEMMA AlikeStep ==
    ASSUME NEW i, Sound(i), NEW x, NEW y, x.op \in Ops, NEW b, NEW d,
           PipAlike(x, y) \/ (AptAlike(x, y) /\ Listless(i)),
           Perform(i, x, b).failure = None, Perform(i, y, d).failure = None
    PROVE  Perform(i, x, b) = Perform(i, y, d)
<1>1. CASE x = y
  BY <1>1, SameStep
<1>2. ASSUME NEW packages, NEW m, NEW l, x = PipRun(packages, m), y = PipRun(packages, l)
      PROVE  Perform(i, x, b) = Perform(i, y, d)
  <2>1. Perform(i, x, b) = Layer(i, <<"pip", i.user, packages>>)
    BY <1>2, PipStep
  <2>2. Perform(i, y, d) = Layer(i, <<"pip", i.user, packages>>)
    BY <1>2, PipStep
  <2> QED
    BY <2>1, <2>2
<1>3. ASSUME Listless(i), NEW packages, NEW m, NEW l,
             x = AptRun(packages, m), y = AptRun(packages, l)
      PROVE  Perform(i, x, b) = Perform(i, y, d)
  <2>1. Perform(i, x, b) = Layer(i, <<"apt", packages>>)
    BY <1>3, AptStep
  <2>2. Perform(i, y, d) = Layer(i, <<"apt", packages>>)
    BY <1>3, AptStep
  <2> QED
    BY <2>1, <2>2
<1> QED
  BY <1>1, <1>2, <1>3 DEF PipAlike, AptAlike

(* Before the packages: no list of sources, and no ENV.                    *)
LEMMA QuietStep ==
    ASSUME NEW i, Sound(i), Listless(i), NEW in, in.op \in Ops, Quiet(in), NEW b,
           Perform(i, in, b).failure = None
    PROVE  /\ Listless(Perform(i, in, b))
           /\ Perform(i, in, b).env \in {i.env, << >>}
<1> DEFINE j == Perform(i, in, b)
           Kept(x) == x.list = i.list /\ x.env = i.env
<1>0. IsImage(i) /\ i.failure = None /\ in.op # "ENV" /\ j.failure = None
  BY DEF Sound, Quiet
<1>1. CASE in.op = "FROM"
  <2> DEFINE k == NewStage(in.image)
  <2>1. j = Pull(b, in.image)
    BY <1>1 DEF Perform
  <2>2. \/ j = k
        \/ \E why \in {"PullDenied", "Unreachable", "NoPlatform"} : j = Failed(k, why)
    BY <2>1 DEF Pull
  <2>3. \A why \in {"PullDenied", "Unreachable", "NoPlatform"} : Failed(k, why).failure # None
    BY FailureIsNone, NewStageImage DEF Failures
  <2>4. Listless(k) /\ k.env = << >>
    BY DEF NewStage, Listless
  <2> HIDE DEF j, k
  <2>5. j = k
    BY <1>0, <2>2, <2>3
  <2>6. Listless(j) /\ j.env \in {i.env, << >>}
    BY <2>4, <2>5
  <2> QED
    BY <2>6 DEF j
<1>2. ASSUME in.op # "FROM"
      PROVE  Kept(j)
  <2>1. CASE in.op = "CHECK-PUSH"
    <3>1. j = Pushable(i, b)
      BY <2>1 DEF Perform
    <3>2. None \notin {"InvalidTag", "PushDenied"}
      BY NoneAssumption DEF Failures
    <3>3. j = i
      BY <1>0, <3>1, <3>2, PushableImage
    <3> QED
      BY <3>3
  <2>2. CASE in.op = "PUSH"
    <3>1. j = Pushed(i, b)
      BY <2>2 DEF Perform
    <3>2. None # "BlobUnknown"
      BY NoneAssumption DEF Failures
    <3>3. j = i
      BY <1>0, <3>1, <3>2, PushedImage
    <3> QED
      BY <3>3
  <2>3. CASE in.op = "RUN"
    <3>1. PICK c : in = Run(<<c>>) /\ c.do \in {"check-os", "write-sources"}
      BY <2>3 DEF Quiet
    <3>2. j = RunAll(i, <<c>>)
      BY <3>1 DEF Perform, Run
    <3>3. j = Effect(i, c)
      <4>1. RunAll(i, <<c>>).failure = None
        BY <3>2
      <4> QED
        BY <3>2, <4>1, RunSound, OneEffect
    <3>4. Effect(i, c).failure = None
      BY <3>3
    <3>5. Effect(i, c).list = i.list /\ Effect(i, c).env = i.env
      BY <3>1, <3>4, QuietEffect
    <3> QED
      BY <3>3, <3>5
  <2>4. CASE in.op \in {"SHELL", "USER", "WORKDIR", "COPY", "ENTRYPOINT", "CMD"}
    <3>1. \/ j = i
          \/ \E v : j = [i EXCEPT !.user = v]
          \/ \E v : j = [i EXCEPT !.workdir = v]
          \/ \E v : j = [i EXCEPT !.files = v]
          \/ \E v : j = [i EXCEPT !.entrypoint = v]
          \/ \E v : j = [i EXCEPT !.cmd = v]
      BY <2>4 DEF Perform
    <3>2. \A v : /\ Kept([i EXCEPT !.user = v])  /\ Kept([i EXCEPT !.workdir = v])
                 /\ Kept([i EXCEPT !.files = v]) /\ Kept([i EXCEPT !.entrypoint = v])
                 /\ Kept([i EXCEPT !.cmd = v])
      BY <1>0 DEF IsImage
    <3>3. Kept(i)
      OBVIOUS
    <3> HIDE DEF j, Kept
    <3> QED
      BY <3>1, <3>2, <3>3
  <2> QED
    BY <1>0, <1>2, <2>1, <2>2, <2>3, <2>4 DEF Ops
<1>3. Kept(j) => Listless(j) /\ j.env = i.env
  <2> HIDE DEF j
  <2> QED
    BY DEF Listless
<1> HIDE DEF j, Kept
<1>4. Listless(j) /\ j.env \in {i.env, << >>}
  BY <1>1, <1>2, <1>3 DEF j
<1> QED
  BY <1>4 DEF j

-----------------------------------------------------------------------------
(* The environment.                                                        *)

EnvOf(env, o, j) == [v \in {o[m] : m \in 1 .. j} |-> <<env[v].text, << >> >>]

Unlinked(env) == \A v \in DOMAIN env : env[v].uses \notin DOMAIN env

Having(i, env) == [i EXCEPT !.env = env]

LEMMA HavingEnv ==
    ASSUME NEW i, IsImage(i), NEW x, NEW y
    PROVE  /\ Having(i, x).env = x
           /\ Having(i, x).list = i.list
           /\ Having(Having(i, x), y) = Having(i, y)
           /\ i.env = x => Having(i, x) = i
<1> DEFINE With(x0) ==
             [base |-> i.base, user |-> i.user, workdir |-> i.workdir, env |-> x0,
              files |-> i.files, list |-> i.list, sources |-> i.sources, users |-> i.users,
              groups |-> i.groups, sudoers |-> i.sudoers, layers |-> i.layers,
              entrypoint |-> i.entrypoint, cmd |-> i.cmd, failure |-> i.failure]
           a == Having(i, x)
           b == Having(i, y)
<1>1. i = With(i.env)
  BY DEF IsImage
<1>2. a = With(x) /\ b = With(y)
  BY <1>1 DEF Having
<1>3. a.env = x /\ a.list = i.list
  BY <1>2
<1> HIDE DEF a, b
<1>4. Having(a, y) = With(y)
  BY <1>2 DEF Having
<1>5. i.env = x => a = i
  <2> HIDE DEF With
  <2> QED
    BY <1>1, <1>2
<1> HIDE DEF With
<1>6. Having(a, y) = b
  BY <1>2, <1>4
<1> QED
  BY <1>3, <1>5, <1>6 DEF a, b

LEMMA EnvStep ==
    ASSUME NEW env, NEW o, NEW j \in Nat, NEW i, i.env = EnvOf(env, o, j),
           env[o[j + 1]].uses \notin {o[m] : m \in 1 .. j}, NEW b
    PROVE  Perform(i, Env(o[j + 1], env[o[j + 1]]), b)
              = Having(i, EnvOf(env, o, j + 1))
<1> DEFINE v == o[j + 1]
           x == Expanded(i, env[v])
           S == {o[m] : m \in 1 .. j}
           T == {o[m] : m \in 1 .. j + 1}
<1>1. Perform(i, Env(v, env[v]), b) = Having(i, Updated(i.env, v, x))
  BY DEF Perform, Env, Having
<1>2. DOMAIN i.env = S /\ \A w \in S : i.env[w] = <<env[w].text, << >> >>
  BY DEF EnvOf
<1>3. x = <<env[v].text, << >> >>
  BY <1>2 DEF Expanded
<1>4. T = S \cup {v}
  <2>1. \A m \in 1 .. j + 1 : m \in 1 .. j \/ m = j + 1
    OBVIOUS
  <2>2. \A m \in 1 .. j : m \in 1 .. j + 1
    OBVIOUS
  <2>3. j + 1 \in 1 .. j + 1
    OBVIOUS
  <2> QED
    BY <2>1, <2>2, <2>3
<1> HIDE DEF x, S, T, v
<1>5. Updated(i.env, v, x) = [w \in S \cup {v} |-> IF w = v THEN x ELSE i.env[w]]
  BY <1>2 DEF Updated
<1>6. \A w \in S \cup {v} : (IF w = v THEN x ELSE i.env[w]) = <<env[w].text, << >> >>
  BY <1>2, <1>3
<1>7. Updated(i.env, v, x) = [w \in T |-> <<env[w].text, << >> >>]
  BY <1>4, <1>5, <1>6
<1>8. EnvOf(env, o, j + 1) = [w \in T |-> <<env[w].text, << >> >>]
  BY DEF EnvOf, T
<1>9. Perform(i, Env(v, env[v]), b) = Having(i, EnvOf(env, o, j + 1))
  BY <1>1, <1>7, <1>8
<1> QED
  BY <1>9 DEF v

(* The lines of o follow the e-th instruction of s.                        *)
EnvRun(env, o, s, e, f, b) ==
    \A n \in 1 .. Len(o) : /\ s[e + n] = Env(o[n], env[o[n]])
                           /\ f[e + n] = Perform(f[(e + n) - 1], s[e + n], b)

(* Lines that do not refer to one another make the environment of which    *)
(* they are lines, in whatever order they come.                            *)
LEMMA EnvBlock ==
    ASSUME NEW env, Unlinked(env), NEW o, Len(o) \in Nat,
           {o[n] : n \in 1 .. Len(o)} = DOMAIN env,
           NEW s, NEW e \in Nat, NEW f, NEW b, EnvRun(env, o, s, e, f, b),
           IsImage(f[e]), f[e].env = << >>
    PROVE  f[e + Len(o)]
              = Having(f[e], [v \in DOMAIN env |-> <<env[v].text, << >> >>])
<1> DEFINE i == f[e]
           l == Len(o)
           T == {j \in Nat : j <= l => f[e + j] = Having(i, EnvOf(env, o, j))}
<1>0. IsImage(i) /\ i.env = << >> /\ l \in Nat
  OBVIOUS
<1>1. 0 \in T
  <2>1. EnvOf(env, o, 0) = << >>
    <3>1. {o[m] : m \in 1 .. 0} = {}
      OBVIOUS
    <3> QED
      BY <3>1 DEF EnvOf
  <2>2. f[e + 0] = i
    OBVIOUS
  <2> DEFINE x == EnvOf(env, o, 0)
  <2>3. i.env = x
    BY <1>0, <2>1
  <2> HIDE DEF i, x
  <2>4. Having(i, x) = i
    BY <1>0, <2>3, HavingEnv
  <2>5. f[e + 0] = Having(i, x)
    BY <2>2, <2>4
  <2> QED
    BY <2>5 DEF x
<1>2. ASSUME NEW j \in Nat, j \in T
      PROVE  j + 1 \in T
  <2> DEFINE k == f[e + j]
             v == o[j + 1]
             x == EnvOf(env, o, j)
             y == EnvOf(env, o, j + 1)
  <2> SUFFICES ASSUME j + 1 <= l
               PROVE  f[e + (j + 1)] = Having(i, y)
    OBVIOUS
  <2>1. j + 1 \in 1 .. l /\ (e + (j + 1)) - 1 = e + j /\ j <= l
    BY <1>0
  <2>2. k = Having(i, x)
    BY <1>2, <2>1
  <2>3. f[e + (j + 1)] = Perform(k, Env(v, env[v]), b)
    <3>1. /\ s[e + (j + 1)] = Env(o[j + 1], env[o[j + 1]])
          /\ f[e + (j + 1)] = Perform(f[(e + (j + 1)) - 1], s[e + (j + 1)], b)
      BY <2>1 DEF EnvRun
    <3> QED
      BY <2>1, <3>1
  <2>4. env[v].uses \notin {o[m] : m \in 1 .. j}
    <3>1. v \in DOMAIN env
      BY <2>1
    <3>2. \A m \in 1 .. j : m \in 1 .. l
      BY <1>0, <2>1
    <3>3. {o[m] : m \in 1 .. j} \subseteq DOMAIN env
      BY <3>2
    <3> QED
      BY <3>1, <3>3 DEF Unlinked
  <2> HIDE DEF k, i, l, T
  <2>5. k.env = x
    <3> HIDE DEF x
    <3> QED
      BY <1>0, <2>2, HavingEnv
  <2>6. Perform(k, Env(v, env[v]), b) = Having(k, y)
    BY <2>4, <2>5, EnvStep
  <2> HIDE DEF x, y, v
  <2>7. Having(k, y) = Having(i, y)
    BY <1>0, <2>2, HavingEnv
  <2> QED
    BY <2>3, <2>6, <2>7
<1>3. Nat \subseteq T
  <2> HIDE DEF T
  <2> QED
    BY <1>1, <1>2, Induction
<1>4. f[e + l] = Having(i, EnvOf(env, o, l))
  BY <1>3
<1>5. EnvOf(env, o, l) = [v \in DOMAIN env |-> <<env[v].text, << >> >>]
  BY DEF EnvOf
<1> QED
  BY <1>4, <1>5

-----------------------------------------------------------------------------
(* Two builds in step.                                                     *)

(* f[n] is the image after n instructions of s, none of which failed.      *)
Course(p, s, k, f) ==
    /\ f[0] = NewStage(p.base)
    /\ \A n \in 1 .. k : f[n] = Perform(f[n - 1], s[n], JobOf(p))
    /\ \A n \in 0 .. k : Sound(f[n])

(* Both go from the c-th to the l-th image.                                *)
Together(s, t, f, g, b, d, c, l) ==
    /\ \A n \in c + 1 .. l : /\ f[n] = Perform(f[n - 1], s[n], b)
                            /\ g[n] = Perform(g[n - 1], t[n], d)
                            /\ s[n].op \in Ops
    /\ \A n \in c .. l : Sound(f[n]) /\ Sound(g[n])

Quietly(s, t, c, l) == \A n \in c + 1 .. l : s[n] = t[n] /\ Quiet(s[n])

Alike(s, t, c, l) ==
    \A n \in c + 1 .. l : PipAlike(s[n], t[n]) \/ (n = c + 1 /\ AptAlike(s[n], t[n]))

LEMMA Part ==
    ASSUME NEW s, NEW t, NEW f, NEW g, NEW b, NEW d, NEW z \in Nat,
           Together(s, t, f, g, b, d, 0, z),
           NEW c \in Nat, NEW l \in Nat, l <= z
    PROVE  Together(s, t, f, g, b, d, c, l)
<1>1. /\ \A n \in c + 1 .. l : n \in 0 + 1 .. z
      /\ \A n \in c .. l : n \in 0 .. z
  OBVIOUS
<1> QED
  BY <1>1 DEF Together

LEMMA QuietCourse ==
    ASSUME NEW s, NEW t, NEW f, NEW g, NEW b, NEW d, NEW c \in Nat, NEW l \in Nat, c <= l,
           f[c] = g[c], Listless(f[c]),
           Together(s, t, f, g, b, d, c, l), Quietly(s, t, c, l)
    PROVE  /\ f[l] = g[l] /\ Listless(f[l])
           /\ f[c].env = << >> => f[l].env = << >>
<1> DEFINE Goal(n) == /\ f[n] = g[n] /\ Listless(f[n])
                      /\ f[c].env = << >> => f[n].env = << >>
           T == {n \in Nat : c + n <= l => Goal(c + n)}
<1>1. 0 \in T
  <2>1. c + 0 = c
    OBVIOUS
  <2>2. Goal(c)
    OBVIOUS
  <2> HIDE DEF Goal
  <2> QED
    BY <2>1, <2>2
<1>2. ASSUME NEW n \in Nat, n \in T
      PROVE  n + 1 \in T
  <2> SUFFICES ASSUME c + (n + 1) <= l
               PROVE  Goal(c + (n + 1))
    OBVIOUS
  <2> DEFINE m == c + n
             k == c + (n + 1)
             in == s[k]
  <2>1. m \in c .. l /\ k \in c .. l /\ k \in c + 1 .. l /\ k - 1 = m /\ m <= l
    OBVIOUS
  <2>2. Goal(m)
    BY <1>2, <2>1
  <2>3. /\ f[k] = Perform(f[m], in, b) /\ g[k] = Perform(g[m], in, d)
        /\ Quiet(in) /\ in.op \in Ops
    BY <2>1 DEF Together, Quietly
  <2>4. Sound(f[m]) /\ f[k].failure = None /\ g[k].failure = None
    BY <2>1 DEF Sound, Together
  <2> HIDE DEF m, k, in
  <2> DEFINE i == f[m]
             j == f[k]
  <2>5. /\ i = g[m] /\ Listless(i) /\ Sound(i) /\ j.failure = None
        /\ f[c].env = << >> => i.env = << >>
        /\ j = Perform(i, in, b) /\ g[k] = Perform(i, in, d)
    BY <2>2, <2>3, <2>4
  <2> HIDE DEF i, j
  <2>6. j = g[k]
    BY <2>3, <2>4, <2>5, SameStep
  <2>7. Listless(j) /\ j.env \in {i.env, << >>}
    BY <2>3, <2>5, QuietStep
  <2>8. Goal(k)
    BY <2>5, <2>6, <2>7 DEF j
  <2> QED
    BY <2>8 DEF k
<1>3. Nat \subseteq T
  <2> HIDE DEF T
  <2> QED
    BY <1>1, <1>2, Induction
<1>4. l - c \in Nat /\ c + (l - c) = l /\ l <= l
  OBVIOUS
<1>5. Goal(l)
  <2> HIDE DEF Goal
  <2>1. l - c \in T
    BY <1>3, <1>4
  <2> QED
    BY <1>4, <2>1
<1> QED
  BY <1>5

LEMMA AlikeCourse ==
    ASSUME NEW s, NEW t, NEW f, NEW g, NEW b, NEW d, NEW c \in Nat, NEW l \in Nat, c <= l,
           f[c] = g[c], Listless(f[c]),
           Together(s, t, f, g, b, d, c, l), Alike(s, t, c, l)
    PROVE  f[l] = g[l]
<1> DEFINE T == {n \in Nat : c + n <= l => f[c + n] = g[c + n]}
<1>1. 0 \in T
  <2>1. c + 0 = c
    OBVIOUS
  <2> QED
    BY <2>1
<1>2. ASSUME NEW n \in Nat, n \in T
      PROVE  n + 1 \in T
  <2> SUFFICES ASSUME c + (n + 1) <= l
               PROVE  f[c + (n + 1)] = g[c + (n + 1)]
    OBVIOUS
  <2> DEFINE m == c + n
             k == c + (n + 1)
             x == s[k]
             y == t[k]
             i == f[m]
  <2>1. /\ m \in c .. l /\ k \in c .. l /\ k \in c + 1 .. l /\ k - 1 = m /\ m <= l
        /\ k = c + 1 => m = c
    OBVIOUS
  <2>2. i = g[m]
    BY <1>2, <2>1
  <2>3. /\ f[k] = Perform(i, x, b) /\ g[k] = Perform(g[m], y, d) /\ x.op \in Ops
        /\ PipAlike(x, y) \/ (k = c + 1 /\ AptAlike(x, y))
    BY <2>1 DEF Together, Alike
  <2>4. Sound(i) /\ f[k].failure = None /\ g[k].failure = None
    BY <2>1 DEF Sound, Together
  <2>5. k = c + 1 => Listless(i)
    BY <2>1
  <2> HIDE DEF m, k, x, y, i
  <2>6. PipAlike(x, y) \/ (AptAlike(x, y) /\ Listless(i))
    BY <2>3, <2>5
  <2>7. Perform(i, x, b).failure = None /\ Perform(i, y, d).failure = None
    BY <2>2, <2>3, <2>4
  <2>8. Perform(i, x, b) = Perform(i, y, d)
    BY <2>3, <2>4, <2>6, <2>7, AlikeStep
  <2>9. f[k] = g[k]
    BY <2>2, <2>3, <2>8
  <2> QED
    BY <2>9 DEF k
<1>3. Nat \subseteq T
  <2> HIDE DEF T
  <2> QED
    BY <1>1, <1>2, Induction
<1>4. l - c \in Nat /\ c + (l - c) = l
  OBVIOUS
<1>5. f[l] = g[l]
  BY <1>3, <1>4
<1> QED
  BY <1>5

LEMMA ProgramOf ==
    ASSUME NEW p, NEW o \in EnvOrders(p), NEW m \in Mirrors, NEW i \in Mirrors
    PROVE  <<CheckPush>> \o GenerateDockerfile(p, o, m, i) \o <<Push>> \in Programs(p)
  BY DEF Programs

LEMMA SameCourse ==
    ASSUME NEW a \in Patches, NEW p \in Patches, ComputeSpecHash(a) = ComputeSpecHash(p),
           Unlinked(a.env),
           NEW s \in Programs(a), NEW t \in Programs(p), NEW f, NEW g,
           Course(a, s, Len(s), f), Course(p, t, Len(t), g)
    PROVE  f[Len(s)] = g[Len(t)]
<1> DEFINE b == JobOf(a)
           d == JobOf(p)
           env == a.env
           z == Len(s)
<1>1. t \in Programs(a)
  <2>1. EnvOrders(p) = EnvOrders(a)
    BY HashDeterminesDockerfile
  <2>2. \A order, apt, pypi :
           GenerateDockerfile(p, order, apt, pypi) = GenerateDockerfile(a, order, apt, pypi)
    BY HashDeterminesDockerfile
  <2>3. PICK o \in EnvOrders(p), m \in Mirrors, i \in Mirrors :
                t = <<CheckPush>> \o GenerateDockerfile(p, o, m, i) \o <<Push>>
    BY ProgramIs
  <2>4. o \in EnvOrders(a) /\ t = <<CheckPush>> \o GenerateDockerfile(a, o, m, i) \o <<Push>>
    BY <2>1, <2>2, <2>3
  <2> QED
    BY <2>4, ProgramOf
<1>2. p.base = a.base
  BY HashedFields
<1>3. PICK o, q, e, r :
         /\ Courses(env, o, q, s, t, e, r) /\ r < Len(s)
         /\ {o[n] : n \in 1 .. Len(o)} = DOMAIN env
         /\ {q[n] : n \in 1 .. Len(q)} = DOMAIN env
  BY <1>1, ProgramCourses
<1> DEFINE m == e + Len(o)
<1>4. /\ Sequence(s) /\ z \in Nat /\ Len(t) = z
      /\ e \in Nat /\ r \in Nat /\ Len(o) \in Nat /\ Len(q) = Len(o)
      /\ m <= r /\ r < z
      /\ \A n \in 1 .. e : s[n] = t[n] /\ Quiet(s[n])
      /\ \A n \in 1 .. Len(o) : s[e + n] = Env(o[n], env[o[n]]) /\ t[e + n] = Env(q[n], env[q[n]])
      /\ \A n \in m + 1 .. r : s[n] = t[n] /\ Quiet(s[n])
      /\ AptAlike(s[r + 1], t[r + 1])
      /\ \A n \in r + 2 .. z : PipAlike(s[n], t[n])
  BY <1>3, SequenceFacts DEF Courses
<1>5. \A n \in 1 .. z : s[n].op \in Ops
  <2>1. ProgramLaid(a, s)
    BY ProgramLayout
  <2> QED
    BY <2>1, InstructionOps DEF Ops
<1> HIDE DEF z, b, d, env
<1>6. /\ f[0] = g[0] /\ f[0] = NewStage(a.base)
      /\ Together(s, t, f, g, b, d, 0, z)
  <2>1. 0 + 1 = 1 /\ Len(s) = z /\ Len(t) = z
    BY <1>4 DEF z
  <2> QED
    BY <1>2, <1>5, <2>1 DEF Course, Together, b, d
<1>7. Listless(f[0]) /\ f[0].env = << >>
  BY <1>6 DEF NewStage, Listless
<1>8. m \in Nat /\ 0 <= e /\ e <= m /\ e <= z /\ m <= z /\ r <= z /\ 0 \in Nat
  BY <1>4
<1>9. /\ f[e] = g[e] /\ Listless(f[e]) /\ f[e].env = << >>
  <2>1. Together(s, t, f, g, b, d, 0, e)
    BY <1>4, <1>6, <1>8, Part
  <2>2. Quietly(s, t, 0, e)
    BY <1>4 DEF Quietly
  <2>3. /\ 0 \in Nat /\ e \in Nat /\ 0 <= e
        /\ f[0] = g[0] /\ Listless(f[0]) /\ f[0].env = << >>
    BY <1>4, <1>6, <1>7, <1>8
  <2> QED
    BY <2>1, <2>2, <2>3, QuietCourse
<1>10. /\ f[m] = g[m] /\ Listless(f[m])
  <2> DEFINE x == [v \in DOMAIN env |-> <<env[v].text, << >> >>]
             i == f[e]
  <2>1. \A n \in 1 .. Len(o) : e + n \in 0 + 1 .. z
    BY <1>4, <1>8
  <2>2. EnvRun(env, o, s, e, f, b)
    BY <1>4, <1>6, <2>1 DEF EnvRun, Together
  <2>3. EnvRun(env, q, t, e, g, d)
    BY <1>4, <1>6, <2>1 DEF EnvRun, Together
  <2>4. IsImage(i) /\ IsImage(g[e]) /\ i = g[e] /\ i.env = << >> /\ g[e].env = << >>
    <3>1. e \in 0 .. z
      BY <1>4, <1>8
    <3> QED
      BY <1>6, <1>9, <3>1 DEF Sound, Together
  <2>5. Unlinked(env)
    BY DEF env
  <2>6. f[e + Len(o)] = Having(i, x)
    <3>1. /\ Len(o) \in Nat /\ e \in Nat
          /\ {o[n] : n \in 1 .. Len(o)} = DOMAIN env
          /\ IsImage(f[e]) /\ f[e].env = << >>
      BY <1>3, <1>4, <2>4
    <3> HIDE DEF m
    <3> QED
      BY <2>2, <2>5, <3>1, EnvBlock, SMTT(30)
  <2>7. g[e + Len(q)] = Having(g[e], x)
    <3>1. /\ Len(q) \in Nat /\ e \in Nat
          /\ {q[n] : n \in 1 .. Len(q)} = DOMAIN env
          /\ IsImage(g[e]) /\ g[e].env = << >>
      BY <1>3, <1>4, <2>4
    <3> HIDE DEF i, m
    <3> QED
      BY <2>3, <2>5, <3>1, EnvBlock
  <2> HIDE DEF x, i
  <2>8. f[m] = Having(i, x) /\ g[m] = Having(i, x)
    BY <1>4, <2>4, <2>6, <2>7
  <2>9. Having(i, x).list = i.list
    BY <2>4, HavingEnv
  <2> HIDE DEF m
  <2> QED
    BY <1>9, <2>8, <2>9 DEF Listless, i
<1>11. /\ f[r] = g[r] /\ Listless(f[r])
  <2>1. Together(s, t, f, g, b, d, m, r)
    BY <1>4, <1>6, <1>8, Part
  <2>2. Quietly(s, t, m, r)
    BY <1>4 DEF Quietly
  <2> HIDE DEF m
  <2> QED
    BY <1>4, <1>8, <1>10, <2>1, <2>2, QuietCourse
<1>12. f[z] = g[z]
  <2>1. Together(s, t, f, g, b, d, r, z)
    BY <1>4, <1>6, <1>8, Part
  <2>2. Alike(s, t, r, z)
    <3>1. \A n \in r + 1 .. z : n = r + 1 \/ n \in r + 2 .. z
      BY <1>4
    <3> QED
      BY <1>4, <3>1 DEF Alike
  <2> QED
    BY <1>4, <1>8, <1>11, <2>1, <2>2, AlikeCourse
<1> QED
  BY <1>4, <1>12 DEF z

-----------------------------------------------------------------------------
(* A build that has not failed is somewhere in its program; what is stored *)
(* is what a whole program made.                                           *)

CourseInv ==
    patch # None /\ img.failure = None =>
        \E s \in Programs(patch) : \E k \in 0 .. Len(s) : \E f :
            /\ todo = SubSeq(s, k + 1, Len(s))
            /\ Course(patch, s, k, f) /\ f[k] = img

KeptInv ==
    stored # None =>
        \E p \in Patches : \E s \in Programs(p) : \E f :
            /\ Course(p, s, Len(s), f)
            /\ stored = [hash  |-> ComputeSpecHash(p),
                         image |-> Snapshot(f[Len(s)], JobOf(p))]

LEMMA CourseBegins ==
    ASSUME NEW p \in Patches, NEW s \in Programs(p)
    PROVE  /\ 0 \in 0 .. Len(s) /\ s = SubSeq(s, 0 + 1, Len(s))
           /\ \E f : Course(p, s, 0, f) /\ f[0] = NewStage(p.base)
<1>1. Sequence(s)
  BY ProgramLayout DEF ProgramLaid
<1>2. s = [n \in 1 .. Len(s) |-> s[n]] /\ Len(s) \in Nat /\ s \in Seq(ToSet(s))
  BY <1>1, SequenceFacts DEF Sequence
<1>3. 0 \in 0 .. Len(s) /\ s = SubSeq(s, 0 + 1, Len(s))
  BY <1>2
<1> DEFINE f == [n \in {0} |-> NewStage(p.base)]
<1>4. f[0] = NewStage(p.base) /\ Sound(f[0])
  BY NewStageImage DEF Sound
<1>5. 1 .. 0 = {} /\ 0 .. 0 = {0}
  OBVIOUS
<1> HIDE DEF f
<1>6. Course(p, s, 0, f)
  BY <1>4, <1>5 DEF Course
<1> QED
  BY <1>3, <1>4, <1>6

LEMMA CourseGoesOn ==
    ASSUME NEW p, NEW s, NEW k \in Nat, NEW f, Course(p, s, k, f),
           NEW j, j = Perform(f[k], s[k + 1], JobOf(p)), Sound(j)
    PROVE  \E g : Course(p, s, k + 1, g) /\ g[k + 1] = j
<1> DEFINE g == [n \in 0 .. k + 1 |-> IF n = k + 1 THEN j ELSE f[n]]
<1>1. g[k + 1] = j
  OBVIOUS
<1>2. \A n \in 0 .. k : g[n] = f[n]
  OBVIOUS
<1>3. \A n \in 1 .. k + 1 : n = k + 1 \/ (n \in 1 .. k /\ n \in 0 .. k /\ n - 1 \in 0 .. k)
  OBVIOUS
<1>4. \A n \in 0 .. k + 1 : n = k + 1 \/ n \in 0 .. k
  OBVIOUS
<1>5. (k + 1) - 1 = k /\ k \in 0 .. k /\ 0 \in 0 .. k
  OBVIOUS
<1> HIDE DEF g
<1>6. g[0] = NewStage(p.base)
  BY <1>2, <1>5 DEF Course
<1>7. \A n \in 1 .. k + 1 : g[n] = Perform(g[n - 1], s[n], JobOf(p))
  <2>1. \A n \in 1 .. k : g[n] = Perform(g[n - 1], s[n], JobOf(p))
    <3>1. \A n \in 1 .. k : n \in 0 .. k /\ n - 1 \in 0 .. k
      OBVIOUS
    <3>2. \A n \in 1 .. k : f[n] = Perform(f[n - 1], s[n], JobOf(p))
      BY DEF Course
    <3> QED
      BY <1>2, <3>1, <3>2
  <2>2. g[k + 1] = Perform(g[(k + 1) - 1], s[k + 1], JobOf(p))
    BY <1>1, <1>2, <1>5
  <2> QED
    BY <1>3, <2>1, <2>2
<1>8. \A n \in 0 .. k + 1 : Sound(g[n])
  BY <1>1, <1>2, <1>4 DEF Course
<1>9. Course(p, s, k + 1, g)
  BY <1>6, <1>7, <1>8 DEF Course
<1> QED
  BY <1>1, <1>9

LEMMA CourseEnds ==
    ASSUME BuildInv, CourseInv, Built
    PROVE  /\ patch \in Patches /\ job = JobOf(patch)
           /\ \E s \in Programs(patch) : \E f : Course(patch, s, Len(s), f) /\ f[Len(s)] = img
<1>1. /\ patch \in Patches /\ patch # None /\ img.failure = None /\ todo = << >>
      /\ job = JobOf(patch)
  BY NoPhrases DEF Built, Ended, BuildInv, RunningInv
<1>2. PICK s \in Programs(patch) : \E k \in 0 .. Len(s) : \E f :
         /\ todo = SubSeq(s, k + 1, Len(s))
         /\ Course(patch, s, k, f) /\ f[k] = img
  BY <1>1 DEF CourseInv
<1>3. PICK k \in 0 .. Len(s) : \E f :
         /\ todo = SubSeq(s, k + 1, Len(s))
         /\ Course(patch, s, k, f) /\ f[k] = img
  BY <1>2
<1>4. Sequence(s) /\ Len(s) \in Nat
  BY <1>1, ProgramLayout, SequenceFacts DEF ProgramLaid
<1>5. k = Len(s)
  <2>1. s \in Seq(ToSet(s)) /\ k \in Nat /\ k <= Len(s)
    BY <1>4 DEF Sequence
  <2>2. Len(SubSeq(s, k + 1, Len(s))) = Len(s) - k
    BY <1>4, <2>1
  <2>3. Len(todo) = 0
    BY <1>1
  <2> QED
    BY <1>3, <1>4, <2>1, <2>2, <2>3
<1> QED
  BY <1>1, <1>3, <1>5

LEMMA CourseNext ==
    ASSUME BuildInv, CourseInv, KeptInv, [Next]_vars
    PROVE  CourseInv' /\ KeptInv'
<1>1. CASE UNCHANGED vars
  BY <1>1 DEF vars, CourseInv, KeptInv
<1>2. ASSUME NEW p \in Patches, patch = None, RejectBuild(p)
      PROVE  CourseInv' /\ KeptInv'
  <2>1. img' = Failed(NewStage(p.base), "Rejected") /\ stored' = stored
    BY <1>2 DEF RejectBuild
  <2>2. img'.failure = "Rejected"
    BY <2>1, NewStageImage, FailedImage DEF Keeps
  <2>3. img'.failure # None
    BY <2>2, NoPhrases
  <2> QED
    BY <2>1, <2>3 DEF CourseInv, KeptInv
<1>3. ASSUME NEW p \in Patches, patch = None, CreateBuild(p)
      PROVE  CourseInv' /\ KeptInv'
  <2>1. todo' \in Programs(p) /\ patch' = p /\ img' = NewStage(p.base) /\ stored' = stored
    BY <1>3 DEF CreateBuild, Programs
  <2> DEFINE s == todo'
  <2>2. /\ 0 \in 0 .. Len(s) /\ s = SubSeq(s, 0 + 1, Len(s))
        /\ \E f : Course(p, s, 0, f) /\ f[0] = NewStage(p.base)
    BY <2>1, CourseBegins
  <2>3. s \in Programs(p) /\ s = todo'
    BY <2>1
  <2> HIDE DEF s
  <2>4. \E k \in 0 .. Len(s) : \E f :
            /\ s = SubSeq(s, k + 1, Len(s))
            /\ Course(p, s, k, f) /\ f[k] = img'
    BY <2>1, <2>2
  <2>5. CourseInv'
    BY <2>1, <2>3, <2>4 DEF CourseInv
  <2> QED
    BY <2>1, <2>5 DEF KeptInv
<1>4. CASE Execute
  <2>1. /\ todo # << >> /\ img' = Perform(img, Head(todo), job)
        /\ todo' = IF img'.failure = None THEN Tail(todo) ELSE << >>
        /\ patch' = patch /\ stored' = stored
    BY <1>4 DEF Execute
  <2>2. patch \in Patches /\ patch # None /\ img.failure = None /\ job = JobOf(patch)
    BY <2>1, Underway
  <2>3. KeptInv'
    BY <2>1 DEF KeptInv
  <2>4. ASSUME img'.failure = None
        PROVE  CourseInv'
    <3>1. PICK s \in Programs(patch) : \E k \in 0 .. Len(s) : \E f :
             /\ todo = SubSeq(s, k + 1, Len(s))
             /\ Course(patch, s, k, f) /\ f[k] = img
      BY <2>2 DEF CourseInv
    <3>2. PICK k \in 0 .. Len(s) : \E f :
             /\ todo = SubSeq(s, k + 1, Len(s))
             /\ Course(patch, s, k, f) /\ f[k] = img
      BY <3>1
    <3>3. PICK f : Course(patch, s, k, f) /\ f[k] = img
      BY <3>2
    <3>4. Sequence(s)
      BY <2>2, ProgramLayout DEF ProgramLaid
    <3>5. /\ k \in Nat /\ k < Len(s)
          /\ Head(todo) = s[k + 1]
          /\ Tail(todo) = SubSeq(s, (k + 1) + 1, Len(s))
      BY <2>1, <3>2, <3>4, Remaining
    <3>6. Sound(img')
      <4>1. FailsFor(patch, img')
        BY <1>4, <2>1, <2>2, ExecuteInv DEF BuildInv, RunningInv
      <4> QED
        BY <2>4, <4>1 DEF FailsFor, Sound
    <3>7. img' = Perform(f[k], s[k + 1], JobOf(patch))
      BY <2>1, <2>2, <3>3, <3>5
    <3>8. \E g : Course(patch, s, k + 1, g) /\ g[k + 1] = img'
      BY <3>3, <3>5, <3>6, <3>7, CourseGoesOn
    <3>9. k + 1 \in 0 .. Len(s)
      BY <3>4, <3>5, SequenceFacts
    <3>10. todo' = SubSeq(s, (k + 1) + 1, Len(s))
      BY <2>1, <2>4, <3>5
    <3> QED
      BY <2>1, <3>8, <3>9, <3>10 DEF CourseInv
  <2>5. ASSUME img'.failure # None
        PROVE  CourseInv'
    BY <2>5 DEF CourseInv
  <2> QED
    BY <2>3, <2>4, <2>5
<1>5. ASSUME NEW why \in {"CommandFailed", "NetworkFailed", "Exit42"}, NEW lines,
             CommandFails(why, lines)
      PROVE  CourseInv' /\ KeptInv'
  <2>1. todo # << >> /\ img' = Failed(img, why) /\ stored' = stored
    BY <1>5 DEF CommandFails
  <2>2. IsImage(img)
    BY <2>1, Underway
  <2>3. img'.failure # None
    BY <2>1, <2>2, FailureIsNone DEF Failures
  <2> QED
    BY <2>1, <2>3 DEF CourseInv, KeptInv
<1>6. CASE Finish
  <2>1. /\ patch' = None
        /\ \/ stored' = stored
           \/ Built /\ stored' = [hash |-> ComputeSpecHash(patch), image |-> Snapshot(img, job)]
    BY <1>6 DEF Finish
  <2>2. CourseInv'
    BY <2>1 DEF CourseInv
  <2>3. CASE stored' = stored
    BY <2>2, <2>3 DEF KeptInv
  <2>4. CASE Built /\ stored' = [hash |-> ComputeSpecHash(patch), image |-> Snapshot(img, job)]
    <3>1. PICK s \in Programs(patch) : \E f : Course(patch, s, Len(s), f) /\ f[Len(s)] = img
      BY <2>4, CourseEnds
    <3>2. PICK f : Course(patch, s, Len(s), f) /\ f[Len(s)] = img
      BY <3>1
    <3>3. patch \in Patches /\ job = JobOf(patch)
      BY <2>4, CourseEnds
    <3>4. stored' = [hash  |-> ComputeSpecHash(patch),
                     image |-> Snapshot(f[Len(s)], JobOf(patch))]
      BY <2>4, <3>2, <3>3
    <3>5. KeptInv'
      BY <3>2, <3>3, <3>4 DEF KeptInv
    <3> QED
      BY <2>2, <3>5
  <2> QED
    BY <2>1, <2>3, <2>4
<1> QED
  BY <1>1, <1>2, <1>3, <1>4, <1>5, <1>6 DEF Next

LEMMA CourseInvariance ==
    Spec => [](CourseInv /\ KeptInv)
<1>1. Init => CourseInv /\ KeptInv
  BY DEF Init, CourseInv, KeptInv
<1>2. BuildInv /\ CourseInv /\ KeptInv /\ [Next]_vars => CourseInv' /\ KeptInv'
  BY CourseNext
<1> QED
  BY <1>1, <1>2, BuildInvariance, PTL DEF Spec

LEMMA SameKept ==
    ASSUME BuildInv, CourseInv, KeptInv,
           \A p \in Patches : Unlinked(p.env),
           \A p, q \in Patches : ComputeSpecHash(p) = ComputeSpecHash(q)
               => EffectiveOptions(p).ignorePaths = EffectiveOptions(q).ignorePaths
    PROVE  SameHashSameImage
<1> SUFFICES ASSUME Built, stored # None, stored.hash = ComputeSpecHash(patch)
             PROVE  stored.image = Snapshot(img, job)
  BY DEF SameHashSameImage
<1>1. /\ patch \in Patches /\ job = JobOf(patch)
      /\ \E s \in Programs(patch) : \E f : Course(patch, s, Len(s), f) /\ f[Len(s)] = img
  BY CourseEnds
<1>2. PICK s \in Programs(patch) : \E f : Course(patch, s, Len(s), f) /\ f[Len(s)] = img
  BY <1>1
<1>3. PICK f : Course(patch, s, Len(s), f) /\ f[Len(s)] = img
  BY <1>2
<1>4. PICK p \in Patches : \E t \in Programs(p) : \E g :
         /\ Course(p, t, Len(t), g)
         /\ stored = [hash  |-> ComputeSpecHash(p),
                      image |-> Snapshot(g[Len(t)], JobOf(p))]
  BY DEF KeptInv
<1>5. PICK t \in Programs(p) : \E g :
         /\ Course(p, t, Len(t), g)
         /\ stored = [hash  |-> ComputeSpecHash(p),
                      image |-> Snapshot(g[Len(t)], JobOf(p))]
  BY <1>4
<1>6. PICK g :
         /\ Course(p, t, Len(t), g)
         /\ stored = [hash  |-> ComputeSpecHash(p),
                      image |-> Snapshot(g[Len(t)], JobOf(p))]
  BY <1>5
<1>7. ComputeSpecHash(p) = ComputeSpecHash(patch) /\ stored.image = Snapshot(g[Len(t)], JobOf(p))
  BY <1>6
<1>8. Unlinked(patch.env)
  BY <1>1
<1>9. f[Len(s)] = g[Len(t)]
  BY <1>1, <1>3, <1>6, <1>7, <1>8, SameCourse
<1>10. EffectiveOptions(p).ignorePaths = EffectiveOptions(patch).ignorePaths
  BY <1>1, <1>7
<1>11. JobOf(p).options.ignorePaths = JobOf(patch).options.ignorePaths
  BY <1>10 DEF JobOf, BuildOptionsArgs
<1>12. Snapshot(img, JobOf(p)) = Snapshot(img, JobOf(patch))
  BY <1>11 DEF Snapshot
<1> QED
  BY <1>1, <1>3, <1>7, <1>9, <1>12

(* Two specs of one hash make the same image, whatever their targets,      *)
(* Secrets and Jobs are, and whatever mirrors and orders of their ENV the  *)
(* two builds had (spec_hash.go:33-34, imagepatch_types.go:266-269): if no *)
(* variable of theirs refers to another one of theirs, and if they leave   *)
(* the same paths out of the snapshots, which the hash does not see.       *)
THEOREM SameHashMakesSameImage ==
    ASSUME \A p \in Patches : Unlinked(p.env),
           \A p, q \in Patches : ComputeSpecHash(p) = ComputeSpecHash(q)
               => EffectiveOptions(p).ignorePaths = EffectiveOptions(q).ignorePaths
    PROVE  Spec => []SameHashSameImage
<1>1. BuildInv /\ CourseInv /\ KeptInv => SameHashSameImage
  BY SameKept
<1> QED
  BY <1>1, BuildInvariance, CourseInvariance, PTL

=============================================================================
