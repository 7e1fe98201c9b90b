-------------------------- MODULE DockerfileProofs --------------------------
(***************************************************************************)
(* The hash sees everything the Dockerfile is made from; the layout of the *)
(* Dockerfile, for lists of every length; and where two Dockerfiles of one *)
(* spec differ.                                                            *)
(***************************************************************************)
EXTENDS PatchDockerfile, TLAPS, WellFoundedInduction, SequenceTheorems,
        FiniteSetTheorems

(* A finite sequence, of whatever elements.                                *)
Sequence(s) == s \in Seq(ToSet(s))

-----------------------------------------------------------------------------
(* Induction over the numbers, for sets in place of predicates.            *)

LEMMA LeastNumber ==
    ASSUME NEW T \in SUBSET Nat, T # {}
    PROVE  \E n \in T : \A m \in T : n <= m
<1>1. IsWellFoundedOn(OpToRel(<, Nat), Nat)
  BY NatLessThanWellFounded
<1>2. PICK n \in T : \A m \in T : ~(<<m, n>> \in OpToRel(<, Nat))
  BY <1>1, WFMin
<1>3. \A m \in T : ~(m < n)
  BY <1>2 DEF OpToRel
<1> QED
  BY <1>3

LEMMA Induction ==
    ASSUME NEW T, 0 \in T, \A n \in Nat : n \in T => n + 1 \in T
    PROVE  Nat \subseteq T
<1> SUFFICES ASSUME Nat \ T # {}
             PROVE  FALSE
  OBVIOUS
<1>1. PICK n \in Nat \ T : \A m \in Nat \ T : n <= m
  BY LeastNumber
<1>2. n # 0 /\ n - 1 \in Nat
  BY <1>1
<1>3. n - 1 \in T
  BY <1>1, <1>2
<1>4. (n - 1) + 1 \in T
  BY <1>2, <1>3
<1> QED
  BY <1>1, <1>4

-----------------------------------------------------------------------------
(* Sequences, their elements and what is appended to them.                 *)

LEMMA SequenceOfSeq ==
    ASSUME NEW S, NEW s \in Seq(S)
    PROVE  Sequence(s)
<1>1. Len(s) \in Nat /\ s \in [1..Len(s) -> S] /\ DOMAIN s = 1..Len(s)
  BY LenProperties
<1>2. s \in [1..Len(s) -> ToSet(s)]
  BY <1>1 DEF ToSet
<1> QED
  BY <1>1, <1>2 DEF Sequence

LEMMA SequenceFacts ==
    ASSUME NEW s, Sequence(s)
    PROVE  /\ Len(s) \in Nat
           /\ DOMAIN s = 1..Len(s)
           /\ s = [n \in 1..Len(s) |-> s[n]]
           /\ s = << >> <=> Len(s) = 0
  BY DEF Sequence

LEMMA SequenceOfFunction ==
    ASSUME NEW n \in Nat, NEW s, s = [i \in 1..n |-> s[i]]
    PROVE  Sequence(s) /\ Len(s) = n
<1>1. DOMAIN s = 1..n
  OBVIOUS
<1>2. s \in [1..n -> ToSet(s)]
  BY <1>1 DEF ToSet
<1> QED
  BY <1>1, <1>2 DEF Sequence

LEMMA Concat ==
    ASSUME NEW s, NEW t, Sequence(s), Sequence(t)
    PROVE  /\ Sequence(s \o t)
           /\ Len(s) \in Nat /\ Len(t) \in Nat
           /\ Len(s \o t) = Len(s) + Len(t)
           /\ DOMAIN (s \o t) = 1..Len(s) + Len(t)
           /\ \A n \in 1..Len(s) : (s \o t)[n] = s[n]
           /\ \A n \in 1..Len(t) : (s \o t)[Len(s) + n] = t[n]
           /\ \A n \in Len(s) + 1 .. Len(s) + Len(t) : (s \o t)[n] = t[n - Len(s)]
<1> DEFINE S == ToSet(s) \cup ToSet(t)
<1>1. s \in Seq(S) /\ t \in Seq(S)
  BY SeqMonotonic DEF Sequence
<1>2. /\ s \o t \in Seq(S)
      /\ Len(s \o t) = Len(s) + Len(t)
      /\ \A i \in 1 .. Len(s) + Len(t) :
            (s \o t)[i] = IF i <= Len(s) THEN s[i] ELSE t[i - Len(s)]
  BY <1>1, ConcatProperties
<1>3. Sequence(s \o t)
  BY <1>2, SequenceOfSeq
<1>4. Len(s) \in Nat /\ Len(t) \in Nat
  BY SequenceFacts
<1>5. DOMAIN (s \o t) = 1..Len(s) + Len(t)
  BY <1>2, <1>3, SequenceFacts
<1>6. \A n \in 1..Len(s) : (s \o t)[n] = s[n]
  BY <1>2, <1>4
<1>7. ASSUME NEW n \in 1..Len(t)
      PROVE  (s \o t)[Len(s) + n] = t[n]
  <2>1. /\ Len(s) + n \in 1..Len(s) + Len(t) /\ ~(Len(s) + n <= Len(s))
        /\ (Len(s) + n) - Len(s) = n
    BY <1>4
  <2> QED
    BY <1>2, <2>1
<1>8. \A n \in Len(s) + 1 .. Len(s) + Len(t) : (s \o t)[n] = t[n - Len(s)]
  BY <1>2, <1>4
<1> QED
  BY <1>2, <1>3, <1>4, <1>5, <1>6, <1>7, <1>8

-----------------------------------------------------------------------------
(* What FlattenSeq returns: its recursive function exists for every number *)
(* of parts, and every element comes from a part.                          *)

Flattening(seqs, m, fl) ==
    fl = [i \in 1..m |-> IF i = 1 THEN seqs[i] ELSE fl[i - 1] \o seqs[i]]

LEMMA FlatteningExists ==
    ASSUME NEW seqs, NEW m \in Nat
    PROVE  \E fl : Flattening(seqs, m, fl)
<1> DEFINE T == {n \in Nat : \E fl : Flattening(seqs, n, fl)}
<1>1. 0 \in T
  <2>1. Flattening(seqs, 0, [i \in 1..0 |-> seqs[i]])
    BY DEF Flattening
  <2> QED
    BY <2>1
<1>2. ASSUME NEW n \in Nat, n \in T
      PROVE  n + 1 \in T
  <2>1. PICK fl : Flattening(seqs, n, fl)
    BY <1>2
  <2> DEFINE next == [i \in 1..n + 1 |->
                         IF i <= n THEN fl[i]
                         ELSE IF i = 1 THEN seqs[i] ELSE fl[i - 1] \o seqs[i]]
  <2>2. \A i \in 1..n : fl[i] = IF i = 1 THEN seqs[i] ELSE fl[i - 1] \o seqs[i]
    BY <2>1 DEF Flattening
  <2>3. \A i \in 1..n + 1 :
           next[i] = IF i = 1 THEN seqs[i] ELSE next[i - 1] \o seqs[i]
    BY <2>2
  <2>4. Flattening(seqs, n + 1, next)
    BY <2>3 DEF Flattening
  <2> QED
    BY <2>4
<1>3. Nat \subseteq T
  BY <1>1, <1>2, Induction
<1> QED
  BY <1>3

LEMMA FlattenIsSeq ==
    ASSUME NEW S, NEW seqs, Sequence(seqs), \A i \in DOMAIN seqs : seqs[i] \in Seq(S)
    PROVE  FlattenSeq(seqs) \in Seq(S)
<1>0. Len(seqs) \in Nat /\ DOMAIN seqs = 1..Len(seqs)
  BY SequenceFacts
<1>1. CASE Len(seqs) = 0
  BY <1>0, <1>1, SequenceFacts DEF FlattenSeq
<1>2. CASE Len(seqs) # 0
  <2> DEFINE fl == CHOOSE f : Flattening(seqs, Len(seqs), f)
             T == {k \in Nat : k + 1 <= Len(seqs) => fl[k + 1] \in Seq(S)}
  <2>1. Flattening(seqs, Len(seqs), fl)
    BY <1>0, FlatteningExists
  <2>2. FlattenSeq(seqs) = fl[Len(seqs)]
    BY <1>2 DEF FlattenSeq, Flattening
  <2> HIDE DEF fl
  <2>3. \A i \in 1..Len(seqs) :
           fl[i] = IF i = 1 THEN seqs[i] ELSE fl[i - 1] \o seqs[i]
    BY <2>1 DEF Flattening
  <2>4. 0 \in T
    BY <1>0, <2>3
  <2>5. ASSUME NEW k \in Nat, k \in T
        PROVE  k + 1 \in T
    <3> SUFFICES ASSUME (k + 1) + 1 <= Len(seqs)
                 PROVE  fl[(k + 1) + 1] \in Seq(S)
      OBVIOUS
    <3> DEFINE i == (k + 1) + 1
    <3>1. i \in 1..Len(seqs) /\ i # 1 /\ i - 1 = k + 1 /\ k + 1 <= Len(seqs)
      BY <1>0
    <3>2. fl[i - 1] \in Seq(S)
      BY <2>5, <3>1
    <3>3. fl[i] = fl[i - 1] \o seqs[i]
      BY <2>3, <3>1
    <3>4. seqs[i] \in Seq(S)
      BY <1>0, <3>1
    <3> QED
      BY <3>2, <3>3, <3>4, ConcatProperties
  <2>6. Nat \subseteq T
    <3> HIDE DEF T
    <3> QED
      BY <2>4, <2>5, Induction
  <2>7. Len(seqs) - 1 \in Nat /\ (Len(seqs) - 1) + 1 = Len(seqs)
    BY <1>0, <1>2
  <2>8. Len(seqs) - 1 \in T
    BY <2>6, <2>7
  <2>9. fl[(Len(seqs) - 1) + 1] \in Seq(S)
    BY <1>0, <2>8
  <2> QED
    BY <2>2, <2>7, <2>9
<1> QED
  BY <1>1, <1>2

LEMMA Flatten ==
    ASSUME NEW seqs, Sequence(seqs), \A i \in DOMAIN seqs : Sequence(seqs[i])
    PROVE  /\ Sequence(FlattenSeq(seqs))
           /\ \A n \in DOMAIN FlattenSeq(seqs) :
                 \E i \in DOMAIN seqs : \E m \in DOMAIN seqs[i] :
                    FlattenSeq(seqs)[n] = seqs[i][m]
<1> DEFINE S == UNION {ToSet(seqs[i]) : i \in DOMAIN seqs}
           flat == FlattenSeq(seqs)
<1>1. \A i \in DOMAIN seqs : seqs[i] \in Seq(S)
  BY SeqMonotonic DEF Sequence
<1>2. flat \in Seq(S)
  BY <1>1, FlattenIsSeq
<1>3. Sequence(flat) /\ \A n \in DOMAIN flat : flat[n] \in S
  BY <1>2, SequenceOfSeq, LenProperties
<1> QED
  BY <1>3 DEF ToSet

-----------------------------------------------------------------------------
(* The layout of a Dockerfile.  Up to the check of the base image it is    *)
(* the opening; what follows, the body, starts no stage.                   *)

Opening(spec) == Stages(spec) \o Base(spec) \o ImageOSCheck
Checked(spec) == Len(spec.fromImages) + 4

BodyOps == {"COPY", "ENV", "RUN", "USER", "WORKDIR", "ENTRYPOINT", "CMD"}

RootCommands == {"write-sources", "apt-install", "groupadd", "useradd", "sudoers"}
FreeCommands == {"write-list", "remove-list", "pip-install", "step", "getent"}

OfBody(spec, in) ==
    /\ in.op \in BodyOps
    /\ in.op = "RUN" =>
          /\ Sequence(in.commands)
          /\ \A n \in DOMAIN in.commands :
                LET c == in.commands[n]
                IN  /\ c.do \in RootCommands \cup FreeCommands
                    /\ c.do = "step" => \E m \in DOMAIN spec.shell : c.run = spec.shell[m].run

NeedsRoot(in) ==
    /\ in.op = "RUN"
    /\ \E n \in DOMAIN in.commands : in.commands[n].do \in RootCommands

(* A part of the body.                                                     *)
PartOf(spec, t) == Sequence(t) /\ \A n \in DOMAIN t : OfBody(spec, t[n])
NoUser(t)       == \A n \in DOMAIN t : t[n].op # "USER"
NoRoot(t)       == \A n \in DOMAIN t : ~NeedsRoot(t[n])
RootBefore(t)   == \A n \in DOMAIN t : NeedsRoot(t[n]) =>
                      \A k \in 1..n - 1 : t[k].op # "USER"

(* The beginning of a Dockerfile, without USER in its body; and one in     *)
(* whose body no USER comes before a RUN that needs root.                  *)
Laid(spec, s) ==
    /\ Sequence(s)
    /\ Checked(spec) \in Nat /\ Checked(spec) <= Len(s)
    /\ \A n \in 1..Checked(spec) : s[n] = Opening(spec)[n]
    /\ \A n \in Checked(spec) + 1 .. Len(s) : OfBody(spec, s[n])

UserFree(spec, s) ==
    \A n \in Checked(spec) + 1 .. Len(s) : s[n].op # "USER"

RootFirst(spec, s) ==
    \A n \in Checked(spec) + 1 .. Len(s) : NeedsRoot(s[n]) =>
        \A k \in Checked(spec) + 1 .. n - 1 : s[k].op # "USER"

LEMMA Extended ==
    ASSUME NEW spec, NEW s, NEW t, Laid(spec, s), PartOf(spec, t)
    PROVE  /\ Laid(spec, s \o t)
           /\ UserFree(spec, s) /\ NoUser(t) => UserFree(spec, s \o t)
           /\ UserFree(spec, s) /\ RootBefore(t) => RootFirst(spec, s \o t)
           /\ RootFirst(spec, s) /\ NoRoot(t) => RootFirst(spec, s \o t)
<1> DEFINE c == Checked(spec)
           u == s \o t
<1>1. /\ Sequence(u) /\ Len(s) \in Nat /\ Len(t) \in Nat /\ Len(u) = Len(s) + Len(t)
      /\ \A n \in 1..Len(s) : u[n] = s[n]
      /\ \A n \in Len(s) + 1 .. Len(s) + Len(t) : u[n] = t[n - Len(s)]
  BY Concat DEF Laid, PartOf
<1>2. /\ c \in Nat /\ c <= Len(s) /\ DOMAIN t = 1..Len(t)
      /\ \A n \in 1..c : s[n] = Opening(spec)[n]
      /\ \A n \in c + 1 .. Len(s) : OfBody(spec, s[n])
      /\ \A n \in 1..Len(t) : OfBody(spec, t[n])
  BY SequenceFacts DEF Laid, PartOf
<1> HIDE DEF c, u
<1>3. /\ \A n \in 1..c : u[n] = s[n]
      /\ \A n \in c + 1 .. Len(u) :
            \/ n \in c + 1 .. Len(s) /\ u[n] = s[n]
            \/ n - Len(s) \in 1..Len(t) /\ u[n] = t[n - Len(s)] /\ n > Len(s)
  BY <1>1, <1>2
<1>4. Laid(spec, u)
  <2>1. \A n \in c + 1 .. Len(u) : OfBody(spec, u[n])
    BY <1>2, <1>3
  <2>2. c <= Len(u)
    BY <1>1, <1>2
  <2> QED
    BY <1>1, <1>2, <1>3, <2>1, <2>2 DEF Laid, c
<1>5. ASSUME UserFree(spec, s), NoUser(t)
      PROVE  UserFree(spec, u)
  BY <1>2, <1>3, <1>5 DEF UserFree, NoUser, c
<1>6. ASSUME UserFree(spec, s), RootBefore(t)
      PROVE  RootFirst(spec, u)
  <2> SUFFICES ASSUME NEW n \in c + 1 .. Len(u), NeedsRoot(u[n]),
                      NEW k \in c + 1 .. n - 1
               PROVE  u[k].op # "USER"
    BY DEF RootFirst, c
  <2>1. CASE k \in c + 1 .. Len(s)
    BY <1>1, <1>2, <1>6, <2>1 DEF UserFree, c
  <2>2. CASE k > Len(s)
    <3>1. /\ n - Len(s) \in 1..Len(t) /\ u[n] = t[n - Len(s)]
          /\ k - Len(s) \in 1..(n - Len(s)) - 1 /\ u[k] = t[k - Len(s)]
      BY <1>1, <1>2, <2>2
    <3> QED
      BY <1>2, <1>6, <3>1 DEF RootBefore
  <2> QED
    BY <1>1, <1>2, <2>1, <2>2
<1>7. ASSUME RootFirst(spec, s), NoRoot(t)
      PROVE  RootFirst(spec, u)
  <2> SUFFICES ASSUME NEW n \in c + 1 .. Len(u), NeedsRoot(u[n]),
                      NEW k \in c + 1 .. n - 1
               PROVE  u[k].op # "USER"
    BY DEF RootFirst, c
  <2>1. n \in c + 1 .. Len(s) /\ u[n] = s[n]
    BY <1>2, <1>3, <1>7 DEF NoRoot
  <2>2. u[k] = s[k]
    BY <1>1, <1>2, <2>1
  <2> QED
    BY <1>7, <2>1, <2>2 DEF RootFirst, c
<1> QED
  BY <1>4, <1>5, <1>6, <1>7 DEF u

LEMMA Joined ==
    ASSUME NEW spec, NEW s, NEW t, PartOf(spec, s), PartOf(spec, t)
    PROVE  /\ PartOf(spec, s \o t)
           /\ NoUser(s) /\ NoUser(t) => NoUser(s \o t)
           /\ NoRoot(s) /\ NoRoot(t) => NoRoot(s \o t)
           /\ NoUser(s) /\ RootBefore(t) => RootBefore(s \o t)
<1> DEFINE u == s \o t
<1>1. /\ Sequence(u) /\ Len(s) \in Nat /\ Len(t) \in Nat
      /\ DOMAIN u = 1..Len(s) + Len(t)
      /\ \A n \in 1..Len(s) : u[n] = s[n]
      /\ \A n \in Len(s) + 1 .. Len(s) + Len(t) : u[n] = t[n - Len(s)]
  BY Concat DEF PartOf
<1>2. DOMAIN s = 1..Len(s) /\ DOMAIN t = 1..Len(t)
  BY SequenceFacts DEF PartOf
<1> HIDE DEF u
<1>3. \A n \in DOMAIN u : \/ n \in DOMAIN s /\ u[n] = s[n]
                          \/ n - Len(s) \in DOMAIN t /\ u[n] = t[n - Len(s)] /\ n > Len(s)
  BY <1>1, <1>2
<1>4. PartOf(spec, u)
  BY <1>1, <1>3 DEF PartOf
<1>5. ASSUME NoUser(s), NoUser(t) PROVE NoUser(u)
  BY <1>3, <1>5 DEF NoUser
<1>6. ASSUME NoRoot(s), NoRoot(t) PROVE NoRoot(u)
  BY <1>3, <1>6 DEF NoRoot
<1>7. ASSUME NoUser(s), RootBefore(t) PROVE RootBefore(u)
  <2> SUFFICES ASSUME NEW n \in DOMAIN u, NeedsRoot(u[n]), NEW k \in 1..n - 1
               PROVE  u[k].op # "USER"
    BY DEF RootBefore
  <2>1. k \in DOMAIN u
    BY <1>1
  <2>2. CASE k \in DOMAIN s
    BY <1>1, <1>2, <1>7, <2>2 DEF NoUser
  <2>3. CASE k > Len(s)
    <3>1. /\ n - Len(s) \in DOMAIN t /\ u[n] = t[n - Len(s)]
          /\ k - Len(s) \in 1..(n - Len(s)) - 1 /\ u[k] = t[k - Len(s)]
      BY <1>1, <1>2, <2>3
    <3> QED
      BY <1>7, <3>1 DEF RootBefore
  <2> QED
    BY <1>1, <1>2, <2>1, <2>2, <2>3
<1> QED
  BY <1>4, <1>5, <1>6, <1>7 DEF u

(* Parts of no and of one instruction.                                     *)
LEMMA NoPart ==
    ASSUME NEW spec
    PROVE  PartOf(spec, << >>) /\ NoUser(<< >>) /\ NoRoot(<< >>) /\ RootBefore(<< >>)
  BY DEF PartOf, NoUser, NoRoot, RootBefore, Sequence

LEMMA OnePart ==
    ASSUME NEW spec, NEW in, OfBody(spec, in)
    PROVE  /\ PartOf(spec, <<in>>)
           /\ in.op # "USER" => NoUser(<<in>>)
           /\ ~NeedsRoot(in) => NoRoot(<<in>>)
           /\ RootBefore(<<in>>)
<1>1. Sequence(<<in>>) /\ DOMAIN <<in>> = {1} /\ <<in>>[1] = in
  BY DEF Sequence, ToSet
<1> QED
  BY <1>1 DEF PartOf, NoUser, NoRoot, RootBefore

LEMMA GivenPart ==
    ASSUME NEW spec, NEW condition, NEW t, condition => PartOf(spec, t)
    PROVE  /\ PartOf(spec, Given(condition, t))
           /\ NoUser(t) => NoUser(Given(condition, t))
           /\ NoRoot(t) => NoRoot(Given(condition, t))
           /\ RootBefore(t) => RootBefore(Given(condition, t))
  BY NoPart DEF Given

(* RUN lines of one command.                                               *)
LEMMA OneCommand ==
    ASSUME NEW spec, NEW c, c.do \in RootCommands \cup FreeCommands,
           c.do = "step" => \E m \in DOMAIN spec.shell : c.run = spec.shell[m].run
    PROVE  /\ OfBody(spec, Run(<<c>>))
           /\ Run(<<c>>).op = "RUN"
           /\ c.do \in FreeCommands => ~NeedsRoot(Run(<<c>>))
<1>1. Sequence(<<c>>) /\ DOMAIN <<c>> = {1} /\ <<c>>[1] = c
  BY DEF Sequence, ToSet
<1>2. Run(<<c>>).op = "RUN" /\ Run(<<c>>).commands = <<c>>
  BY DEF Run
<1>3. RootCommands \cap FreeCommands = {}
  BY DEF RootCommands, FreeCommands
<1> QED
  BY <1>1, <1>2, <1>3 DEF OfBody, BodyOps, NeedsRoot

-----------------------------------------------------------------------------
(* The parts of the body, in their order.                                  *)

LEMMA CopiesPart ==
    ASSUME NEW spec, WellTyped(spec)
    PROVE  PartOf(spec, Copies(spec)) /\ NoUser(Copies(spec)) /\ NoRoot(Copies(spec))
<1> DEFINE from == spec.fromImages
           parts == [i \in DOMAIN from |-> CopiesOf(from[i])]
<1>1. Sequence(from) /\ \A i \in DOMAIN from : Sequence(from[i].copy)
  BY DEF WellTyped, Sequence
<1>2. Len(from) \in Nat /\ DOMAIN from = 1..Len(from)
  BY <1>1, SequenceFacts
<1>3. Sequence(parts)
  BY <1>2, SequenceOfFunction
<1>4. ASSUME NEW i \in DOMAIN parts
      PROVE  /\ Sequence(parts[i])
             /\ \A m \in DOMAIN parts[i] : parts[i][m].op = "COPY"
  <2>1. Len(from[i].copy) \in Nat /\ DOMAIN from[i].copy = 1..Len(from[i].copy)
    BY <1>1, SequenceFacts
  <2>2. Sequence(CopiesOf(from[i]))
    BY <2>1, SequenceOfFunction DEF CopiesOf
  <2>3. \A m \in DOMAIN CopiesOf(from[i]) : CopiesOf(from[i])[m].op = "COPY"
    BY DEF CopiesOf, Copy
  <2> QED
    BY <2>2, <2>3
<1>5. Copies(spec) = FlattenSeq(parts)
  BY DEF Copies
<1> HIDE DEF parts
<1>6. /\ Sequence(Copies(spec))
      /\ \A n \in DOMAIN Copies(spec) : Copies(spec)[n].op = "COPY"
  BY <1>3, <1>4, <1>5, Flatten
<1> QED
  BY <1>6 DEF PartOf, OfBody, BodyOps, NoUser, NoRoot, NeedsRoot

LEMMA EnvPart ==
    ASSUME NEW spec, WellTyped(spec), NEW order \in EnvOrders(spec)
    PROVE  /\ PartOf(spec, EnvLines(spec, order))
           /\ NoUser(EnvLines(spec, order)) /\ NoRoot(EnvLines(spec, order))
<1>1. Cardinality(DOMAIN spec.env) \in Nat
  BY FS_CardinalityType DEF WellTyped
<1>2. DOMAIN order = 1..Cardinality(DOMAIN spec.env)
  BY DEF EnvOrders, SetToSeqs
<1>3. Sequence(EnvLines(spec, order))
  BY <1>1, <1>2, SequenceOfFunction DEF EnvLines
<1>4. \A n \in DOMAIN EnvLines(spec, order) : EnvLines(spec, order)[n].op = "ENV"
  BY DEF EnvLines, Env
<1> QED
  BY <1>3, <1>4 DEF PartOf, OfBody, BodyOps, NoUser, NoRoot, NeedsRoot

LEMMA AptMirrorPart ==
    ASSUME NEW spec
    PROVE  PartOf(spec, AptMirror(spec)) /\ NoUser(AptMirror(spec))
<1> DEFINE c == [do |-> "write-sources", mirror |-> spec.apt.mirror]
<1>1. OfBody(spec, Run(<<c>>)) /\ Run(<<c>>).op = "RUN"
  BY OneCommand DEF RootCommands
<1>2. PartOf(spec, <<Run(<<c>>)>>) /\ NoUser(<<Run(<<c>>)>>)
  BY <1>1, OnePart
<1> QED
  BY <1>2, GivenPart DEF AptMirror

LEMMA Triple ==
    ASSUME NEW a, NEW b, NEW c
    PROVE  <<a>> \o <<b>> \o <<c>> = <<a, b, c>>
<1> DEFINE S == {a, b, c}
<1>1. <<a>> \in Seq(S) /\ <<b>> \in Seq(S) /\ <<c>> \in Seq(S) /\ <<a, b, c>> \in Seq(S)
  OBVIOUS
<1>2. /\ <<a>> \o <<b>> \in Seq(S) /\ Len(<<a>> \o <<b>>) = 2
      /\ (<<a>> \o <<b>>)[1] = a /\ (<<a>> \o <<b>>)[2] = b
  BY <1>1, ConcatProperties
<1> DEFINE t == <<a>> \o <<b>>
<1> HIDE DEF t, S
<1>3. /\ t \o <<c>> \in Seq(S) /\ Len(t \o <<c>>) = 3
      /\ \A i \in 1..3 : (t \o <<c>>)[i] = IF i <= 2 THEN t[i] ELSE <<c>>[i - 2]
  BY <1>1, <1>2, ConcatProperties DEF t
<1>4. \A i \in 1..3 : (t \o <<c>>)[i] = <<a, b, c>>[i]
  BY <1>2, <1>3 DEF t
<1> QED
  BY <1>1, <1>3, <1>4, SeqEqual DEF t

LEMMA AptInstallPart ==
    ASSUME NEW spec, NEW mirror
    PROVE  PartOf(spec, AptInstall(spec, mirror)) /\ NoUser(AptInstall(spec, mirror))
<1> DEFINE c == [do |-> "apt-install", packages |-> spec.apt.install]
           w == [do |-> "write-list", mirror |-> mirror]
           r == [do |-> "remove-list"]
           run == Run(IF mirror = None THEN <<c>> ELSE <<w>> \o <<c>> \o <<r>>)
<1>0. <<w>> \o <<c>> \o <<r>> = <<w, c, r>>
  BY Triple
<1>1. run.op = "RUN" /\ run.commands = IF mirror = None THEN <<c>> ELSE <<w, c, r>>
  BY <1>0 DEF Run
<1>2. Sequence(<<c>>) /\ DOMAIN <<c>> = {1} /\ <<c>>[1] = c
  BY DEF Sequence, ToSet
<1>3. Sequence(<<w, c, r>>) /\ \A n \in DOMAIN <<w, c, r>> : <<w, c, r>>[n] \in {w, c, r}
  BY DEF Sequence, ToSet
<1>4. \A d \in {w, c, r} : d.do \in RootCommands \cup FreeCommands /\ d.do # "step"
  BY DEF RootCommands, FreeCommands
<1> HIDE DEF c, w, r, run
<1>5. Sequence(run.commands) /\ \A n \in DOMAIN run.commands : run.commands[n] \in {w, c, r}
  BY <1>1, <1>2, <1>3
<1>6. OfBody(spec, run)
  BY <1>1, <1>4, <1>5 DEF OfBody, BodyOps
<1>7. PartOf(spec, <<run>>) /\ NoUser(<<run>>)
  BY <1>1, <1>6, OnePart
<1>8. AptInstall(spec, mirror) = Given(spec.apt # None /\ spec.apt.install # << >>, <<run>>)
  BY DEF AptInstall, run, c, w, r
<1> QED
  BY <1>7, <1>8, GivenPart

LEMMA PipInstallPart ==
    ASSUME NEW spec, NEW mirror
    PROVE  PartOf(spec, PipInstall(spec, mirror)) /\ NoUser(PipInstall(spec, mirror))
<1> DEFINE c == [do |-> "pip-install", packages |-> spec.pip.install, index |-> mirror]
<1>1. OfBody(spec, Run(<<c>>)) /\ Run(<<c>>).op = "RUN"
  BY OneCommand DEF FreeCommands
<1>2. PartOf(spec, <<Run(<<c>>)>>) /\ NoUser(<<Run(<<c>>)>>)
  BY <1>1, OnePart
<1> QED
  BY <1>2, GivenPart DEF PipInstall

(* The block that makes the user switches to it when it is done.           *)
LEMMA CreateUserPart ==
    ASSUME NEW spec
    PROVE  PartOf(spec, CreateUser(spec)) /\ RootBefore(CreateUser(spec))
<1> DEFINE u == spec.user
           group == <<Run(<<[do |-> "groupadd", name |-> u.name, gid |-> u.gid]>>)>>
           add   == <<Run(<<[do |-> "useradd", name |-> u.name, uid |-> u.uid,
                             gid |-> IF u.uid > 0 THEN u.gid ELSE 0]>>)>>
           sudo  == <<Run(<<[do |-> "sudoers", name |-> u.name]>>)>>
           to    == <<User(u.name)>>
           all   == Given(u.gid > 0, group) \o add \o Given(u.sudo, sudo) \o to
<1>1. PartOf(spec, group) /\ NoUser(group)
  BY OneCommand, OnePart DEF RootCommands
<1>2. PartOf(spec, add) /\ NoUser(add)
  BY OneCommand, OnePart DEF RootCommands
<1>3. PartOf(spec, sudo) /\ NoUser(sudo)
  BY OneCommand, OnePart DEF RootCommands
<1>4. PartOf(spec, to) /\ RootBefore(to)
  <2>1. OfBody(spec, User(u.name))
    BY DEF User, OfBody, BodyOps
  <2> QED
    BY <2>1, OnePart
<1>5. /\ PartOf(spec, Given(u.gid > 0, group)) /\ NoUser(Given(u.gid > 0, group))
      /\ PartOf(spec, Given(u.sudo, sudo)) /\ NoUser(Given(u.sudo, sudo))
  BY <1>1, <1>3, GivenPart
<1>6. CreateUser(spec) = Given(u # None /\ u.name # None, all)
  BY DEF CreateUser
<1> HIDE DEF group, add, sudo, to
<1>7. PartOf(spec, Given(u.gid > 0, group) \o add) /\ NoUser(Given(u.gid > 0, group) \o add)
  BY <1>2, <1>5, Joined
<1>8. /\ PartOf(spec, Given(u.gid > 0, group) \o add \o Given(u.sudo, sudo))
      /\ NoUser(Given(u.gid > 0, group) \o add \o Given(u.sudo, sudo))
  BY <1>5, <1>7, Joined
<1>9. PartOf(spec, all) /\ RootBefore(all)
  BY <1>4, <1>8, Joined
<1> QED
  BY <1>6, <1>9, GivenPart

LEMMA StepPart ==
    ASSUME NEW spec, NEW m \in DOMAIN spec.shell
    PROVE  PartOf(spec, StepLines(spec.shell[m])) /\ NoRoot(StepLines(spec.shell[m]))
<1> DEFINE step == spec.shell[m]
           dir  == <<Workdir(step.workdir)>>
           user == <<User(step.user)>>
           run  == <<Run(<<[do |-> "step", run |-> step.run]>>)>>
<1>1. PartOf(spec, dir) /\ NoRoot(dir)
  <2>1. OfBody(spec, Workdir(step.workdir)) /\ ~NeedsRoot(Workdir(step.workdir))
    BY DEF Workdir, OfBody, BodyOps, NeedsRoot
  <2> QED
    BY <2>1, OnePart
<1>2. PartOf(spec, user) /\ NoRoot(user)
  <2>1. OfBody(spec, User(step.user)) /\ ~NeedsRoot(User(step.user))
    BY DEF User, OfBody, BodyOps, NeedsRoot
  <2> QED
    BY <2>1, OnePart
<1>3. PartOf(spec, run) /\ NoRoot(run)
  <2> DEFINE c == [do |-> "step", run |-> step.run]
  <2>1. c.do \in FreeCommands /\ c.run = spec.shell[m].run
    BY DEF FreeCommands
  <2>2. OfBody(spec, Run(<<c>>)) /\ ~NeedsRoot(Run(<<c>>))
    BY <2>1, OneCommand
  <2> QED
    BY <2>2, OnePart
<1>4. /\ PartOf(spec, Given(step.workdir # None, dir)) /\ NoRoot(Given(step.workdir # None, dir))
      /\ PartOf(spec, Given(step.user # None, user)) /\ NoRoot(Given(step.user # None, user))
  BY <1>1, <1>2, GivenPart
<1>5. StepLines(step) = Given(step.workdir # None, dir) \o Given(step.user # None, user) \o run
  BY DEF StepLines
<1> HIDE DEF dir, user, run, step
<1>6. /\ PartOf(spec, Given(step.workdir # None, dir) \o Given(step.user # None, user))
      /\ NoRoot(Given(step.workdir # None, dir) \o Given(step.user # None, user))
  BY <1>4, Joined
<1>7. PartOf(spec, StepLines(step)) /\ NoRoot(StepLines(step))
  BY <1>3, <1>5, <1>6, Joined
<1> QED
  BY <1>7 DEF step

LEMMA ShellStepsPart ==
    ASSUME NEW spec, WellTyped(spec)
    PROVE  PartOf(spec, ShellSteps(spec)) /\ NoRoot(ShellSteps(spec))
<1> DEFINE shell == spec.shell
           parts == [m \in DOMAIN shell |-> StepLines(shell[m])]
<1>1. Len(shell) \in Nat /\ DOMAIN shell = 1..Len(shell)
  BY SequenceFacts DEF WellTyped, Sequence
<1>2. Sequence(parts)
  BY <1>1, SequenceOfFunction
<1>3. \A m \in DOMAIN parts : PartOf(spec, parts[m]) /\ NoRoot(parts[m])
  BY StepPart
<1>4. ShellSteps(spec) = FlattenSeq(parts)
  BY DEF ShellSteps
<1> HIDE DEF parts
<1>5. \A m \in DOMAIN parts : Sequence(parts[m])
  BY <1>3 DEF PartOf
<1>6. /\ Sequence(ShellSteps(spec))
      /\ \A n \in DOMAIN ShellSteps(spec) : \E i \in DOMAIN parts : \E m \in DOMAIN parts[i] :
            ShellSteps(spec)[n] = parts[i][m]
  BY <1>2, <1>4, <1>5, Flatten
<1> QED
  BY <1>3, <1>6 DEF PartOf, NoRoot

GetentOf(spec) == Run(<<[do |-> "getent", name |-> spec.runAsUser]>>)

LEMMA RunAsUserPart ==
    ASSUME NEW spec
    PROVE  PartOf(spec, RunAsUser(spec)) /\ NoRoot(RunAsUser(spec))
<1> DEFINE look == GetentOf(spec)
           to   == User(spec.runAsUser)
<1>1. OfBody(spec, look) /\ ~NeedsRoot(look)
  BY OneCommand DEF FreeCommands, GetentOf
<1>2. OfBody(spec, to) /\ ~NeedsRoot(to)
  BY DEF User, OfBody, BodyOps, NeedsRoot
<1>3. RunAsUser(spec) = Given(spec.runAsUser # None, <<look, to>>)
  BY DEF RunAsUser, GetentOf
<1> HIDE DEF look, to
<1>4. Sequence(<<look, to>>) /\ DOMAIN <<look, to>> = 1..2
  BY DEF Sequence, ToSet
<1>5. PartOf(spec, <<look, to>>) /\ NoRoot(<<look, to>>)
  BY <1>1, <1>2, <1>4 DEF PartOf, NoRoot
<1> QED
  BY <1>3, <1>5, GivenPart

LEMMA StartPart ==
    ASSUME NEW spec
    PROVE  /\ PartOf(spec, Start(spec)) /\ NoRoot(Start(spec))
           /\ \A n \in DOMAIN Start(spec) : Start(spec)[n].op \in {"ENTRYPOINT", "CMD"}
<1> DEFINE entry == <<Entrypoint(spec.entrypoint)>>
           cmd   == <<Cmd(spec.cmd)>>
           e     == Given(spec.entrypoint # << >>, entry)
           c     == Given(spec.cmd # << >>, cmd)
<1>1. /\ Sequence(e) /\ \A n \in DOMAIN e : e[n].op = "ENTRYPOINT"
      /\ Sequence(c) /\ \A n \in DOMAIN c : c[n].op = "CMD"
  <2>1. Sequence(entry) /\ Sequence(cmd) /\ Sequence(<< >>)
    BY DEF Sequence, ToSet
  <2>2. /\ \A n \in DOMAIN entry : entry[n].op = "ENTRYPOINT"
        /\ \A n \in DOMAIN cmd : cmd[n].op = "CMD"
    BY DEF Entrypoint, Cmd
  <2> HIDE DEF entry, cmd
  <2> QED
    BY <2>1, <2>2 DEF Given
<1>2. Start(spec) = e \o c
  BY DEF Start
<1> HIDE DEF e, c
<1>3. Sequence(e \o c) /\ \A n \in DOMAIN (e \o c) : (e \o c)[n].op \in {"ENTRYPOINT", "CMD"}
  <2>1. DOMAIN e = 1..Len(e) /\ DOMAIN c = 1..Len(c)
    BY <1>1, SequenceFacts
  <2>2. /\ Sequence(e \o c) /\ Len(e) \in Nat /\ Len(c) \in Nat
        /\ DOMAIN (e \o c) = 1..Len(e) + Len(c)
        /\ \A n \in 1..Len(e) : (e \o c)[n] = e[n]
        /\ \A n \in Len(e) + 1 .. Len(e) + Len(c) : (e \o c)[n] = c[n - Len(e)]
    BY <1>1, Concat
  <2>3. ASSUME NEW n \in Len(e) + 1 .. Len(e) + Len(c)
        PROVE  (e \o c)[n].op = "CMD"
    BY <1>1, <2>1, <2>2
  <2>4. \A n \in 1..Len(e) : (e \o c)[n].op = "ENTRYPOINT"
    BY <1>1, <2>1, <2>2
  <2> QED
    BY <2>2, <2>3, <2>4
<1> QED
  BY <1>2, <1>3 DEF PartOf, OfBody, BodyOps, NoRoot, NeedsRoot

LEMMA OpeningFacts ==
    ASSUME NEW spec, WellTyped(spec)
    PROVE  /\ Sequence(Opening(spec)) /\ Len(Opening(spec)) = Checked(spec)
           /\ Checked(spec) \in Nat /\ Checked(spec) >= 4
           /\ \A n \in 1..Checked(spec) - 4 :
                 /\ n \in DOMAIN spec.fromImages
                 /\ Opening(spec)[n] = From(spec.fromImages[n].image, spec.fromImages[n].name)
           /\ Opening(spec)[Checked(spec) - 3] = From(spec.base, None)
           /\ Opening(spec)[Checked(spec) - 2] = Shell
           /\ Opening(spec)[Checked(spec) - 1] = User("root")
           /\ Opening(spec)[Checked(spec)] = Run(<<[do |-> "check-os"]>>)
<1> DEFINE from == spec.fromImages
           check == Run(<<[do |-> "check-os"]>>)
           s == Stages(spec)
           b == <<From(spec.base, None), Shell, User("root")>>
           o == <<check>>
<1>1. Len(from) \in Nat /\ DOMAIN from = 1..Len(from)
  BY SequenceFacts DEF WellTyped, Sequence
<1>2. Sequence(s) /\ Len(s) = Len(from)
  BY <1>1, SequenceOfFunction DEF Stages
<1>3. \A n \in 1..Len(from) : s[n] = From(from[n].image, from[n].name)
  BY <1>1 DEF Stages
<1>4. /\ Sequence(b) /\ Len(b) = 3
      /\ b[1] = From(spec.base, None) /\ b[2] = Shell /\ b[3] = User("root")
  BY DEF Sequence, ToSet
<1>5. Sequence(o) /\ Len(o) = 1 /\ o[1] = check
  BY DEF Sequence, ToSet
<1>6. Opening(spec) = s \o b \o o
  BY DEF Opening, Base, ImageOSCheck
<1> HIDE DEF s, b, o, check
<1>7. /\ Sequence(s \o b) /\ Len(s \o b) = Len(from) + 3
      /\ \A n \in 1..Len(from) : (s \o b)[n] = s[n]
      /\ \A n \in 1..3 : (s \o b)[Len(from) + n] = b[n]
  <2>0. Sequence(s) /\ Sequence(b)
    BY <1>2, <1>4
  <2>1. /\ Sequence(s \o b) /\ Len(s \o b) = Len(s) + Len(b)
        /\ \A n \in 1..Len(s) : (s \o b)[n] = s[n]
        /\ \A n \in 1..Len(b) : (s \o b)[Len(s) + n] = b[n]
    BY <2>0, Concat
  <2> QED
    BY <1>2, <1>4, <2>1
<1> DEFINE t == s \o b
<1> HIDE DEF t
<1>8. /\ Sequence(t \o o) /\ Len(t \o o) = Len(from) + 4
      /\ \A n \in 1..Len(from) + 3 : (t \o o)[n] = t[n]
      /\ (t \o o)[Len(from) + 4] = o[1]
  <2>1. Sequence(t) /\ Len(t) = Len(from) + 3
    BY <1>7 DEF t
  <2>0. Sequence(t) /\ Sequence(o)
    BY <1>5, <2>1
  <2>2. /\ Sequence(t \o o) /\ Len(t \o o) = Len(t) + Len(o)
        /\ \A n \in 1..Len(t) : (t \o o)[n] = t[n]
        /\ \A n \in 1..Len(o) : (t \o o)[Len(t) + n] = o[n]
    BY <2>0, Concat
  <2>3. (t \o o)[Len(t) + 1] = o[1]
    BY <1>5, <2>2
  <2>4. (Len(from) + 3) + 1 = Len(from) + 4
    BY <1>1
  <2> QED
    BY <1>5, <2>1, <2>2, <2>3, <2>4
<1>9. Opening(spec) = t \o o /\ Checked(spec) = Len(from) + 4
  BY <1>6 DEF t, Checked
<1>10. \A n \in 1..Len(from) : (t \o o)[n] = From(from[n].image, from[n].name)
  BY <1>1, <1>3, <1>7, <1>8 DEF t
<1>11. /\ (t \o o)[Len(from) + 1] = b[1] /\ (t \o o)[Len(from) + 2] = b[2]
       /\ (t \o o)[Len(from) + 3] = b[3]
  <2>1. \A n \in 1..3 : Len(from) + n \in 1..Len(from) + 3
    BY <1>1
  <2>2. \A n \in 1..3 : t[Len(from) + n] = b[n]
    BY <1>7 DEF t
  <2> HIDE DEF from
  <2>3. \A n \in 1..Len(from) + 3 : (t \o o)[n] = t[n]
    BY <1>8
  <2>4. ASSUME NEW n \in 1..3
        PROVE  (t \o o)[Len(from) + n] = b[n]
    <3>1. Len(from) + n \in 1..Len(from) + 3
      BY <2>1
    <3>2. (t \o o)[Len(from) + n] = t[Len(from) + n]
      BY <2>3, <3>1
    <3> QED
      BY <2>2, <3>2
  <2>5. 1 \in 1..3 /\ 2 \in 1..3 /\ 3 \in 1..3
    OBVIOUS
  <2> QED
    BY <2>4, <2>5, Zenon
<1>12. /\ Checked(spec) - 4 = Len(from) /\ Checked(spec) - 3 = Len(from) + 1
       /\ Checked(spec) - 2 = Len(from) + 2 /\ Checked(spec) - 1 = Len(from) + 3
  BY <1>1, <1>9
<1>13. /\ Opening(spec)[Checked(spec) - 3] = From(spec.base, None)
       /\ Opening(spec)[Checked(spec) - 2] = Shell
       /\ Opening(spec)[Checked(spec) - 1] = User("root")
       /\ Opening(spec)[Checked(spec)] = check
  BY <1>4, <1>5, <1>8, <1>9, <1>11, <1>12
<1>14. Checked(spec) \in Nat /\ Checked(spec) >= 4
  BY <1>1, <1>9
<1> QED
  BY <1>1, <1>8, <1>9, <1>10, <1>12, <1>13, <1>14 DEF check

LEMMA OpeningLaid ==
    ASSUME NEW spec, WellTyped(spec)
    PROVE  Laid(spec, Opening(spec)) /\ UserFree(spec, Opening(spec))
  BY OpeningFacts DEF Laid, UserFree

(* The user runAsUser names is looked up and then switched to, and only    *)
(* ENTRYPOINT and CMD come after it.                                       *)
EndsAs(spec, s) ==
    \E g \in Checked(spec) + 1 .. Len(s) - 1 :
        /\ s[g] = GetentOf(spec)
        /\ s[g + 1] = User(spec.runAsUser)
        /\ \A k \in g + 2 .. Len(s) : s[k].op \in {"ENTRYPOINT", "CMD"}

LEMMA RunAsLast ==
    ASSUME NEW spec, NEW s, Laid(spec, s), spec.runAsUser # None
    PROVE  EndsAs(spec, s \o RunAsUser(spec) \o Start(spec))
<1> DEFINE r == RunAsUser(spec)
           e == Start(spec)
           m == Len(s)
           u == s \o r
           w == u \o e
<1>1. Sequence(s) /\ m \in Nat /\ Checked(spec) \in Nat /\ Checked(spec) <= m
  BY SequenceFacts DEF Laid
<1>2. r = <<GetentOf(spec), User(spec.runAsUser)>>
  BY DEF RunAsUser, GetentOf, Given
<1>3. Sequence(r) /\ Sequence(e)
  BY RunAsUserPart, StartPart DEF PartOf
<1>4. Len(r) = 2 /\ r[1] = GetentOf(spec) /\ r[2] = User(spec.runAsUser)
  BY <1>2
<1>5. DOMAIN e = 1..Len(e) /\ Len(e) \in Nat /\ \A n \in 1..Len(e) : e[n].op \in {"ENTRYPOINT", "CMD"}
  BY <1>3, SequenceFacts, StartPart
<1> HIDE DEF r, e, u, w, m
<1>6. /\ Sequence(u) /\ Len(u) = m + Len(r)
      /\ \A n \in 1..Len(r) : u[m + n] = r[n]
  BY <1>1, <1>3, Concat DEF u, m
<1>7. u[m + 1] = GetentOf(spec) /\ u[m + 2] = User(spec.runAsUser) /\ Len(u) = m + 2
  BY <1>4, <1>6
<1>8. /\ Len(w) = Len(u) + Len(e)
      /\ \A n \in 1..Len(u) : w[n] = u[n]
      /\ \A n \in Len(u) + 1 .. Len(u) + Len(e) : w[n] = e[n - Len(u)]
  BY <1>3, <1>6, Concat DEF w
<1> DEFINE g == m + 1
<1>9. g \in Checked(spec) + 1 .. Len(w) - 1
  BY <1>1, <1>5, <1>7, <1>8
<1>10. w[g] = GetentOf(spec) /\ w[g + 1] = User(spec.runAsUser)
  <2>1. m + 1 \in 1..Len(u) /\ m + 2 \in 1..Len(u) /\ g + 1 = m + 2
    BY <1>1, <1>7
  <2> QED
    BY <1>7, <1>8, <2>1
<1>11. ASSUME NEW k \in g + 2 .. Len(w)
       PROVE  w[k].op \in {"ENTRYPOINT", "CMD"}
  <2>1. k \in Len(u) + 1 .. Len(u) + Len(e) /\ k - Len(u) \in 1..Len(e)
    BY <1>1, <1>5, <1>7, <1>8
  <2> QED
    BY <1>5, <1>8, <2>1
<1>12. EndsAs(spec, w)
  BY <1>9, <1>10, <1>11 DEF EndsAs
<1> QED
  BY <1>12 DEF w, u, r, e

(* The opening, a body in which root's work is done before any USER, and   *)
(* the user to run as at the end: in every Dockerfile, whatever the spec   *)
(* asks for and in whatever order its ENV lines come.                      *)
THEOREM DockerfileLayout ==
    ASSUME NEW spec, WellTyped(spec), NEW order \in EnvOrders(spec), NEW apt, NEW pypi
    PROVE  LET s == GenerateDockerfile(spec, order, apt, pypi)
           IN  /\ Laid(spec, s) /\ RootFirst(spec, s)
               /\ spec.runAsUser # None => EndsAs(spec, s)
<1> DEFINE s0 == Opening(spec)
           s1 == s0 \o Copies(spec)
           s2 == s1 \o EnvLines(spec, order)
           s3 == s2 \o AptMirror(spec)
           s4 == s3 \o AptInstall(spec, apt)
           s5 == s4 \o PipInstall(spec, pypi)
           s6 == s5 \o CreateUser(spec)
           s7 == s6 \o ShellSteps(spec)
           s8 == s7 \o RunAsUser(spec)
           s9 == s8 \o Start(spec)
<1>0. GenerateDockerfile(spec, order, apt, pypi) = s9
  BY DEF GenerateDockerfile, Opening
<1>1. Laid(spec, s0) /\ UserFree(spec, s0)
  BY OpeningLaid
<1> HIDE DEF s0
<1>2. Laid(spec, s1) /\ UserFree(spec, s1)
  BY <1>1, CopiesPart, Extended
<1> HIDE DEF s1
<1>3. Laid(spec, s2) /\ UserFree(spec, s2)
  BY <1>2, EnvPart, Extended
<1> HIDE DEF s2
<1>4. Laid(spec, s3) /\ UserFree(spec, s3)
  BY <1>3, AptMirrorPart, Extended
<1> HIDE DEF s3
<1>5. Laid(spec, s4) /\ UserFree(spec, s4)
  BY <1>4, AptInstallPart, Extended
<1> HIDE DEF s4
<1>6. Laid(spec, s5) /\ UserFree(spec, s5)
  BY <1>5, PipInstallPart, Extended
<1> HIDE DEF s5
<1>7. Laid(spec, s6) /\ RootFirst(spec, s6)
  BY <1>6, CreateUserPart, Extended
<1> HIDE DEF s6
<1>8. Laid(spec, s7) /\ RootFirst(spec, s7)
  BY <1>7, ShellStepsPart, Extended
<1> HIDE DEF s7
<1>9. Laid(spec, s8) /\ RootFirst(spec, s8)
  BY <1>8, RunAsUserPart, Extended
<1>10. spec.runAsUser # None => EndsAs(spec, s9)
  BY <1>8, RunAsLast
<1> HIDE DEF s8
<1>11. Laid(spec, s9) /\ RootFirst(spec, s9)
  BY <1>9, StartPart, Extended
<1> HIDE DEF s9
<1> QED
  BY <1>0, <1>10, <1>11

-----------------------------------------------------------------------------
(* Specs of one hash agree on every field of which GenerateDockerfile      *)
(* makes use.                                                              *)
LEMMA HashedFields ==
    ASSUME NEW a, NEW b, ComputeSpecHash(a) = ComputeSpecHash(b)
    PROVE  /\ a.base = b.base /\ a.apt = b.apt /\ a.pip = b.pip
           /\ a.shell = b.shell /\ a.fromImages = b.fromImages
           /\ a.env = b.env /\ a.user = b.user /\ a.runAsUser = b.runAsUser
           /\ a.entrypoint = b.entrypoint /\ a.cmd = b.cmd
<1> DEFINE h == ComputeSpecHash(a)
           g == ComputeSpecHash(b)
<1>1. /\ h.base = a.base /\ h.apt = a.apt /\ h.pip = a.pip
      /\ h.shell = a.shell /\ h.fromImages = a.fromImages
      /\ h.env = a.env /\ h.user = a.user /\ h.runAsUser = a.runAsUser
      /\ h.entrypoint = a.entrypoint /\ h.cmd = a.cmd
  BY DEF ComputeSpecHash
<1>2. /\ g.base = b.base /\ g.apt = b.apt /\ g.pip = b.pip
      /\ g.shell = b.shell /\ g.fromImages = b.fromImages
      /\ g.env = b.env /\ g.user = b.user /\ g.runAsUser = b.runAsUser
      /\ g.entrypoint = b.entrypoint /\ g.cmd = b.cmd
  BY DEF ComputeSpecHash
<1>3. h = g
  OBVIOUS
<1> HIDE DEF h, g
<1> QED
  BY <1>1, <1>2, <1>3

(* Specs of one hash may come in the same orders of their ENV and, for the *)
(* same order and mirrors, have the same Dockerfile: no field that enters  *)
(* generateDockerfile is missing from ComputeSpecHash.                     *)
THEOREM HashDeterminesDockerfile ==
    ASSUME NEW a, NEW b, ComputeSpecHash(a) = ComputeSpecHash(b)
    PROVE  /\ EnvOrders(a) = EnvOrders(b)
           /\ \A order, apt, pypi :
                 GenerateDockerfile(a, order, apt, pypi)
                    = GenerateDockerfile(b, order, apt, pypi)
<1>1. EnvOrders(a) = EnvOrders(b)
  BY HashedFields DEF EnvOrders
<1>2. ASSUME NEW order, NEW apt, NEW pypi
      PROVE  GenerateDockerfile(a, order, apt, pypi)
                = GenerateDockerfile(b, order, apt, pypi)
  <2>1. Stages(a) = Stages(b) /\ Base(a) = Base(b) /\ Copies(a) = Copies(b)
    BY HashedFields DEF Stages, Base, Copies
  <2>2. EnvLines(a, order) = EnvLines(b, order)
    BY HashedFields DEF EnvLines
  <2>3. /\ AptMirror(a) = AptMirror(b)
        /\ AptInstall(a, apt) = AptInstall(b, apt)
        /\ PipInstall(a, pypi) = PipInstall(b, pypi)
    BY HashedFields DEF AptMirror, AptInstall, PipInstall
  <2>4. CreateUser(a) = CreateUser(b) /\ ShellSteps(a) = ShellSteps(b)
    BY HashedFields DEF CreateUser, ShellSteps
  <2>5. RunAsUser(a) = RunAsUser(b) /\ Start(a) = Start(b)
    BY HashedFields DEF RunAsUser, Start
  <2> QED
    BY <2>1, <2>2, <2>3, <2>4, <2>5 DEF GenerateDockerfile
<1> QED
  BY <1>1, <1>2

-----------------------------------------------------------------------------
(* Two Dockerfiles of one spec: the same but for the order of their ENV    *)
(* lines and for the build's mirrors.                                      *)

AptRun(packages, mirror) ==
    LET install == <<[do |-> "apt-install", packages |-> packages]>>
        written == <<[do |-> "write-list", mirror |-> mirror]>>
        removed == <<[do |-> "remove-list"]>>
    IN  Run(IF mirror = None THEN install ELSE written \o install \o removed)

PipRun(packages, mirror) ==
    Run(<<[do |-> "pip-install", packages |-> packages, index |-> mirror]>>)

PipAlike(x, y) ==
    \/ x = y
    \/ \E packages, m, l : x = PipRun(packages, m) /\ y = PipRun(packages, l)

AptAlike(x, y) ==
    \/ PipAlike(x, y)
    \/ \E packages, m, l : x = AptRun(packages, m) /\ y = AptRun(packages, l)

(* What comes before the packages: no ENV, and no list of sources.         *)
Quiet(in) ==
    /\ in.op # "ENV"
    /\ in.op = "RUN" => \E c : in = Run(<<c>>) /\ c.do \in {"check-os", "write-sources"}

(* Two programs s and t up to the environment, the e-th instruction; with  *)
(* it; and up to the packages, the r-th, and beyond.                       *)
Opened(s) ==
    Sequence(s) /\ \A n \in 1 .. Len(s) : Quiet(s[n])

Courses(env, o, q, s, t, e, r) ==
    /\ Sequence(s) /\ Sequence(t) /\ Len(t) = Len(s) /\ e \in Nat /\ r \in Nat
    /\ Sequence(o) /\ Len(q) = Len(o) /\ e + Len(o) <= r /\ r <= Len(s)
    /\ \A n \in 1 .. e : s[n] = t[n] /\ Quiet(s[n])
    /\ \A n \in 1 .. Len(o) : s[e + n] = Env(o[n], env[o[n]]) /\ t[e + n] = Env(q[n], env[q[n]])
    /\ \A n \in e + Len(o) + 1 .. r : s[n] = t[n] /\ Quiet(s[n])
    /\ r < Len(s) => AptAlike(s[r + 1], t[r + 1])
    /\ \A n \in r + 2 .. Len(s) : PipAlike(s[n], t[n])

LEMMA QuietJoined ==
    ASSUME NEW u, NEW v, Opened(u), Opened(v)
    PROVE  Opened(u \o v)
<1> DEFINE w == u \o v
<1>1. Sequence(u) /\ Sequence(v)
  BY DEF Opened
<1>2. /\ Sequence(w) /\ Len(u) \in Nat /\ Len(v) \in Nat /\ Len(w) = Len(u) + Len(v)
      /\ \A n \in 1 .. Len(u) : w[n] = u[n]
      /\ \A n \in Len(u) + 1 .. Len(u) + Len(v) : w[n] = v[n - Len(u)]
  BY <1>1, Concat
<1> HIDE DEF w
<1>3. \A n \in 1 .. Len(w) : n \in 1 .. Len(u) \/ n \in Len(u) + 1 .. Len(u) + Len(v)
  BY <1>2
<1>4. \A n \in Len(u) + 1 .. Len(u) + Len(v) : n - Len(u) \in 1 .. Len(v)
  BY <1>2
<1>5. \A n \in 1 .. Len(w) : Quiet(w[n])
  <2>1. \A n \in 1 .. Len(u) : Quiet(u[n])
    BY DEF Opened
  <2>2. \A n \in 1 .. Len(v) : Quiet(v[n])
    BY DEF Opened
  <2> QED
    BY <1>2, <1>3, <1>4, <2>1, <2>2
<1>6. Opened(w)
  BY <1>2, <1>5 DEF Opened
<1> QED
  BY <1>6 DEF w

LEMMA QuietOne ==
    ASSUME NEW in, Quiet(in)
    PROVE  Opened(<<in>>)
<1>1. Sequence(<<in>>) /\ Len(<<in>>) = 1 /\ <<in>>[1] = in
  BY DEF Sequence, ToSet
<1> QED
  BY <1>1 DEF Opened

(* What the code puts before the environment.                              *)
LEMMA QuietParts ==
    ASSUME NEW spec, WellTyped(spec)
    PROVE  /\ Opened(Opening(spec))
           /\ Opened(Copies(spec))
           /\ Opened(AptMirror(spec))
<1>1. Opened(Opening(spec))
  <2> DEFINE o == Opening(spec)
             c == Checked(spec)
  <2>1. /\ Sequence(o) /\ Len(o) = c /\ c \in Nat /\ c >= 4
        /\ \A n \in 1 .. c - 4 : o[n].op = "FROM"
        /\ o[c - 3].op = "FROM" /\ o[c - 2].op = "SHELL" /\ o[c - 1].op = "USER"
        /\ o[c] = Run(<<[do |-> "check-os"]>>)
    <3>1. /\ From(spec.base, None).op = "FROM" /\ Shell.op = "SHELL"
          /\ User("root").op = "USER"
          /\ \A x, y : From(x, y).op = "FROM"
      BY DEF From, Shell, User
    <3>2. /\ Sequence(o) /\ Len(o) = c /\ c \in Nat /\ c >= 4
          /\ \A n \in 1 .. c - 4 : \E x, y : o[n] = From(x, y)
          /\ o[c - 3] = From(spec.base, None) /\ o[c - 2] = Shell /\ o[c - 1] = User("root")
          /\ o[c] = Run(<<[do |-> "check-os"]>>)
      BY OpeningFacts, SMTT(30)
    <3> HIDE DEF o, c
    <3> QED
      BY <3>1, <3>2
  <2>2. Quiet(Run(<<[do |-> "check-os"]>>))
    <3> DEFINE d == [do |-> "check-os"]
    <3>1. Run(<<d>>).op = "RUN" /\ d.do = "check-os"
      BY DEF Run
    <3> HIDE DEF d
    <3>2. Run(<<d>>).op # "ENV"
      BY <3>1
    <3>3. \E b : Run(<<d>>) = Run(<<b>>) /\ b.do \in {"check-os", "write-sources"}
      BY <3>1
    <3>4. Quiet(Run(<<d>>))
      BY <3>2, <3>3 DEF Quiet
    <3> QED
      BY <3>4 DEF d
  <2>3. \A n \in 1 .. c : n \in 1 .. c - 4 \/ n = c - 3 \/ n = c - 2 \/ n = c - 1 \/ n = c
    BY <2>1
  <2> HIDE DEF o, c
  <2>4. \A n \in 1 .. Len(o) : Quiet(o[n])
    <3>1. \A in : in.op \in {"FROM", "SHELL", "USER"} => Quiet(in)
      BY DEF Quiet
    <3> QED
      BY <2>1, <2>2, <2>3, <3>1
  <2> QED
    BY <2>1, <2>4 DEF Opened, o
<1>2. Opened(Copies(spec))
  <2> DEFINE from == spec.fromImages
             parts == [i \in DOMAIN from |-> CopiesOf(from[i])]
  <2>1. Sequence(from) /\ \A i \in DOMAIN from : Sequence(from[i].copy)
    BY DEF WellTyped, Sequence
  <2>2. Len(from) \in Nat /\ DOMAIN from = 1..Len(from)
    BY <2>1, SequenceFacts
  <2>3. Sequence(parts)
    BY <2>2, SequenceOfFunction
  <2>4. ASSUME NEW i \in DOMAIN parts
        PROVE  /\ Sequence(parts[i])
               /\ \A m \in DOMAIN parts[i] : parts[i][m].op = "COPY"
    <3>1. Len(from[i].copy) \in Nat /\ DOMAIN from[i].copy = 1..Len(from[i].copy)
      BY <2>1, SequenceFacts
    <3>2. Sequence(CopiesOf(from[i]))
      BY <3>1, SequenceOfFunction DEF CopiesOf
    <3>3. \A m \in DOMAIN CopiesOf(from[i]) : CopiesOf(from[i])[m].op = "COPY"
      BY DEF CopiesOf, Copy
    <3> QED
      BY <3>2, <3>3
  <2>5. Copies(spec) = FlattenSeq(parts)
    BY DEF Copies
  <2> HIDE DEF parts
  <2>6. /\ Sequence(Copies(spec))
        /\ \A n \in DOMAIN Copies(spec) : Copies(spec)[n].op = "COPY"
    BY <2>3, <2>4, <2>5, Flatten
  <2>7. \A n \in 1 .. Len(Copies(spec)) : Copies(spec)[n].op = "COPY"
    BY <2>6, SequenceFacts
  <2> QED
    BY <2>6, <2>7 DEF Opened, Quiet
<1>3. Opened(AptMirror(spec))
  <2> DEFINE c == [do |-> "write-sources", mirror |-> spec.apt.mirror]
  <2>1. Quiet(Run(<<c>>))
    <3>1. Run(<<c>>).op = "RUN" /\ c.do = "write-sources"
      BY DEF Run
    <3> HIDE DEF c
    <3>2. Run(<<c>>).op # "ENV"
      BY <3>1
    <3>3. \E b : Run(<<c>>) = Run(<<b>>) /\ b.do \in {"check-os", "write-sources"}
      BY <3>1
    <3> QED
      BY <3>2, <3>3 DEF Quiet
  <2>2. Opened(<<Run(<<c>>)>>)
    BY <2>1, QuietOne
  <2>3. Opened(<< >>)
    BY DEF Opened, Sequence
  <2> QED
    BY <2>2, <2>3 DEF AptMirror, Given
<1> QED
  BY <1>1, <1>2, <1>3

(* With their environments.                                                *)
LEMMA CoursesBegun ==
    ASSUME NEW u, Opened(u), NEW spec, NEW o, Sequence(o), NEW q, Sequence(q),
           Len(q) = Len(o)
    PROVE  /\ Courses(spec.env, o, q, u \o EnvLines(spec, o), u \o EnvLines(spec, q),
                      Len(u), Len(u) + Len(o))
           /\ Len(u \o EnvLines(spec, o)) = Len(u) + Len(o)
<1> DEFINE x == EnvLines(spec, o)
           y == EnvLines(spec, q)
           env == spec.env
           s == u \o x
           t == u \o y
           e == Len(u)
<1>1. /\ Sequence(u) /\ e \in Nat /\ \A n \in 1 .. e : Quiet(u[n])
  BY SequenceFacts DEF Opened
<1>2. /\ Len(o) \in Nat /\ DOMAIN o = 1 .. Len(o) /\ DOMAIN q = 1 .. Len(o)
  BY SequenceFacts
<1>3. /\ Sequence(x) /\ Len(x) = Len(o) /\ Sequence(y) /\ Len(y) = Len(o)
  BY <1>2, SequenceOfFunction DEF EnvLines
<1>4. \A n \in 1 .. Len(o) : x[n] = Env(o[n], env[o[n]]) /\ y[n] = Env(q[n], env[q[n]])
  BY <1>2 DEF EnvLines
<1> HIDE DEF x, y, env
<1>5. /\ Sequence(s) /\ Len(s) = Len(u) + Len(x)
      /\ \A n \in 1 .. Len(u) : s[n] = u[n]
      /\ \A n \in 1 .. Len(x) : s[Len(u) + n] = x[n]
  BY <1>1, <1>3, Concat
<1>6. /\ Sequence(t) /\ Len(t) = Len(u) + Len(y)
      /\ \A n \in 1 .. Len(u) : t[n] = u[n]
      /\ \A n \in 1 .. Len(y) : t[Len(u) + n] = y[n]
  BY <1>1, <1>3, Concat
<1> HIDE DEF s, t, e
<1>7. /\ Len(s) = e + Len(o) /\ Len(t) = Len(s) /\ e + Len(o) \in Nat
      /\ e + Len(o) + 1 .. e + Len(o) = {} /\ ~(e + Len(o) < Len(s))
      /\ (e + Len(o)) + 2 .. Len(s) = {}
  BY <1>1, <1>2, <1>3, <1>5, <1>6 DEF e
<1>8. \A n \in 1 .. e : s[n] = t[n] /\ Quiet(s[n])
  BY <1>1, <1>5, <1>6 DEF e
<1>9. \A n \in 1 .. Len(o) :
         s[e + n] = Env(o[n], env[o[n]]) /\ t[e + n] = Env(q[n], env[q[n]])
  BY <1>3, <1>4, <1>5, <1>6 DEF e
<1>10. e + Len(o) <= e + Len(o) /\ e + Len(o) <= Len(s)
  BY <1>1, <1>2, <1>7
<1>11. Courses(env, o, q, s, t, e, e + Len(o))
  BY <1>1, <1>5, <1>6, <1>7, <1>8, <1>9, <1>10 DEF Courses
<1> QED
  BY <1>7, <1>11 DEF s, t, e, x, y, env

(* With the mirror that the spec itself names.                             *)
LEMMA CoursesQuietly ==
    ASSUME NEW env, NEW o, NEW q, NEW s, NEW t, NEW e,
           Courses(env, o, q, s, t, e, Len(s)), NEW v, Opened(v)
    PROVE  Courses(env, o, q, s \o v, t \o v, e, Len(s \o v))
<1> DEFINE a == s \o v
           b == t \o v
           l == Len(s)
<1>1. /\ Sequence(s) /\ Sequence(t) /\ Len(t) = l /\ e \in Nat /\ l \in Nat
      /\ Sequence(o) /\ Len(q) = Len(o) /\ e + Len(o) <= l
      /\ \A n \in 1 .. e : s[n] = t[n] /\ Quiet(s[n])
      /\ \A n \in 1 .. Len(o) : s[e + n] = Env(o[n], env[o[n]]) /\ t[e + n] = Env(q[n], env[q[n]])
      /\ \A n \in e + Len(o) + 1 .. l : s[n] = t[n] /\ Quiet(s[n])
  BY DEF Courses
<1>2. Sequence(v) /\ \A n \in 1 .. Len(v) : Quiet(v[n])
  BY DEF Opened
<1>3. /\ Sequence(a) /\ Len(v) \in Nat /\ Len(a) = l + Len(v)
      /\ \A n \in 1 .. l : a[n] = s[n]
      /\ \A n \in l + 1 .. l + Len(v) : a[n] = v[n - l]
  BY <1>1, <1>2, Concat
<1>4. /\ Sequence(b) /\ Len(b) = Len(t) + Len(v)
      /\ \A n \in 1 .. Len(t) : b[n] = t[n]
      /\ \A n \in Len(t) + 1 .. Len(t) + Len(v) : b[n] = v[n - Len(t)]
  <2>1. Sequence(t) /\ Sequence(v)
    BY <1>1, <1>2
  <2> QED
    BY <2>1, Concat
<1>5. Len(o) \in Nat
  BY <1>1, SequenceFacts
<1> HIDE DEF a, b, l
<1>6. \A n \in 1 .. l : a[n] = s[n] /\ b[n] = t[n]
  BY <1>1, <1>3, <1>4
<1>7. \A n \in l + 1 .. Len(a) : a[n] = b[n] /\ Quiet(a[n])
  <2>1. \A n \in l + 1 .. l + Len(v) : n - l \in 1 .. Len(v)
    BY <1>1, <1>3
  <2> QED
    BY <1>1, <1>2, <1>3, <1>4, <2>1
<1>8. \A n \in 1 .. e : n \in 1 .. l
  BY <1>1, <1>5
<1>9. \A n \in 1 .. Len(o) : e + n \in 1 .. l
  BY <1>1, <1>5
<1>10. \A n \in e + Len(o) + 1 .. Len(a) : (n \in e + Len(o) + 1 .. l /\ n \in 1 .. l) \/ n \in l + 1 .. Len(a)
  BY <1>1, <1>3, <1>5
<1>11. /\ Len(a) \in Nat /\ Len(b) = Len(a) /\ e + Len(o) <= Len(a) /\ Len(a) <= Len(a)
       /\ ~(Len(a) < Len(a)) /\ Len(a) + 2 .. Len(a) = {}
  BY <1>1, <1>3, <1>4, <1>5
<1>12. \A n \in 1 .. e : a[n] = b[n] /\ Quiet(a[n])
  BY <1>1, <1>6, <1>8
<1>13. \A n \in 1 .. Len(o) :
          a[e + n] = Env(o[n], env[o[n]]) /\ b[e + n] = Env(q[n], env[q[n]])
  BY <1>1, <1>6, <1>9
<1>14. \A n \in e + Len(o) + 1 .. Len(a) : a[n] = b[n] /\ Quiet(a[n])
  BY <1>1, <1>6, <1>7, <1>10
<1>15. Courses(env, o, q, a, b, e, Len(a))
  BY <1>1, <1>3, <1>4, <1>11, <1>12, <1>13, <1>14 DEF Courses
<1> QED
  BY <1>15 DEF a, b

(* With the packages, and with what comes after them.                      *)
LEMMA CoursesExtended ==
    ASSUME NEW env, NEW o, NEW q, NEW s, NEW t, NEW e, NEW r,
           Courses(env, o, q, s, t, e, r),
           NEW v, Sequence(v), NEW w, Sequence(w), Len(w) = Len(v),
           \A n \in 1 .. Len(v) : \/ PipAlike(v[n], w[n])
                                  \/ n = 1 /\ r = Len(s) /\ AptAlike(v[n], w[n])
    PROVE  Courses(env, o, q, s \o v, t \o w, e, r)
<1> DEFINE a == s \o v
           b == t \o w
           l == Len(s)
<1>1. /\ Sequence(s) /\ Sequence(t) /\ Len(t) = l /\ e \in Nat /\ r \in Nat /\ l \in Nat
      /\ Sequence(o) /\ Len(q) = Len(o) /\ e + Len(o) <= r /\ r <= l
      /\ \A n \in 1 .. e : s[n] = t[n] /\ Quiet(s[n])
      /\ \A n \in 1 .. Len(o) : s[e + n] = Env(o[n], env[o[n]]) /\ t[e + n] = Env(q[n], env[q[n]])
      /\ \A n \in e + Len(o) + 1 .. r : s[n] = t[n] /\ Quiet(s[n])
      /\ r < l => AptAlike(s[r + 1], t[r + 1])
      /\ \A n \in r + 2 .. l : PipAlike(s[n], t[n])
  BY SequenceFacts DEF Courses
<1>2. /\ Sequence(a) /\ Len(v) \in Nat /\ Len(a) = l + Len(v)
      /\ \A n \in 1 .. l : a[n] = s[n]
      /\ \A n \in l + 1 .. l + Len(v) : a[n] = v[n - l]
  BY <1>1, Concat
<1>3. /\ Sequence(b) /\ Len(b) = Len(t) + Len(w)
      /\ \A n \in 1 .. Len(t) : b[n] = t[n]
      /\ \A n \in Len(t) + 1 .. Len(t) + Len(w) : b[n] = w[n - Len(t)]
  <2>1. Sequence(t) /\ Sequence(w)
    BY <1>1
  <2> QED
    BY <2>1, Concat
<1>4. Len(o) \in Nat
  BY <1>1, SequenceFacts
<1> HIDE DEF a, b, l
<1>5. \A n \in 1 .. l : a[n] = s[n] /\ b[n] = t[n]
  BY <1>1, <1>2, <1>3
<1>6. \A n \in l + 1 .. Len(a) :
         n - l \in 1 .. Len(v) /\ a[n] = v[n - l] /\ b[n] = w[n - l]
  <2>1. \A n \in l + 1 .. l + Len(v) : n - l \in 1 .. Len(v)
    BY <1>1, <1>2
  <2> QED
    BY <1>1, <1>2, <1>3, <2>1
<1>7. \A n \in 1 .. e : n \in 1 .. l
  BY <1>1, <1>4
<1>8. \A n \in 1 .. Len(o) : e + n \in 1 .. l
  BY <1>1, <1>4
<1>9. \A n \in e + Len(o) + 1 .. r : n \in 1 .. l
  BY <1>1, <1>4
<1>10. \A n \in r + 2 .. Len(a) : \/ n \in r + 2 .. l /\ n \in 1 .. l
                                  \/ n \in l + 1 .. Len(a) /\ ~(n - l = 1 /\ r = l)
  BY <1>1, <1>2
<1>11. \A n \in 1 .. e : a[n] = b[n] /\ Quiet(a[n])
  BY <1>1, <1>5, <1>7
<1>12. \A n \in 1 .. Len(o) :
          a[e + n] = Env(o[n], env[o[n]]) /\ b[e + n] = Env(q[n], env[q[n]])
  BY <1>1, <1>5, <1>8
<1>13. \A n \in e + Len(o) + 1 .. r : a[n] = b[n] /\ Quiet(a[n])
  BY <1>1, <1>5, <1>9
<1>14. \A n \in r + 2 .. Len(a) : PipAlike(a[n], b[n])
  BY <1>1, <1>5, <1>6, <1>10 DEF l
<1>15. ASSUME r < Len(a)
       PROVE  AptAlike(a[r + 1], b[r + 1])
  <2>1. CASE r < l
    <3>1. r + 1 \in 1 .. l
      BY <1>1, <2>1
    <3> QED
      BY <1>1, <1>5, <2>1, <3>1
  <2>2. CASE ~(r < l)
    <3>1. r + 1 \in l + 1 .. Len(a)
      BY <1>1, <1>2, <1>15, <2>2
    <3>2. AptAlike(v[(r + 1) - l], w[(r + 1) - l])
      BY <1>6, <3>1 DEF AptAlike
    <3> QED
      BY <1>6, <3>1, <3>2
  <2> QED
    BY <2>1, <2>2
<1>16. Len(b) = Len(a) /\ r <= Len(a)
  BY <1>1, <1>2, <1>3
<1>17. Courses(env, o, q, a, b, e, r)
  BY <1>1, <1>2, <1>3, <1>11, <1>12, <1>13, <1>14, <1>15, <1>16 DEF Courses
<1> QED
  BY <1>17 DEF a, b

LEMMA CoursesSame ==
    ASSUME NEW env, NEW o, NEW q, NEW s, NEW t, NEW e, NEW r,
           Courses(env, o, q, s, t, e, r), NEW v, Sequence(v)
    PROVE  Courses(env, o, q, s \o v, t \o v, e, r)
<1>1. \A n \in 1 .. Len(v) : PipAlike(v[n], v[n])
  BY DEF PipAlike
<1> QED
  BY <1>1, CoursesExtended

(* After one more instruction before them.                                 *)
LEMMA CoursesPrefixed ==
    ASSUME NEW env, NEW o, NEW q, NEW s, NEW t, NEW e, NEW r,
           Courses(env, o, q, s, t, e, r), NEW in, Quiet(in)
    PROVE  Courses(env, o, q, <<in>> \o s, <<in>> \o t, e + 1, r + 1)
<1> DEFINE p == <<in>>
           a == p \o s
           b == p \o t
           l == Len(s)
<1>1. /\ Sequence(s) /\ Sequence(t) /\ Len(t) = l /\ e \in Nat /\ r \in Nat /\ l \in Nat
      /\ Sequence(o) /\ Len(q) = Len(o) /\ e + Len(o) <= r /\ r <= l
      /\ \A n \in 1 .. e : s[n] = t[n] /\ Quiet(s[n])
      /\ \A n \in 1 .. Len(o) : s[e + n] = Env(o[n], env[o[n]]) /\ t[e + n] = Env(q[n], env[q[n]])
      /\ \A n \in e + Len(o) + 1 .. r : s[n] = t[n] /\ Quiet(s[n])
      /\ r < l => AptAlike(s[r + 1], t[r + 1])
      /\ \A n \in r + 2 .. l : PipAlike(s[n], t[n])
  BY SequenceFacts DEF Courses
<1>2. Sequence(p) /\ Len(p) = 1 /\ p[1] = in
  BY DEF Sequence, ToSet
<1> HIDE DEF p
<1>3. /\ Sequence(a) /\ Len(a) = Len(p) + l
      /\ \A n \in 1 .. Len(p) : a[n] = p[n]
      /\ \A n \in Len(p) + 1 .. Len(p) + Len(s) : a[n] = s[n - Len(p)]
  <2>1. Sequence(p) /\ Sequence(s) /\ Len(s) = l
    BY <1>1, <1>2
  <2> QED
    BY <2>1, Concat
<1>4. /\ Sequence(b) /\ Len(b) = Len(p) + Len(t)
      /\ \A n \in 1 .. Len(p) : b[n] = p[n]
      /\ \A n \in Len(p) + 1 .. Len(p) + Len(t) : b[n] = t[n - Len(p)]
  <2>1. Sequence(p) /\ Sequence(t) /\ Len(t) = l
    BY <1>1, <1>2
  <2> QED
    BY <2>1, Concat
<1>5. Len(o) \in Nat
  BY <1>1, SequenceFacts
<1> HIDE DEF a, b
<1>6. Len(a) = l + 1 /\ Len(b) = l + 1 /\ a[1] = in /\ b[1] = in
  <2>1. 1 \in 1 .. Len(p)
    BY <1>2
  <2> QED
    BY <1>1, <1>2, <1>3, <1>4, <2>1
<1>7. \A n \in 2 .. l + 1 : a[n] = s[n - 1] /\ b[n] = t[n - 1]
  <2>1. Len(p) + 1 .. Len(p) + Len(s) = 2 .. l + 1 /\ Len(p) + 1 .. Len(p) + Len(t) = 2 .. l + 1
    BY <1>1, <1>2
  <2> QED
    BY <1>2, <1>3, <1>4, <2>1
<1> HIDE DEF l
<1>8. \A n \in 1 .. e + 1 : n = 1 \/ (n \in 2 .. l + 1 /\ n - 1 \in 1 .. e)
  BY <1>1, <1>5
<1>9. \A n \in 1 .. Len(o) : (e + 1) + n \in 2 .. l + 1 /\ ((e + 1) + n) - 1 = e + n
  BY <1>1, <1>5
<1>10. \A n \in (e + 1) + Len(o) + 1 .. r + 1 :
          n \in 2 .. l + 1 /\ n - 1 \in e + Len(o) + 1 .. r
  BY <1>1, <1>5
<1>11. \A n \in (r + 1) + 2 .. l + 1 : n \in 2 .. l + 1 /\ n - 1 \in r + 2 .. l
  BY <1>1
<1>12. r + 1 < l + 1 => (r + 1) + 1 \in 2 .. l + 1 /\ ((r + 1) + 1) - 1 = r + 1 /\ r < l
  BY <1>1
<1>13. \A n \in 1 .. e + 1 : a[n] = b[n] /\ Quiet(a[n])
  BY <1>1, <1>6, <1>7, <1>8
<1>14. \A n \in 1 .. Len(o) : /\ a[(e + 1) + n] = Env(o[n], env[o[n]])
                              /\ b[(e + 1) + n] = Env(q[n], env[q[n]])
  BY <1>1, <1>7, <1>9
<1>15. \A n \in (e + 1) + Len(o) + 1 .. r + 1 : a[n] = b[n] /\ Quiet(a[n])
  BY <1>1, <1>7, <1>10
<1>16. \A n \in (r + 1) + 2 .. l + 1 : PipAlike(a[n], b[n])
  BY <1>1, <1>7, <1>11
<1>17. r + 1 < l + 1 => AptAlike(a[(r + 1) + 1], b[(r + 1) + 1])
  BY <1>1, <1>7, <1>12
<1>18. /\ e + 1 \in Nat /\ r + 1 \in Nat /\ (e + 1) + Len(o) <= r + 1 /\ r + 1 <= l + 1
  BY <1>1, <1>5
<1>19. Courses(env, o, q, a, b, e + 1, r + 1)
  BY <1>1, <1>3, <1>4, <1>6, <1>13, <1>14, <1>15, <1>16, <1>17, <1>18 DEF Courses
<1> QED
  BY <1>19 DEF a, b, p

LEMMA OrderFacts ==
    ASSUME NEW spec, WellTyped(spec), NEW order \in EnvOrders(spec)
    PROVE  /\ Sequence(order) /\ Len(order) = Cardinality(DOMAIN spec.env)
           /\ {order[n] : n \in 1 .. Len(order)} = DOMAIN spec.env
<1> DEFINE S == DOMAIN spec.env
           h == Cardinality(S)
           T == {order[n] : n \in 1 .. h}
<1>1. IsFiniteSet(S) /\ h \in Nat
  BY FS_CardinalityType DEF WellTyped
<1>2. order \in [1 .. h -> S] /\ \A i, j \in 1 .. h : i # j => order[i] # order[j]
  BY DEF EnvOrders, SetToSeqs
<1>3. Sequence(order) /\ Len(order) = h
  BY <1>1, <1>2, SequenceOfFunction
<1>4. T \subseteq S
  BY <1>2
<1>5. Cardinality(T) = h
  <2>1. order \in [1 .. h -> T]
    BY <1>2
  <2>2. order \in Bijection(1 .. h, T)
    BY <1>2, <2>1 DEF Bijection, Injection, Surjection, IsInjective
  <2>3. ExistsBijection(1 .. h, T)
    BY <2>2 DEF ExistsBijection
  <2>4. IsFiniteSet(1 .. h) /\ Cardinality(1 .. h) = h
    BY <1>1, FS_Interval
  <2> QED
    BY <2>3, <2>4, FS_Bijection
<1>6. T = S
  BY <1>1, <1>4, <1>5, FS_Subset
<1> QED
  BY <1>3, <1>6

=============================================================================
