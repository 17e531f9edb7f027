------------------------- MODULE PodMutation_proofs -------------------------
(***************************************************************************)
(* What the patches of MutatePod do to a pod, for any pod and any          *)
(* configuration.  Patches are applied one after the other (Applied) and   *)
(* gathered container after container (MountPatches): both are recursive   *)
(* functions, and induction over the natural numbers is used in the form   *)
(* of a set of numbers that contains 0 and every successor.                *)
(***************************************************************************)
EXTENDS InitContract, WellFoundedInduction, TLAPS

-----------------------------------------------------------------------------
(* Induction, and sequences.                                               *)

\* A set of numbers that has 0 and is closed under successor has all of them.
LEMMA Induction ==
  ASSUME NEW S, 0 \in S, \A n \in Nat : n \in S => n + 1 \in S
  PROVE  \A n \in Nat : n \in S
<1> DEFINE T == Nat \ S
           R == {q \in Nat \X Nat : q[1] < q[2]}
<1> SUFFICES ASSUME T # {} PROVE FALSE
  OBVIOUS
<1>1. IsWellFoundedOn(R, Nat)
  BY NatLessThanWellFounded DEF OpToRel
<1>2. PICK x \in T : \A y \in T : ~(<<y, x>> \in R)
  BY <1>1, WFMin
<1>3. x # 0 /\ x - 1 \in Nat
  OBVIOUS
<1>4. <<x - 1, x>> \in R
  BY <1>3
<1>5. x - 1 \in S
  BY <1>2, <1>3, <1>4
<1> QED
  BY <1>3, <1>5

\* A sequence over some set is one over its own elements.
LEMMA SeqOver ==
  ASSUME NEW S, NEW s \in Seq(S)
  PROVE  IsSeq(s)
<1>1. /\ Len(s) \in Nat /\ DOMAIN s = 1..Len(s) /\ s = [k \in 1..Len(s) |-> s[k]]
  OBVIOUS
<1>2. s \in [1..Len(s) -> ToSet(s)]
  BY <1>1 DEF ToSet
<1> QED
  BY <1>1, <1>2 DEF IsSeq

\* A sequence as a function.
LEMMA SeqForm ==
  ASSUME NEW s, IsSeq(s)
  PROVE  Len(s) \in Nat /\ DOMAIN s = 1..Len(s) /\ s = [k \in 1..Len(s) |-> s[k]]
BY DEF IsSeq

\* Two sequences are sequences over one set.
LEMMA SeqBoth ==
  ASSUME NEW s, IsSeq(s), NEW t, IsSeq(t)
  PROVE  s \in Seq(ToSet(s) \cup ToSet(t)) /\ t \in Seq(ToSet(s) \cup ToSet(t))
<1>1. ToSet(s) \subseteq ToSet(s) \cup ToSet(t) /\ ToSet(t) \subseteq ToSet(s) \cup ToSet(t)
  OBVIOUS
<1> QED
  BY <1>1 DEF IsSeq

\* A concatenation: what is in the first part, and in the second.
LEMMA ConcatForm ==
  ASSUME NEW s, IsSeq(s), NEW t, IsSeq(t)
  PROVE  /\ IsSeq(s \o t) /\ Len(s \o t) = Len(s) + Len(t)
         /\ \A k \in 1..Len(s) : (s \o t)[k] = s[k]
         /\ \A k \in 1..Len(t) : (s \o t)[Len(s) + k] = t[k]
<1> DEFINE S == ToSet(s) \cup ToSet(t)
<1>1. s \in Seq(S) /\ t \in Seq(S)
  BY SeqBoth
<1> HIDE DEF S
<1>2. s \o t \in Seq(S)
  BY <1>1
<1>3. IsSeq(s \o t)
  BY <1>2, SeqOver
<1> QED
  BY <1>1, <1>3

\* A sequence with an element added to its end.
LEMMA AppendForm ==
  ASSUME NEW s, IsSeq(s), NEW e
  PROVE  /\ IsSeq(Append(s, e)) /\ Len(Append(s, e)) = Len(s) + 1
         /\ \A k \in 1..Len(s) : Append(s, e)[k] = s[k]
         /\ Append(s, e)[Len(s) + 1] = e
         /\ Append(s, e) # <<>>
<1> DEFINE S == ToSet(s) \cup {e}
<1>1. s \in Seq(S) /\ e \in S
  BY DEF IsSeq
<1> HIDE DEF S
<1>2. Append(s, e) \in Seq(S)
  BY <1>1
<1>3. IsSeq(Append(s, e))
  BY <1>2, SeqOver
<1> QED
  BY <1>1, <1>3

\* Sequences of one element, and of none.
LEMMA OneForm ==
  ASSUME NEW e
  PROVE  IsSeq(<<e>>) /\ Len(<<e>>) = 1 /\ <<e>>[1] = e /\ <<e>> = Append(<<>>, e)
<1>1. <<e>> \in Seq({e}) /\ Len(<<e>>) = 1 /\ <<e>>[1] = e
  OBVIOUS
<1>2. <<e>> = Append(<<>>, e)
  OBVIOUS
<1> QED
  BY <1>1, <1>2, SeqOver

\* The empty sequence is a sequence over its own (no) elements.
LEMMA NoneForm == IsSeq(<<>>) /\ Len(<<>>) = 0
<1>1. <<>> \in Seq({})
  OBVIOUS
<1> QED
  BY <1>1, SeqOver

-----------------------------------------------------------------------------
(* Applying operations.                                                    *)

\* The recursive definition of Applied defines a function.
LEMMA AppliedDef ==
  ASSUME NEW p, NEW ops, IsSeq(ops)
  PROVE  /\ DOMAIN Applied(p, ops) = 0..Len(ops)
         /\ Applied(p, ops)[0] = p
         /\ \A k \in 1..Len(ops) :
              Applied(p, ops)[k] = Apply(Applied(p, ops)[k - 1], ops[k])
<1> DEFINE Is(t, n) == t = [k \in 0..n |-> IF k = 0 THEN p ELSE Apply(t[k - 1], ops[k])]
           S == {n \in Nat : \E t : Is(t, n)}
<1>1. 0 \in S
  <2>1. Is([k \in 0..0 |-> p], 0)
    OBVIOUS
  <2> QED
    BY <2>1
<1>2. ASSUME NEW n \in Nat, n \in S PROVE n + 1 \in S
  <2>1. PICK t : Is(t, n)
    BY <1>2
  <2> DEFINE u == [k \in 0..n + 1 |-> IF k = n + 1 THEN Apply(t[n], ops[n + 1]) ELSE t[k]]
  <2>2. ASSUME NEW k \in 0..n + 1
        PROVE  u[k] = IF k = 0 THEN p ELSE Apply(u[k - 1], ops[k])
    <3>1. CASE k = n + 1
      <4>1. u[k] = Apply(t[n], ops[k]) /\ u[k - 1] = t[n]
        BY <3>1
      <4> QED
        BY <3>1, <4>1
    <3>2. CASE k = 0
      BY <2>1, <3>2
    <3>3. CASE k \in 1..n
      <4>1. u[k] = t[k] /\ u[k - 1] = t[k - 1]
        BY <3>3
      <4>2. t[k] = Apply(t[k - 1], ops[k])
        BY <2>1, <3>3
      <4> QED
        BY <3>3, <4>1, <4>2
    <3> QED
      BY <3>1, <3>2, <3>3
  <2>3. Is(u, n + 1)
    BY <2>2
  <2> HIDE DEF u, Is
  <2> QED
    BY <2>3
<1>3. Len(ops) \in S
  <2> HIDE DEF S
  <2> QED
    BY <1>1, <1>2, Induction, SeqForm
<1>4. Is(Applied(p, ops), Len(ops))
  BY <1>3 DEF Applied
<1>5. Len(ops) \in Nat
  BY SeqForm
<1> QED
  BY <1>4, <1>5

\* Applying nothing changes nothing.
LEMMA ApplyNone == ASSUME NEW p PROVE ApplyAll(p, <<>>) = p /\ AllApplicable(p, <<>>)
<1>1. IsSeq(<<>>) /\ Len(<<>>) = 0
  BY NoneForm
<1> QED
  BY <1>1, AppliedDef DEF ApplyAll, AllApplicable

\* Applying a single operation.
LEMMA ApplyOne ==
  ASSUME NEW p, NEW op
  PROVE  /\ ApplyAll(p, <<op>>) = Apply(p, op)
         /\ AllApplicable(p, <<op>>) <=> Applicable(p, op)
<1>1. IsSeq(<<op>>) /\ Len(<<op>>) = 1 /\ <<op>>[1] = op
  BY OneForm
<1>2. DOMAIN <<op>> = {1}
  OBVIOUS
<1>3. Applied(p, <<op>>)[0] = p /\ Applied(p, <<op>>)[1] = Apply(p, op)
  BY <1>1, AppliedDef
<1> QED
  BY <1>1, <1>2, <1>3 DEF ApplyAll, AllApplicable

\* Operations can be applied part by part.
LEMMA ApplyParts ==
  ASSUME NEW p, NEW s, IsSeq(s), NEW t, IsSeq(t)
  PROVE  /\ ApplyAll(p, s \o t) = ApplyAll(ApplyAll(p, s), t)
         /\ AllApplicable(p, s \o t) <=> AllApplicable(p, s) /\ AllApplicable(ApplyAll(p, s), t)
<1> DEFINE st == s \o t
           A  == Applied(p, st)
           B  == Applied(p, s)
           q  == ApplyAll(p, s)
           C  == Applied(q, t)
<1>1. /\ IsSeq(st) /\ Len(st) = Len(s) + Len(t) /\ Len(s) \in Nat /\ Len(t) \in Nat
      /\ \A k \in 1..Len(s) : st[k] = s[k]
      /\ \A k \in 1..Len(t) : st[Len(s) + k] = t[k]
      /\ DOMAIN st = 1..Len(st) /\ DOMAIN s = 1..Len(s) /\ DOMAIN t = 1..Len(t)
  <2>1. /\ IsSeq(st) /\ Len(st) = Len(s) + Len(t)
        /\ \A k \in 1..Len(s) : st[k] = s[k]
        /\ \A k \in 1..Len(t) : st[Len(s) + k] = t[k]
    BY ConcatForm
  <2> HIDE DEF st
  <2>2. /\ DOMAIN st = 1..Len(st) /\ DOMAIN s = 1..Len(s) /\ DOMAIN t = 1..Len(t)
        /\ Len(s) \in Nat /\ Len(t) \in Nat
    BY <2>1, SeqForm
  <2> QED
    BY <2>1, <2>2
<1>2. /\ A[0] = p /\ \A k \in 1..Len(st) : A[k] = Apply(A[k - 1], st[k])
      /\ B[0] = p /\ \A k \in 1..Len(s) : B[k] = Apply(B[k - 1], s[k])
      /\ C[0] = q /\ \A k \in 1..Len(t) : C[k] = Apply(C[k - 1], t[k])
      /\ q = B[Len(s)]
  <2>1. A[0] = p /\ \A k \in 1..Len(st) : A[k] = Apply(A[k - 1], st[k])
    <3> HIDE DEF st
    <3> QED
      BY <1>1, AppliedDef
  <2>2. B[0] = p /\ \A k \in 1..Len(s) : B[k] = Apply(B[k - 1], s[k])
    BY AppliedDef
  <2>3. C[0] = q /\ \A k \in 1..Len(t) : C[k] = Apply(C[k - 1], t[k])
    <3> HIDE DEF q
    <3> QED
      BY AppliedDef
  <2>4. q = B[Len(s)]
    BY DEF ApplyAll
  <2> QED
    BY <2>1, <2>2, <2>3, <2>4
<1> HIDE DEF st, A, B, C, q
<1>3. \A k \in Nat : k \in 0..Len(s) => A[k] = B[k]
  <2> DEFINE S == {k \in Nat : k \in 0..Len(s) => A[k] = B[k]}
  <2>1. 0 \in S
    BY <1>2
  <2>2. ASSUME NEW n \in Nat, n \in S PROVE n + 1 \in S
    <3> SUFFICES ASSUME n + 1 \in 0..Len(s) PROVE A[n + 1] = B[n + 1]
      OBVIOUS
    <3>1. A[n] = B[n] /\ n + 1 \in 1..Len(s) /\ n + 1 \in 1..Len(st) /\ (n + 1) - 1 = n
      BY <1>1, <2>2
    <3> QED
      BY <1>1, <1>2, <3>1
  <2> HIDE DEF S
  <2>3. \A n \in Nat : n \in S
    BY <2>1, <2>2, Induction
  <2> QED
    BY <2>3 DEF S
<1>4. \A k \in Nat : k \in 0..Len(t) => A[Len(s) + k] = C[k]
  <2> DEFINE S == {k \in Nat : k \in 0..Len(t) => A[Len(s) + k] = C[k]}
  <2>1. 0 \in S
    BY <1>1, <1>2, <1>3
  <2>2. ASSUME NEW n \in Nat, n \in S PROVE n + 1 \in S
    <3> SUFFICES ASSUME n + 1 \in 0..Len(t) PROVE A[Len(s) + (n + 1)] = C[n + 1]
      OBVIOUS
    <3>1. /\ A[Len(s) + n] = C[n] /\ n + 1 \in 1..Len(t) /\ Len(s) + (n + 1) \in 1..Len(st)
          /\ (n + 1) - 1 = n /\ (Len(s) + (n + 1)) - 1 = Len(s) + n
      BY <1>1, <2>2
    <3> QED
      BY <1>1, <1>2, <3>1
  <2> HIDE DEF S
  <2>3. \A n \in Nat : n \in S
    BY <2>1, <2>2, Induction
  <2> QED
    BY <2>3 DEF S
<1>5. ApplyAll(p, st) = ApplyAll(q, t)
  <2>1. A[Len(st)] = C[Len(t)]
    BY <1>1, <1>4
  <2> QED
    BY <2>1 DEF ApplyAll, A, C
<1>6. AllApplicable(p, st) <=> AllApplicable(p, s) /\ AllApplicable(q, t)
  <2>1. /\ AllApplicable(p, st) <=> \A k \in 1..Len(st) : Applicable(A[k - 1], st[k])
        /\ AllApplicable(p, s) <=> \A k \in 1..Len(s) : Applicable(B[k - 1], s[k])
        /\ AllApplicable(q, t) <=> \A k \in 1..Len(t) : Applicable(C[k - 1], t[k])
    BY <1>1 DEF AllApplicable, A, B, C
  <2>2. \A k \in 1..Len(s) : k \in 1..Len(st) /\ A[k - 1] = B[k - 1] /\ st[k] = s[k]
    BY <1>1, <1>3
  <2>3. \A k \in 1..Len(t) : /\ Len(s) + k \in 1..Len(st) /\ st[Len(s) + k] = t[k]
                             /\ A[(Len(s) + k) - 1] = C[k - 1]
    <3> SUFFICES ASSUME NEW k \in 1..Len(t)
                 PROVE  /\ Len(s) + k \in 1..Len(st) /\ st[Len(s) + k] = t[k]
                        /\ A[(Len(s) + k) - 1] = C[k - 1]
      OBVIOUS
    <3>1. k - 1 \in 0..Len(t) /\ (Len(s) + k) - 1 = Len(s) + (k - 1)
      BY <1>1
    <3> QED
      BY <1>1, <1>4, <3>1
  <2>4. \A k \in 1..Len(st) : k \in 1..Len(s) \/ \E j \in 1..Len(t) : k = Len(s) + j
    <3> SUFFICES ASSUME NEW k \in 1..Len(st), k \notin 1..Len(s)
                 PROVE  \E j \in 1..Len(t) : k = Len(s) + j
      OBVIOUS
    <3>1. k - Len(s) \in 1..Len(t) /\ k = Len(s) + (k - Len(s))
      BY <1>1
    <3> QED
      BY <3>1
  <2>5. ASSUME AllApplicable(p, st)
        PROVE  AllApplicable(p, s) /\ AllApplicable(q, t)
    <3>1. \A k \in 1..Len(s) : Applicable(B[k - 1], s[k])
      BY <2>1, <2>2, <2>5
    <3>2. \A k \in 1..Len(t) : Applicable(C[k - 1], t[k])
      BY <2>1, <2>3, <2>5
    <3> QED
      BY <2>1, <3>1, <3>2
  <2>6. ASSUME AllApplicable(p, s), AllApplicable(q, t)
        PROVE  AllApplicable(p, st)
    <3>1. ASSUME NEW k \in 1..Len(st) PROVE Applicable(A[k - 1], st[k])
      <4>1. CASE k \in 1..Len(s)
        BY <2>1, <2>2, <2>6, <4>1
      <4>2. CASE \E j \in 1..Len(t) : k = Len(s) + j
        BY <2>1, <2>3, <2>6, <4>2
      <4> QED
        BY <2>4, <4>1, <4>2
    <3> QED
      BY <2>1, <3>1
  <2> QED
    BY <2>5, <2>6
<1> QED
  BY <1>5, <1>6 DEF st, q

-----------------------------------------------------------------------------
(* The mutated pod, field by field, without patches.                       *)

\* An element is added to the end of a list that does not have it.
With(s, e) == IF Contains(s, e) THEN s ELSE Append(s, e)

\* The volumes after each of the three parts of VolumePatches.  The last one, for a
\* pod without volumes, has the first addition replaced by the second.
WithSecretVolume(p) == With(p.volumes, SecretVolume)
WithLocalVolume(p) ==
  IF p.ann.provider = "local" /\ ~Contains(p.volumes, LocalVolume)
  THEN Append(WithSecretVolume(p), LocalVolume) ELSE WithSecretVolume(p)
NewVolumes(p, cfg) ==
  IF ~NeedsKeeperVolume(p, cfg) \/ Contains(p.volumes, KeeperVolume) THEN WithLocalVolume(p)
  ELSE IF p.volumes = <<>> THEN <<KeeperVolume>>
  ELSE Append(WithLocalVolume(p), KeeperVolume)

NewInits(p, cfg) == IF HasInit(p) THEN p.inits ELSE Append(p.inits, InitContainer(p, cfg))

SecretMount(p)   == Mount(SecretVolume, MountPath(p.ann))
NewContainers(p) == [i \in DOMAIN p.containers |-> With(p.containers[i], SecretMount(p))]

Mutated(p, cfg) ==
  [namespace |-> p.namespace, ann |-> p.ann, group |-> FSGroup(p, cfg),
   volumes |-> NewVolumes(p, cfg), inits |-> NewInits(p, cfg), containers |-> NewContainers(p)]

-----------------------------------------------------------------------------
(* What each part of Patches does.                                         *)

\* A field of a pod is replaced by one of the same kind.
LEMMA PodFields ==
  ASSUME NEW p, IsPod(p), NEW g, NEW v, IsSeq(v), NEW s, IsSeq(s)
  PROVE  /\ IsPod([p EXCEPT !.group = g])
         /\ IsPod([p EXCEPT !.volumes = v])
         /\ IsPod([p EXCEPT !.inits = s])
BY DEF IsPod

\* The security context: only the group changes, to the one FSGroup gives.
LEMMA GroupEffect ==
  ASSUME NEW p, IsPod(p), NEW cfg
  PROVE  LET ops == SecurityContextPatch(p, cfg) IN
         /\ IsSeq(ops) /\ AllApplicable(p, ops)
         /\ ApplyAll(p, ops) = [p EXCEPT !.group = FSGroup(p, cfg)]
<1> DEFINE ops == SecurityContextPatch(p, cfg)
           new == [p EXCEPT !.group = FSGroup(p, cfg)]
<1>1. CASE p.group = NoContext
  <2> DEFINE op == Patch("securityContext", 0, FSGroup(p, cfg))
  <2>1. ops = <<op>>
    BY <1>1, FieldAssumption DEF SecurityContextPatch
  <2>2. Applicable(p, op) /\ Apply(p, op) = new
    BY DEF Applicable, Apply, Patch
  <2> QED
    BY <2>1, <2>2, ApplyOne, OneForm
<1>2. CASE p.group = Absent
  <2> DEFINE op == Patch("securityContext/fsGroup", 0, FSGroup(p, cfg))
  <2>1. ops = <<op>> /\ p.group # NoContext
    BY <1>2, FieldAssumption DEF SecurityContextPatch
  <2>2. Applicable(p, op) /\ Apply(p, op) = new
    BY <2>1 DEF Applicable, Apply, Patch
  <2> QED
    BY <2>1, <2>2, ApplyOne, OneForm
<1>3. CASE p.group \notin {NoContext, Absent}
  <2>1. ops = <<>>
    BY <1>3 DEF SecurityContextPatch
  <2>2. new = p
    BY <1>3 DEF FSGroup, IsPod
  <2> QED
    BY <2>1, <2>2, ApplyNone, NoneForm
<1> QED
  BY <1>1, <1>2, <1>3

\* A volume is added to a pod `r` that has those of `p` or more.
LEMMA AddVolumeEffect ==
  ASSUME NEW p, NEW r, IsPod(r), NEW name, p.volumes # <<>> => r.volumes # <<>>
  PROVE  LET ops == AddVolume(p, name) IN
         /\ IsSeq(ops) /\ AllApplicable(r, ops)
         /\ ApplyAll(r, ops) = [r EXCEPT !.volumes = IF Contains(p.volumes, name) THEN r.volumes
                                                     ELSE IF p.volumes = <<>> THEN <<name>>
                                                     ELSE Append(r.volumes, name)]
<1> DEFINE ops == AddVolume(p, name)
<1>1. CASE Contains(p.volumes, name)
  <2>1. ops = <<>> /\ r = [r EXCEPT !.volumes = r.volumes]
    BY <1>1 DEF AddVolume, IsPod
  <2> QED
    BY <1>1, <2>1, ApplyNone, NoneForm
<1>2. CASE ~Contains(p.volumes, name) /\ p.volumes = <<>>
  <2> DEFINE op == Patch("volumes", 0, <<name>>)
  <2>1. ops = <<op>>
    BY <1>2 DEF AddVolume
  <2>2. Applicable(r, op) /\ Apply(r, op) = [r EXCEPT !.volumes = <<name>>]
    BY DEF Applicable, Apply, Patch
  <2> QED
    BY <1>2, <2>1, <2>2, ApplyOne, OneForm
<1>3. CASE ~Contains(p.volumes, name) /\ p.volumes # <<>>
  <2> DEFINE op == Patch("volumes/-", 0, name)
  <2>1. ops = <<op>>
    BY <1>3 DEF AddVolume
  <2>2. Applicable(r, op) /\ Apply(r, op) = [r EXCEPT !.volumes = Append(r.volumes, name)]
    BY <1>3 DEF Applicable, Apply, Patch
  <2> QED
    BY <1>3, <2>1, <2>2, ApplyOne, OneForm
<1> QED
  BY <1>1, <1>2, <1>3

\* The init containers of `p`, applied to a pod `r` that has the same ones.
LEMMA InitEffect ==
  ASSUME NEW p, NEW r, IsPod(r), NEW cfg, r.inits = p.inits
  PROVE  LET ops == InitPatch(p, cfg) IN
         /\ IsSeq(ops) /\ AllApplicable(r, ops)
         /\ ApplyAll(r, ops) = [r EXCEPT !.inits = NewInits(p, cfg)]
<1> DEFINE ops == InitPatch(p, cfg)
           c   == InitContainer(p, cfg)
<1> HIDE DEF c
<1>1. CASE HasInit(p)
  <2>1. ops = <<>> /\ r = [r EXCEPT !.inits = NewInits(p, cfg)]
    BY <1>1 DEF InitPatch, NewInits, IsPod
  <2> QED
    BY <2>1, ApplyNone, NoneForm
<1>2. CASE ~HasInit(p) /\ p.inits = <<>>
  <2> DEFINE op == Patch("initContainers", 0, <<c>>)
  <2>1. ops = <<op>> /\ NewInits(p, cfg) = <<c>>
    BY <1>2, OneForm DEF InitPatch, NewInits, c
  <2>2. Applicable(r, op) /\ Apply(r, op) = [r EXCEPT !.inits = <<c>>]
    BY DEF Applicable, Apply, Patch
  <2> QED
    BY <2>1, <2>2, ApplyOne, OneForm
<1>3. CASE ~HasInit(p) /\ p.inits # <<>>
  <2> DEFINE op == Patch("initContainers/-", 0, c)
  <2>1. ops = <<op>> /\ NewInits(p, cfg) = Append(r.inits, c)
    BY <1>3 DEF InitPatch, NewInits, c
  <2>2. Applicable(r, op) /\ Apply(r, op) = [r EXCEPT !.inits = Append(r.inits, c)]
    BY <1>3 DEF Applicable, Apply, Patch
  <2> HIDE DEF op, ops
  <2>3. IsSeq(ops)
    BY <2>1, OneForm
  <2>4. AllApplicable(r, ops) /\ ApplyAll(r, ops) = Apply(r, op)
    BY <2>1, <2>2, ApplyOne
  <2>5. Append(r.inits, c) = NewInits(p, cfg)
    BY <2>1
  <2>6. ApplyAll(r, ops) = [r EXCEPT !.inits = NewInits(p, cfg)]
    BY <2>2, <2>4, <2>5
  <2> QED
    BY <2>3, <2>4, <2>6 DEF ops
<1> QED
  BY <1>1, <1>2, <1>3

\* The volumes: a part that adds nothing to the volumes `p` has adds nothing at all,
\* and no "/-" comes before there is a volume.
LEMMA VolumesEffect ==
  ASSUME NEW p, IsPod(p), NEW r, IsPod(r), NEW cfg, r.volumes = p.volumes
  PROVE  LET ops == VolumePatches(p, cfg) IN
         /\ IsSeq(ops) /\ AllApplicable(r, ops)
         /\ ApplyAll(r, ops) = [r EXCEPT !.volumes = NewVolumes(p, cfg)]
         /\ IsSeq(NewVolumes(p, cfg))
<1> DEFINE local == p.ann.provider = "local" /\ ~Contains(p.volumes, LocalVolume)
           a     == AddVolume(p, SecretVolume)
           b     == IF local THEN <<Patch("volumes/-", 0, LocalVolume)>> ELSE <<>>
           c     == IF NeedsKeeperVolume(p, cfg) THEN AddVolume(p, KeeperVolume) ELSE <<>>
           va    == WithSecretVolume(p)
           vb    == WithLocalVolume(p)
           vc    == NewVolumes(p, cfg)
           ra    == [r EXCEPT !.volumes = va]
           rb    == [r EXCEPT !.volumes = vb]
           rc    == [r EXCEPT !.volumes = vc]
<1>1. IsSeq(p.volumes) /\ (Contains(p.volumes, SecretVolume) => p.volumes # <<>>)
  BY SeqForm DEF IsPod, Contains
<1>2. IsSeq(va) /\ va # <<>>
  BY <1>1, AppendForm DEF WithSecretVolume, With
<1>3. IsSeq(vb) /\ vb # <<>>
  <2> HIDE DEF va
  <2> QED
    BY <1>2, AppendForm DEF WithLocalVolume, va
<1>4. IsSeq(vc)
  <2> HIDE DEF vb
  <2> QED
    BY <1>3, AppendForm, OneForm DEF NewVolumes, vb
<1>5. IsPod(ra) /\ IsPod(rb) /\ ra.volumes = va /\ rb.volumes = vb
  <2> HIDE DEF va, vb
  <2>1. IsPod(ra) /\ IsPod(rb)
    BY <1>2, <1>3, PodFields, NoneForm
  <2>2. ra.volumes = va /\ rb.volumes = vb
    BY DEF IsPod
  <2> QED
    BY <2>1, <2>2
<1>6. IsSeq(a) /\ AllApplicable(r, a) /\ ApplyAll(r, a) = ra
  <2>1. va = IF Contains(p.volumes, SecretVolume) THEN r.volumes
             ELSE IF p.volumes = <<>> THEN <<SecretVolume>> ELSE Append(r.volumes, SecretVolume)
    BY OneForm DEF WithSecretVolume, With
  <2> HIDE DEF va
  <2> QED
    BY <2>1, AddVolumeEffect
<1>7. IsSeq(b) /\ AllApplicable(ra, b) /\ ApplyAll(ra, b) = rb
  <2>1. CASE local
    <3> DEFINE op == Patch("volumes/-", 0, LocalVolume)
    <3>1. b = <<op>> /\ vb = Append(va, LocalVolume)
      BY <2>1 DEF WithLocalVolume
    <3> HIDE DEF va, vb, b
    <3>2. Applicable(ra, op) /\ Apply(ra, op) = [ra EXCEPT !.volumes = Append(va, LocalVolume)]
      BY <1>2, <1>5 DEF Applicable, Apply, Patch
    <3>3. [ra EXCEPT !.volumes = vb] = rb
      OBVIOUS
    <3> HIDE DEF op, ra, rb
    <3> QED
      BY <3>1, <3>2, <3>3, ApplyOne, OneForm
  <2>2. CASE ~local
    <3>1. b = <<>> /\ vb = va
      BY <2>2 DEF WithLocalVolume
    <3> QED
      BY <3>1, ApplyNone, NoneForm
  <2> QED
    BY <2>1, <2>2
<1>8. IsSeq(c) /\ AllApplicable(rb, c) /\ ApplyAll(rb, c) = rc
  <2>1. CASE NeedsKeeperVolume(p, cfg)
    <3>1. c = AddVolume(p, KeeperVolume)
      BY <2>1
    <3>2. vc = IF Contains(p.volumes, KeeperVolume) THEN rb.volumes
               ELSE IF p.volumes = <<>> THEN <<KeeperVolume>> ELSE Append(rb.volumes, KeeperVolume)
      BY <1>5, <2>1 DEF NewVolumes
    <3>3. [rb EXCEPT !.volumes = vc] = rc
      OBVIOUS
    <3> HIDE DEF rb, rc, vc, c, vb
    <3> QED
      BY <1>3, <1>5, <3>1, <3>2, <3>3, AddVolumeEffect
  <2>2. CASE ~NeedsKeeperVolume(p, cfg)
    <3>1. c = <<>> /\ vc = vb
      BY <2>2 DEF NewVolumes
    <3> QED
      BY <3>1, ApplyNone, NoneForm
  <2> QED
    BY <2>1, <2>2
<1>9. VolumePatches(p, cfg) = (a \o b) \o c
  BY DEF VolumePatches
<1> HIDE DEF a, b, c, ra, rb, rc, vc
<1>10. IsSeq(a \o b) /\ AllApplicable(r, a \o b) /\ ApplyAll(r, a \o b) = rb
  BY <1>6, <1>7, ApplyParts, ConcatForm
<1>11. /\ IsSeq((a \o b) \o c) /\ AllApplicable(r, (a \o b) \o c)
       /\ ApplyAll(r, (a \o b) \o c) = rc
  BY <1>8, <1>10, ApplyParts, ConcatForm
<1> QED
  BY <1>4, <1>9, <1>11 DEF rc, vc

\* The parts of a flattened sequence are put together from left to right: `f` has
\* what there is after each of them.
Flattens(f, seqs) == /\ f[1] = seqs[1]
                     /\ \A i \in 2..Len(seqs) : f[i] = f[i - 1] \o seqs[i]
                     /\ FlattenSeq(seqs) = f[Len(seqs)]

\* The recursive definition inside FlattenSeq defines a function.
LEMMA FlattenDef ==
  ASSUME NEW seqs, IsSeq(seqs), seqs # <<>>
  PROVE  \E f : Flattens(f, seqs)
<1> DEFINE N == Len(seqs)
           plus(x, i) == x \o seqs[i]
           Is(f, n) == f = [i \in 1..n |-> IF i = 1 THEN seqs[i] ELSE plus(f[i - 1], i)]
           S == {n \in Nat : \E f : Is(f, n)}
           F == CHOOSE f : Is(f, N)
<1>1. N \in Nat \ {0}
  BY DEF IsSeq
<1> HIDE DEF plus
<1>2. 0 \in S
  <2>1. Is([i \in 1..0 |-> <<>>], 0)
    OBVIOUS
  <2> QED
    BY <2>1
<1>3. ASSUME NEW n \in Nat, n \in S PROVE n + 1 \in S
  <2>1. PICK f : Is(f, n)
    BY <1>3
  <2> DEFINE last == IF n = 0 THEN seqs[1] ELSE plus(f[n], n + 1)
             g    == [i \in 1..n + 1 |-> IF i = n + 1 THEN last ELSE f[i]]
  <2>2. ASSUME NEW i \in 1..n + 1
        PROVE  g[i] = IF i = 1 THEN seqs[i] ELSE plus(g[i - 1], i)
    <3>1. CASE i = n + 1 /\ n = 0
      BY <3>1
    <3>2. CASE i = n + 1 /\ n # 0
      <4>1. g[i] = plus(f[n], i) /\ g[i - 1] = f[n] /\ i # 1
        BY <3>2
      <4> QED
        BY <4>1
    <3>3. CASE i = 1 /\ n # 0
      BY <2>1, <3>3
    <3>4. CASE i \in 2..n
      <4>1. g[i] = f[i] /\ g[i - 1] = f[i - 1]
        BY <3>4
      <4>2. f[i] = plus(f[i - 1], i)
        BY <2>1, <3>4
      <4> QED
        BY <3>4, <4>1, <4>2
    <3> QED
      BY <3>1, <3>2, <3>3, <3>4
  <2>3. Is(g, n + 1)
    BY <2>2
  <2> HIDE DEF g, Is
  <2> QED
    BY <2>3
<1>4. N \in S
  <2> HIDE DEF S, N
  <2> QED
    BY <1>1, <1>2, <1>3, Induction
<1>5. Is(F, N)
  BY <1>4
<1>6. FlattenSeq(seqs) = F[N]
  BY <1>1 DEF FlattenSeq, plus
<1> HIDE DEF F
<1>7. F[1] = seqs[1] /\ \A i \in 2..N : F[i] = plus(F[i - 1], i)
  BY <1>1, <1>5
<1> QED
  BY <1>6, <1>7 DEF plus, Flattens

\* What is added for one container.
LEMMA OneMount ==
  ASSUME NEW p, NEW r, IsPod(r), NEW i \in DOMAIN r.containers, r.containers[i] = p.containers[i]
  PROVE  LET ops == MountPatch(p, i) IN
         /\ IsSeq(ops) /\ AllApplicable(r, ops)
         /\ ApplyAll(r, ops)
              = [r EXCEPT !.containers = [r.containers EXCEPT ![i] = With(p.containers[i], SecretMount(p))]]
<1> DEFINE m   == SecretMount(p)
           ops == MountPatch(p, i)
           cs  == [r.containers EXCEPT ![i] = With(p.containers[i], m)]
           new == [r EXCEPT !.containers = cs]
<1>1. CASE Contains(p.containers[i], m)
  <2>1. ops = <<>>
    BY <1>1 DEF MountPatch, SecretMount
  <2>2. cs = r.containers
    <3>1. r.containers = [k \in 1..Len(r.containers) |-> r.containers[k]]
      BY SeqForm DEF IsPod
    <3> QED
      BY <1>1, <3>1 DEF With
  <2>3. new = r
    BY <2>2 DEF IsPod
  <2> QED
    BY <2>1, <2>3, ApplyNone, NoneForm
<1>2. CASE ~Contains(p.containers[i], m) /\ p.containers[i] = <<>>
  <2> DEFINE op == Patch("volumeMounts", i, <<m>>)
  <2>1. ops = <<op>> /\ With(p.containers[i], m) = <<m>>
    BY <1>2, OneForm DEF MountPatch, SecretMount, With
  <2> HIDE DEF m
  <2>2. Applicable(r, op) /\ Apply(r, op) = [r EXCEPT !.containers[i] = <<m>>]
    BY DEF Applicable, Apply, Patch
  <2>3. Apply(r, op) = new
    BY <2>1, <2>2
  <2> HIDE DEF op, new, ops
  <2>4. IsSeq(ops) /\ AllApplicable(r, ops) /\ ApplyAll(r, ops) = new
    BY <2>1, <2>2, <2>3, ApplyOne, OneForm
  <2> QED
    BY <2>4 DEF m, new, ops
<1>3. CASE ~Contains(p.containers[i], m) /\ p.containers[i] # <<>>
  <2> DEFINE op == Patch("volumeMounts/-", i, m)
  <2>1. ops = <<op>> /\ With(p.containers[i], m) = Append(r.containers[i], m)
    BY <1>3 DEF MountPatch, SecretMount, With
  <2> HIDE DEF m
  <2>2. Applicable(r, op) /\ Apply(r, op) = [r EXCEPT !.containers[i] = Append(r.containers[i], m)]
    BY <1>3 DEF Applicable, Apply, Patch
  <2>3. Apply(r, op) = new
    BY <2>1, <2>2
  <2> HIDE DEF op, new, ops
  <2>4. IsSeq(ops) /\ AllApplicable(r, ops) /\ ApplyAll(r, ops) = new
    BY <2>1, <2>2, <2>3, ApplyOne, OneForm
  <2> QED
    BY <2>4 DEF m, new, ops
<1> QED
  BY <1>1, <1>2, <1>3

\* A list that grew by an element at most is a sequence.
LEMMA WithForm == ASSUME NEW s, IsSeq(s), NEW e PROVE IsSeq(With(s, e))
BY AppendForm DEF With

\* A function on 1..n is a sequence.
LEMMA FcnForm ==
  ASSUME NEW n \in Nat, NEW f, f = [k \in 1..n |-> f[k]]
  PROVE  IsSeq(f) /\ Len(f) = n
<1> DEFINE S == {f[k] : k \in 1..n}
<1>1. f \in [1..n -> S]
  OBVIOUS
<1>2. f \in Seq(S)
  BY <1>1
<1>3. Len(f) = n
  BY <1>1
<1> QED
  BY <1>2, <1>3, SeqOver

\* The containers, one after the other.
LEMMA MountsEffect ==
  ASSUME NEW p, IsPod(p), NEW r, IsPod(r), r.containers = p.containers
  PROVE  LET ops == MountPatches(p) IN
         /\ IsSeq(ops) /\ AllApplicable(r, ops)
         /\ ApplyAll(r, ops) = [r EXCEPT !.containers = NewContainers(p)]
<1> DEFINE cs      == p.containers
           N       == Len(cs)
           seqs    == [i \in DOMAIN cs |-> MountPatch(p, i)]
           to(i)   == [j \in DOMAIN cs |-> IF j <= i THEN With(cs[j], SecretMount(p)) ELSE cs[j]]
           upTo(i) == [r EXCEPT !.containers = to(i)]
           Done(ops, i) == IsSeq(ops) /\ AllApplicable(r, ops) /\ ApplyAll(r, ops) = upTo(i)
<1>1. /\ N \in Nat /\ DOMAIN cs = 1..N /\ cs = [k \in 1..N |-> cs[k]]
      /\ \A i \in 1..N : IsSeq(cs[i])
  BY SeqForm DEF IsPod
<1>2. IsSeq(seqs) /\ Len(seqs) = N
  <2>1. seqs = [k \in 1..N |-> seqs[k]]
    BY <1>1
  <2> HIDE DEF seqs
  <2> QED
    BY <1>1, <2>1, FcnForm
<1>3. \A i \in 0..N : IsPod(upTo(i)) /\ upTo(i).containers = to(i)
  <2> SUFFICES ASSUME NEW i \in 0..N PROVE IsPod(upTo(i)) /\ upTo(i).containers = to(i)
    OBVIOUS
  <2>1. \A j \in 1..N : IsSeq(to(i)[j])
    BY <1>1, WithForm
  <2>2. to(i) = [k \in 1..N |-> to(i)[k]] /\ DOMAIN to(i) = 1..N
    BY <1>1
  <2> DEFINE t == to(i)
  <2> HIDE DEF to
  <2>3. IsSeq(t) /\ \A k \in DOMAIN t : IsSeq(t[k])
    BY <1>1, <2>1, <2>2, FcnForm
  <2> HIDE DEF t
  <2>4. IsPod([r EXCEPT !.containers = t]) /\ [r EXCEPT !.containers = t].containers = t
    BY <2>3 DEF IsPod
  <2> QED
    BY <2>4 DEF t
<1>4. ASSUME NEW i \in 1..N, NEW h \in 0..N, h = i - 1, NEW ops, Done(ops, h)
      PROVE  Done(ops \o seqs[i], i) /\ IsSeq(seqs[i])
  <2> DEFINE q == upTo(i - 1)
  <2>1. IsPod(q) /\ q.containers = to(i - 1) /\ i \in DOMAIN q.containers /\ q.containers[i] = cs[i]
    <3>1. i - 1 \in 0..N /\ to(i - 1)[i] = cs[i] /\ DOMAIN to(i - 1) = 1..N
      BY <1>1
    <3> HIDE DEF to, upTo
    <3>2. IsPod(upTo(i - 1)) /\ upTo(i - 1).containers = to(i - 1)
      BY <1>3, <3>1
    <3> QED
      BY <3>1, <3>2
  <2> HIDE DEF q
  <2>2. /\ IsSeq(seqs[i]) /\ AllApplicable(q, seqs[i])
        /\ ApplyAll(q, seqs[i])
             = [q EXCEPT !.containers = [q.containers EXCEPT ![i] = With(cs[i], SecretMount(p))]]
    BY <1>1, <2>1, OneMount
  <2>3. [to(i - 1) EXCEPT ![i] = With(cs[i], SecretMount(p))] = to(i)
    <3>1. \A j \in 1..N : j <= i <=> j = i \/ j <= i - 1
      BY <1>1
    <3> QED
      BY <1>1, <3>1
  <2>4. [q EXCEPT !.containers = to(i)] = upTo(i)
    BY DEF q
  <2> HIDE DEF seqs, to, upTo
  <2>5. ApplyAll(q, seqs[i]) = upTo(i)
    BY <2>1, <2>2, <2>3, <2>4
  <2>6. IsSeq(ops) /\ AllApplicable(r, ops) /\ ApplyAll(r, ops) = q
    BY <1>4, Zenon DEF q
  <2>7. AllApplicable(r, ops \o seqs[i]) /\ ApplyAll(r, ops \o seqs[i]) = upTo(i) /\ IsSeq(ops \o seqs[i])
    BY <2>2, <2>5, <2>6, ApplyParts, ConcatForm
  <2> QED
    BY <2>2, <2>7
<1>5. Done(<<>>, 0)
  <2>1. to(0) = cs
    BY <1>1
  <2>2. upTo(0) = r
    BY <2>1 DEF IsPod
  <2> HIDE DEF upTo
  <2> QED
    BY <2>2, ApplyNone, NoneForm
<1>6. upTo(N) = [r EXCEPT !.containers = NewContainers(p)]
  BY <1>1 DEF NewContainers
<1> HIDE DEF seqs, upTo
<1>7. CASE N = 0
  <2>1. MountPatches(p) = <<>>
    BY <1>1, <1>2, <1>7 DEF MountPatches, FlattenSeq, seqs
  <2> QED
    BY <1>5, <1>6, <1>7, <2>1
<1>8. CASE N # 0
  <2>1. seqs # <<>> /\ MountPatches(p) = FlattenSeq(seqs)
    BY <1>2, <1>8, NoneForm DEF MountPatches, seqs
  <2>2. PICK f : /\ f[1] = seqs[1]
                 /\ \A i \in 2..N : f[i] = f[i - 1] \o seqs[i]
                 /\ FlattenSeq(seqs) = f[N]
    <3>1. PICK f : Flattens(f, seqs)
      BY <1>2, <2>1, FlattenDef
    <3> QED
      BY <1>2, <3>1 DEF Flattens
  <2> DEFINE S == {n \in Nat : n \in 1..N => Done(f[n], n)}
  <2>3. 0 \in S
    OBVIOUS
  <2>4. ASSUME NEW n \in Nat, n \in S PROVE n + 1 \in S
    <3> SUFFICES ASSUME n + 1 \in 1..N PROVE Done(f[n + 1], n + 1)
      OBVIOUS
    <3>1. CASE n = 0
      <4>1. Done(<<>> \o seqs[1], 1) /\ IsSeq(seqs[1])
        <5>1. 1 \in 1..N /\ 0 \in 0..N /\ 0 = 1 - 1
          BY <3>1
        <5> HIDE DEF Done
        <5> QED
          BY <1>4, <1>5, <5>1
      <4>2. <<>> \o seqs[1] = seqs[1]
        BY <4>1 DEF IsSeq
      <4> QED
        BY <2>2, <3>1, <4>1, <4>2
    <3>2. CASE n # 0
      <4>1. /\ Done(f[n], n) /\ n = (n + 1) - 1 /\ n \in 0..N
            /\ n + 1 \in 2..N /\ n + 1 \in 1..N
        BY <2>4, <3>2
      <4> HIDE DEF Done
      <4> QED
        BY <1>4, <2>2, <4>1
    <3> QED
      BY <3>1, <3>2
  <2> HIDE DEF S
  <2>5. N \in S
    BY <1>1, <2>3, <2>4, Induction
  <2>6. Done(f[N], N)
    BY <1>1, <1>8, <2>5 DEF S
  <2> QED
    BY <1>6, <2>1, <2>2, <2>6
<1> QED
  BY <1>7, <1>8

-----------------------------------------------------------------------------
(* What all of them do, and what follows from it.                          *)

\* The patches of MutatePod (mutator.go:241-256) apply to the pod they were made
\* for, one after the other, and make the pod that Mutated says, whatever the pod's
\* lists and the configuration are.
THEOREM PatchesMutate ==
  ASSUME NEW p, IsPod(p), NEW cfg
  PROVE  /\ AllApplicable(p, Patches(p, cfg))
         /\ ApplyAll(p, Patches(p, cfg)) = Mutated(p, cfg)
         /\ IsPod(Mutated(p, cfg))
<1> DEFINE a  == SecurityContextPatch(p, cfg)
           b  == VolumePatches(p, cfg)
           c  == InitPatch(p, cfg)
           d  == MountPatches(p)
           pa == [p EXCEPT !.group = FSGroup(p, cfg)]
           pb == [pa EXCEPT !.volumes = NewVolumes(p, cfg)]
           pc == [pb EXCEPT !.inits = NewInits(p, cfg)]
           pd == [pc EXCEPT !.containers = NewContainers(p)]
<1>1. IsSeq(a) /\ AllApplicable(p, a) /\ ApplyAll(p, a) = pa
  BY GroupEffect
<1>2. IsPod(pa) /\ pa.volumes = p.volumes /\ pa.inits = p.inits /\ pa.containers = p.containers
  BY PodFields, NoneForm DEF IsPod
<1>3. /\ IsSeq(b) /\ AllApplicable(pa, b) /\ ApplyAll(pa, b) = pb
      /\ IsSeq(NewVolumes(p, cfg))
  <2> HIDE DEF pa
  <2> QED
    BY <1>2, VolumesEffect
<1>4. IsPod(pb) /\ pb.inits = p.inits /\ pb.containers = p.containers
  <2> HIDE DEF pa
  <2> QED
    BY <1>2, <1>3, PodFields, NoneForm DEF IsPod
<1>5. IsSeq(c) /\ AllApplicable(pb, c) /\ ApplyAll(pb, c) = pc
  <2> HIDE DEF pb
  <2> QED
    BY <1>4, InitEffect
<1>6. IsSeq(NewInits(p, cfg))
  <2>1. IsSeq(p.inits)
    BY DEF IsPod
  <2> QED
    BY <2>1, AppendForm DEF NewInits
<1>7. IsPod(pc) /\ pc.containers = p.containers
  <2> HIDE DEF pb
  <2> QED
    BY <1>4, <1>6, PodFields, NoneForm DEF IsPod
<1>8. IsSeq(d) /\ AllApplicable(pc, d) /\ ApplyAll(pc, d) = pd
  <2> HIDE DEF pc
  <2> QED
    BY <1>7, MountsEffect
<1>9. pd = Mutated(p, cfg)
  <2> DEFINE Rec(g, v, i, cs) == [namespace |-> p.namespace, ann |-> p.ann, group |-> g,
                                  volumes |-> v, inits |-> i, containers |-> cs]
  <2>1. p = Rec(p.group, p.volumes, p.inits, p.containers)
    BY DEF IsPod
  <2>2. \A g, v, i, cs, x : /\ [Rec(g, v, i, cs) EXCEPT !.group = x] = Rec(x, v, i, cs)
                           /\ [Rec(g, v, i, cs) EXCEPT !.volumes = x] = Rec(g, x, i, cs)
                           /\ [Rec(g, v, i, cs) EXCEPT !.inits = x] = Rec(g, v, x, cs)
                           /\ [Rec(g, v, i, cs) EXCEPT !.containers = x] = Rec(g, v, i, x)
    OBVIOUS
  <2>3. Mutated(p, cfg) = Rec(FSGroup(p, cfg), NewVolumes(p, cfg), NewInits(p, cfg), NewContainers(p))
    BY DEF Mutated
  <2> HIDE DEF Rec, pa, pb, pc
  <2>4. pa = Rec(FSGroup(p, cfg), p.volumes, p.inits, p.containers)
    BY <2>1, <2>2 DEF pa
  <2>5. pb = Rec(FSGroup(p, cfg), NewVolumes(p, cfg), p.inits, p.containers)
    BY <2>2, <2>4 DEF pb
  <2>6. pc = Rec(FSGroup(p, cfg), NewVolumes(p, cfg), NewInits(p, cfg), p.containers)
    BY <2>2, <2>5 DEF pc
  <2> QED
    BY <2>2, <2>3, <2>6
<1>10. Patches(p, cfg) = ((a \o b) \o c) \o d
  BY DEF Patches
<1> HIDE DEF a, b, c, d, pa, pb, pc, pd
<1>11. IsSeq(a \o b) /\ AllApplicable(p, a \o b) /\ ApplyAll(p, a \o b) = pb
  BY <1>1, <1>3, ApplyParts, ConcatForm
<1>12. /\ IsSeq((a \o b) \o c) /\ AllApplicable(p, (a \o b) \o c)
       /\ ApplyAll(p, (a \o b) \o c) = pc
  BY <1>5, <1>11, ApplyParts, ConcatForm
<1>13. /\ AllApplicable(p, ((a \o b) \o c) \o d)
       /\ ApplyAll(p, ((a \o b) \o c) \o d) = pd
  BY <1>8, <1>12, ApplyParts
<1>14. IsPod(Mutated(p, cfg))
  <2> DEFINE cs == NewContainers(p)
             N  == Len(p.containers)
  <2>1. /\ N \in Nat /\ DOMAIN p.containers = 1..N
        /\ \A i \in 1..N : IsSeq(p.containers[i])
    BY SeqForm DEF IsPod
  <2>2. DOMAIN cs = 1..N /\ cs = [i \in 1..N |-> cs[i]] /\ \A i \in 1..N : IsSeq(cs[i])
    BY <2>1, WithForm DEF NewContainers
  <2> HIDE DEF cs
  <2>3. IsSeq(cs)
    BY <2>1, <2>2, FcnForm
  <2> QED
    BY <1>3, <1>6, <2>2, <2>3 DEF IsPod, Mutated, cs
<1> QED
  BY <1>9, <1>10, <1>13, <1>14

\* A list is a prefix of one that goes on from it.
LEMMA PrefixForm ==
  ASSUME NEW s, IsSeq(s), NEW t, IsSeq(t), Len(s) <= Len(t), \A k \in 1..Len(s) : t[k] = s[k]
  PROVE  IsPrefix(s, t)
<1> DEFINE S == ToSet(s) \cup ToSet(t)
<1>1. s \in Seq(S) /\ t \in Seq(S)
  BY SeqBoth
<1> HIDE DEF S
<1>2. SubSeq(s, 1, Len(s)) = SubSeq(t, 1, Len(s))
  BY <1>1
<1> QED
  BY <1>2 DEF IsPrefix

\* Adding to the end keeps what is there.
LEMMA PrefixAppend == ASSUME NEW s, IsSeq(s), NEW e PROVE IsPrefix(s, Append(s, e))
<1> DEFINE t == Append(s, e)
<1>1. Len(s) \in Nat
  BY SeqForm
<1>2. IsSeq(t) /\ Len(t) = Len(s) + 1 /\ \A k \in 1..Len(s) : t[k] = s[k]
  BY AppendForm
<1> HIDE DEF t
<1>3. IsPrefix(s, t)
  BY <1>1, <1>2, PrefixForm
<1> QED
  BY <1>3 DEF t

\* A list goes on from itself.
LEMMA PrefixSelf == ASSUME NEW s, IsSeq(s) PROVE IsPrefix(s, s)
<1>1. Len(s) \in Nat
  BY SeqForm
<1> QED
  BY <1>1, PrefixForm

\* Going on twice is going on.
LEMMA PrefixThen ==
  ASSUME NEW s, IsSeq(s), NEW t, IsSeq(t), NEW u, IsSeq(u), IsPrefix(s, t), IsPrefix(t, u)
  PROVE  IsPrefix(s, u)
<1>1. Len(s) \in Nat /\ Len(t) \in Nat /\ Len(s) <= Len(t) /\ Len(t) <= Len(u)
  BY SeqForm DEF IsPrefix
<1>2. ASSUME NEW a, IsSeq(a), NEW b, IsSeq(b), IsPrefix(a, b), NEW k \in 1..Len(a)
      PROVE  b[k] = a[k]
  <2> DEFINE S == ToSet(a) \cup ToSet(b)
  <2>1. a \in Seq(S) /\ b \in Seq(S)
    BY <1>2, SeqBoth
  <2> HIDE DEF S
  <2>2. Len(a) <= Len(b) /\ SubSeq(a, 1, Len(a)) = SubSeq(b, 1, Len(a))
    BY <1>2 DEF IsPrefix
  <2>3. SubSeq(a, 1, Len(a))[k] = a[k] /\ SubSeq(b, 1, Len(a))[k] = b[k]
    BY <2>1, <2>2
  <2> QED
    BY <2>2, <2>3
<1>3. \A k \in 1..Len(s) : t[k] = s[k] /\ u[k] = t[k]
  BY <1>1, <1>2
<1> QED
  BY <1>1, <1>3, PrefixForm

\* A list with an element that is in it already.
LEMMA WithHas ==
  ASSUME NEW s, IsSeq(s), NEW e
  PROVE  /\ Contains(With(s, e), e)
         /\ \A x : Contains(s, x) => Contains(With(s, e), x)
         /\ \A x : Contains(Append(s, e), x) <=> Contains(s, x) \/ x = e
<1> DEFINE t == Append(s, e)
<1>1. Len(s) \in Nat
  BY SeqForm
<1>2. Len(t) = Len(s) + 1 /\ t[Len(s) + 1] = e /\ \A k \in 1..Len(s) : t[k] = s[k]
  BY AppendForm
<1> HIDE DEF t
<1>3. \A x : Contains(t, x) <=> Contains(s, x) \/ x = e
  <2> SUFFICES ASSUME NEW x PROVE Contains(t, x) <=> Contains(s, x) \/ x = e
    OBVIOUS
  <2>1. Contains(s, x) => Contains(t, x)
    BY <1>1, <1>2 DEF Contains
  <2>2. x = e => Contains(t, x)
    BY <1>1, <1>2 DEF Contains
  <2>3. Contains(t, x) => Contains(s, x) \/ x = e
    <3> SUFFICES ASSUME NEW k \in 1..Len(t), t[k] = x PROVE Contains(s, x) \/ x = e
      BY DEF Contains
    <3>1. k = Len(s) + 1 \/ k \in 1..Len(s)
      BY <1>1, <1>2
    <3> QED
      BY <1>2, <3>1 DEF Contains
  <2> QED
    BY <2>1, <2>2, <2>3
<1> QED
  BY <1>3 DEF With, t

\* What `Mutated` has: both volumes that are called for, if there is room for two.
RoomForBoth(p, cfg) == NeedsKeeperVolume(p, cfg) => p.volumes # <<>>

\* Every volume that a mount of the webhook's calls for is there afterwards.
LEMMA NewVolumesHave ==
  ASSUME NEW p, IsPod(p), NEW cfg, RoomForBoth(p, cfg)
  PROVE  /\ Contains(NewVolumes(p, cfg), SecretVolume)
         /\ p.ann.provider = "local" => Contains(NewVolumes(p, cfg), LocalVolume)
         /\ NeedsKeeperVolume(p, cfg) => Contains(NewVolumes(p, cfg), KeeperVolume)
         /\ NewVolumes(p, cfg) # <<>>
<1> DEFINE va == WithSecretVolume(p)
           vb == WithLocalVolume(p)
           vc == NewVolumes(p, cfg)
<1>1. IsSeq(p.volumes)
  BY DEF IsPod
<1>2. IsSeq(va) /\ Contains(va, SecretVolume) /\ \A x : Contains(p.volumes, x) => Contains(va, x)
  BY <1>1, WithForm, WithHas DEF WithSecretVolume
<1> HIDE DEF va
<1>3. /\ IsSeq(vb) /\ (p.ann.provider = "local" => Contains(vb, LocalVolume))
      /\ \A x : Contains(va, x) => Contains(vb, x)
  BY <1>2, AppendForm, WithHas DEF WithLocalVolume, va
<1> HIDE DEF vb
<1>4. /\ IsSeq(vc) /\ (NeedsKeeperVolume(p, cfg) => Contains(vc, KeeperVolume))
      /\ \A x : Contains(vb, x) => Contains(vc, x)
  BY <1>2, <1>3, AppendForm, WithHas DEF NewVolumes, RoomForBoth, vb
<1> HIDE DEF vc
<1>5. Contains(vc, SecretVolume)
  BY <1>2, <1>3, <1>4
<1>6. vc # <<>>
  BY <1>5, NoneForm DEF Contains
<1> QED
  BY <1>3, <1>4, <1>5, <1>6 DEF vc

\* No patches are made for a pod that was mutated.
THEOREM NothingMore ==
  ASSUME NEW p, IsPod(p), NEW cfg, cfg.fsGroup \notin {NoContext, Absent}, RoomForBoth(p, cfg)
  PROVE  Patches(Mutated(p, cfg), cfg) = <<>>
<1> DEFINE m == Mutated(p, cfg)
<1>1. /\ m.ann = p.ann /\ m.group = FSGroup(p, cfg) /\ m.volumes = NewVolumes(p, cfg)
      /\ m.inits = NewInits(p, cfg) /\ m.containers = NewContainers(p)
  BY DEF Mutated
<1>2. IsPod(m)
  BY PatchesMutate
<1> HIDE DEF m
<1>3. SecurityContextPatch(m, cfg) = <<>>
  <2>1. m.group \notin {NoContext, Absent}
    BY <1>1 DEF FSGroup
  <2> QED
    BY <2>1 DEF SecurityContextPatch
<1>4. VolumePatches(m, cfg) = <<>>
  <2>1. /\ Contains(m.volumes, SecretVolume)
        /\ m.ann.provider = "local" => Contains(m.volumes, LocalVolume)
        /\ NeedsKeeperVolume(m, cfg) => Contains(m.volumes, KeeperVolume)
    BY <1>1, NewVolumesHave DEF NeedsKeeperVolume
  <2>2. /\ AddVolume(m, SecretVolume) = <<>>
        /\ ~(m.ann.provider = "local" /\ ~Contains(m.volumes, LocalVolume))
        /\ (IF NeedsKeeperVolume(m, cfg) THEN AddVolume(m, KeeperVolume) ELSE <<>>) = <<>>
    BY <2>1 DEF AddVolume
  <2>3. <<>> \o <<>> = <<>>
    OBVIOUS
  <2> QED
    BY <2>2, <2>3 DEF VolumePatches
<1>5. InitPatch(m, cfg) = <<>>
  <2>1. HasInit(m)
    <3>1. CASE HasInit(p)
      BY <1>1, <3>1 DEF HasInit, NewInits
    <3>2. CASE ~HasInit(p)
      <4> DEFINE c == InitContainer(p, cfg)
                 k == Len(p.inits) + 1
      <4>1. c.name = InitName
        BY DEF InitContainer
      <4> HIDE DEF c
      <4>2. IsSeq(p.inits) /\ m.inits = Append(p.inits, c)
        BY <1>1, <3>2 DEF NewInits, IsPod, c
      <4>3. IsSeq(m.inits) /\ Len(m.inits) = k /\ m.inits[k] = c
        BY <4>2, AppendForm
      <4>4. k \in DOMAIN m.inits
        BY <4>2, <4>3, SeqForm
      <4> QED
        BY <4>1, <4>3, <4>4 DEF HasInit
    <3> QED
      BY <3>1, <3>2
  <2> QED
    BY <2>1 DEF InitPatch
<1>6. MountPatches(m) = <<>>
  <2> DEFINE N    == Len(m.containers)
             seqs == [i \in DOMAIN m.containers |-> MountPatch(m, i)]
  <2>1. N \in Nat /\ DOMAIN m.containers = 1..N
    BY <1>2, SeqForm DEF IsPod
  <2>2. \A i \in 1..N : Contains(m.containers[i], SecretMount(m))
    <3> SUFFICES ASSUME NEW i \in 1..N PROVE Contains(m.containers[i], SecretMount(m))
      OBVIOUS
    <3>1. i \in DOMAIN p.containers /\ m.containers[i] = With(p.containers[i], SecretMount(p))
      BY <1>1, <2>1 DEF NewContainers
    <3>2. IsSeq(p.containers[i]) /\ SecretMount(m) = SecretMount(p)
      BY <1>1, <3>1 DEF IsPod, SecretMount
    <3> QED
      BY <3>1, <3>2, WithHas
  <2>3. \A i \in 1..N : seqs[i] = <<>>
    BY <2>1, <2>2 DEF MountPatch, SecretMount
  <2>4. seqs = [k \in 1..N |-> seqs[k]]
    BY <2>1
  <2>5. MountPatches(m) = FlattenSeq(seqs)
    BY DEF MountPatches
  <2> HIDE DEF seqs, N
  <2>6. IsSeq(seqs) /\ Len(seqs) = N
    BY <2>1, <2>4, FcnForm
  <2>7. CASE N = 0
    <3>1. seqs = <<>>
      BY <2>6, <2>7 DEF IsSeq
    <3> QED
      BY <2>5, <2>6, <2>7, <3>1 DEF FlattenSeq
  <2>8. CASE N # 0
    <3>1. PICK f : Flattens(f, seqs)
      BY <2>6, <2>8, NoneForm, FlattenDef
    <3> DEFINE S == {n \in Nat : n \in 1..N => f[n] = <<>>}
    <3>2. 0 \in S
      OBVIOUS
    <3>3. ASSUME NEW n \in Nat, n \in S PROVE n + 1 \in S
      <4> SUFFICES ASSUME n + 1 \in 1..N PROVE f[n + 1] = <<>>
        OBVIOUS
      <4>1. CASE n = 0
        BY <2>3, <3>1, <4>1 DEF Flattens
      <4>2. CASE n # 0
        <5>1. f[n] = <<>> /\ n + 1 \in 2..N /\ (n + 1) - 1 = n /\ seqs[n + 1] = <<>>
          BY <2>1, <2>3, <3>3, <4>2
        <5>2. f[n + 1] = <<>> \o <<>>
          BY <2>6, <3>1, <5>1 DEF Flattens
        <5> QED
          BY <5>2
      <4> QED
        BY <4>1, <4>2
    <3> HIDE DEF S
    <3>4. N \in S
      BY <2>1, <3>2, <3>3, Induction
    <3>5. f[N] = <<>>
      BY <2>1, <2>8, <3>4 DEF S
    <3> QED
      BY <2>5, <2>6, <3>1, <3>5 DEF Flattens
  <2> QED
    BY <2>7, <2>8
<1>7. <<>> \o <<>> = <<>>
  OBVIOUS
<1>8. Patches(m, cfg) = <<>>
  BY <1>3, <1>4, <1>5, <1>6, <1>7 DEF Patches
<1> QED
  BY <1>8 DEF m

\* Nothing of the pod is taken away or moved: a list goes on where it ended.
LEMMA MutatedKeeps ==
  ASSUME NEW p, IsPod(p), NEW cfg
  PROVE  LET m == Mutated(p, cfg) IN
         /\ IsPrefix(p.volumes, m.volumes) /\ IsPrefix(p.inits, m.inits)
         /\ DOMAIN m.containers = DOMAIN p.containers
         /\ \A i \in DOMAIN p.containers : IsPrefix(p.containers[i], m.containers[i])
         /\ p.group \notin {NoContext, Absent} => m.group = p.group
<1> DEFINE m  == Mutated(p, cfg)
           vs == p.volumes
           va == WithSecretVolume(p)
           vb == WithLocalVolume(p)
           vc == NewVolumes(p, cfg)
<1>1. IsSeq(vs) /\ IsSeq(p.inits) /\ \A i \in DOMAIN p.containers : IsSeq(p.containers[i])
  BY DEF IsPod
<1>2. IsPrefix(vs, vc)
  <2>1. IsSeq(va) /\ IsPrefix(vs, va)
    BY <1>1, WithForm, PrefixAppend, PrefixSelf DEF WithSecretVolume, With
  <2> HIDE DEF va
  <2>2. IsSeq(vb) /\ IsPrefix(va, vb)
    BY <2>1, AppendForm, PrefixAppend, PrefixSelf DEF WithLocalVolume, va
  <2> HIDE DEF vb
  <2>3. IsPrefix(vs, vb)
    BY <1>1, <2>1, <2>2, PrefixThen
  <2>4. CASE vc = vb
    BY <2>3, <2>4
  <2>5. CASE vc = Append(vb, KeeperVolume)
    <3>1. IsSeq(vc) /\ IsPrefix(vb, vc)
      BY <2>2, <2>5, AppendForm, PrefixAppend
    <3> HIDE DEF vc, vs
    <3> QED
      BY <1>1, <2>2, <2>3, <3>1, PrefixThen
  <2>6. CASE vs = <<>> /\ vc = <<KeeperVolume>>
    <3>1. IsSeq(vc) /\ Len(vc) = 1 /\ Len(vs) = 0
      BY <2>6, OneForm, NoneForm
    <3> HIDE DEF vc, vs
    <3> QED
      BY <1>1, <3>1, PrefixForm
  <2> QED
    BY <2>4, <2>5, <2>6 DEF NewVolumes, vb
<1>3. IsPrefix(p.inits, NewInits(p, cfg))
  BY <1>1, PrefixAppend, PrefixSelf DEF NewInits
<1>4. /\ DOMAIN NewContainers(p) = DOMAIN p.containers
      /\ \A i \in DOMAIN p.containers : IsPrefix(p.containers[i], NewContainers(p)[i])
  BY <1>1, PrefixAppend, PrefixSelf DEF NewContainers, With
<1> QED
  BY <1>2, <1>3, <1>4 DEF Mutated, FSGroup

\* The elements of a list that was added to.
LEMMA AppendElements ==
  ASSUME NEW s, IsSeq(s), NEW e
  PROVE  ToSet(Append(s, e)) = ToSet(s) \cup {e}
<1> DEFINE t == Append(s, e)
<1>1. Len(s) \in Nat /\ DOMAIN s = 1..Len(s)
  BY SeqForm
<1>2. /\ IsSeq(t) /\ Len(t) = Len(s) + 1 /\ t[Len(s) + 1] = e
      /\ \A k \in 1..Len(s) : t[k] = s[k]
  BY AppendForm
<1> HIDE DEF t
<1>3. DOMAIN t = 1..Len(s) + 1
  BY <1>2, SeqForm
<1>4. \A k \in 1..Len(s) + 1 : k \in 1..Len(s) \/ k = Len(s) + 1
  BY <1>1
<1>5. \A k \in 1..Len(s) : k \in 1..Len(s) + 1
  BY <1>1
<1>6. Len(s) + 1 \in 1..Len(s) + 1
  BY <1>1
<1>7. ToSet(t) = ToSet(s) \cup {e}
  BY <1>1, <1>2, <1>3, <1>4, <1>5, <1>6 DEF ToSet
<1> QED
  BY <1>7 DEF t

\* The two ways to say that a list has an element.
LEMMA ContainsElements ==
  ASSUME NEW s, IsSeq(s), NEW e PROVE Contains(s, e) <=> e \in ToSet(s)
BY SeqForm DEF Contains, ToSet

\* The init containers afterwards, and the mounts of the containers.
LEMMA MutatedHas ==
  ASSUME NEW p, IsPod(p), NEW cfg
  PROVE  LET m == Mutated(p, cfg) IN
         /\ ToSet(m.inits) = IF HasInit(p) THEN ToSet(p.inits)
                             ELSE ToSet(p.inits) \cup {InitContainer(p, cfg)}
         /\ \A i \in DOMAIN p.containers : SecretMount(p) \in ToSet(m.containers[i])
<1>1. IsSeq(p.inits) /\ \A i \in DOMAIN p.containers : IsSeq(p.containers[i])
  BY DEF IsPod
<1>2. ToSet(NewInits(p, cfg)) = IF HasInit(p) THEN ToSet(p.inits)
                                ELSE ToSet(p.inits) \cup {InitContainer(p, cfg)}
  BY <1>1, AppendElements DEF NewInits
<1>3. ASSUME NEW i \in DOMAIN p.containers
      PROVE  SecretMount(p) \in ToSet(NewContainers(p)[i])
  <2> DEFINE w == With(p.containers[i], SecretMount(p))
  <2>1. IsSeq(w) /\ Contains(w, SecretMount(p)) /\ NewContainers(p)[i] = w
    BY <1>1, <1>3, WithForm, WithHas DEF NewContainers
  <2> HIDE DEF w
  <2> QED
    BY <2>1, ContainsElements
<1> QED
  BY <1>2, <1>3 DEF Mutated

\* A list without an element that occurs twice, and an element it does not have.
LEMMA AppendInjectiveForm ==
  ASSUME NEW s, IsSeq(s), IsInjective(s), NEW e, ~Contains(s, e)
  PROVE  IsInjective(Append(s, e))
<1> DEFINE t == Append(s, e)
<1>1. Len(s) \in Nat /\ DOMAIN s = 1..Len(s)
  BY SeqForm
<1>2. /\ IsSeq(t) /\ Len(t) = Len(s) + 1 /\ t[Len(s) + 1] = e
      /\ \A k \in 1..Len(s) : t[k] = s[k]
  BY AppendForm
<1> HIDE DEF t
<1>3. DOMAIN t = 1..Len(s) + 1
  BY <1>2, SeqForm
<1>4. \A k \in 1..Len(s) : s[k] # e
  BY DEF Contains
<1>5. ASSUME NEW j \in DOMAIN t, NEW k \in DOMAIN t, t[j] = t[k] PROVE j = k
  <2>1. (j \in 1..Len(s) \/ j = Len(s) + 1) /\ (k \in 1..Len(s) \/ k = Len(s) + 1)
    BY <1>1, <1>3
  <2> QED
    BY <1>1, <1>2, <1>4, <1>5, <2>1 DEF IsInjective
<1>6. IsInjective(t)
  BY <1>5 DEF IsInjective
<1> QED
  BY <1>6 DEF t

\* No volume is added under a name that is there.
LEMMA NewVolumesInjective ==
  ASSUME NEW p, IsPod(p), NEW cfg, IsInjective(p.volumes)
  PROVE  IsInjective(NewVolumes(p, cfg))
<1> DEFINE vs == p.volumes
           va == WithSecretVolume(p)
           vb == WithLocalVolume(p)
           vc == NewVolumes(p, cfg)
<1>1. /\ SecretVolume # LocalVolume /\ SecretVolume # KeeperVolume /\ LocalVolume # KeeperVolume
  BY DEF SecretVolume, LocalVolume, KeeperVolume
<1>2. IsSeq(vs)
  BY DEF IsPod
<1>3. /\ IsSeq(va) /\ IsInjective(va)
      /\ \A x : Contains(va, x) => Contains(vs, x) \/ x = SecretVolume
  BY <1>2, AppendForm, AppendInjectiveForm, WithHas DEF WithSecretVolume, With
<1> HIDE DEF va
<1>4. CASE p.ann.provider = "local" /\ ~Contains(vs, LocalVolume)
  <2>1. vb = Append(va, LocalVolume) /\ ~Contains(va, LocalVolume) /\ vc = vb
    BY <1>1, <1>3, <1>4 DEF WithLocalVolume, NewVolumes, NeedsKeeperVolume, va
  <2> QED
    BY <1>3, <2>1, AppendInjectiveForm
<1>5. CASE ~(p.ann.provider = "local" /\ ~Contains(vs, LocalVolume))
  <2>1. vb = va
    BY <1>5 DEF WithLocalVolume, va
  <2>2. CASE vc = vb
    BY <1>3, <2>1, <2>2
  <2>3. CASE vc = <<KeeperVolume>>
    BY <2>3 DEF IsInjective
  <2>4. CASE vc = Append(vb, KeeperVolume) /\ ~Contains(vs, KeeperVolume)
    <3>1. ~Contains(va, KeeperVolume)
      BY <1>1, <1>3, <2>4
    <3> QED
      BY <1>3, <2>1, <2>4, <3>1, AppendInjectiveForm
  <2> QED
    BY <2>2, <2>3, <2>4 DEF NewVolumes, vb
<1> QED
  BY <1>4, <1>5

\* A pod never gets a second init container, nor a second volume, of one name.
LEMMA MutatedUnique ==
  ASSUME NEW p, IsPod(p), NEW cfg, IsInjective(p.volumes),
         \A j, k \in DOMAIN p.inits :
           p.inits[j].name = InitName /\ p.inits[k].name = InitName => j = k
  PROVE  LET m == Mutated(p, cfg) IN
         /\ IsInjective(m.volumes)
         /\ \A j, k \in DOMAIN m.inits :
              m.inits[j].name = InitName /\ m.inits[k].name = InitName => j = k
<1>1. IsInjective(NewVolumes(p, cfg))
  BY NewVolumesInjective
<1>2. CASE HasInit(p)
  BY <1>1, <1>2 DEF Mutated, NewInits
<1>3. CASE ~HasInit(p)
  <2> DEFINE t == Append(p.inits, InitContainer(p, cfg))
             N == Len(p.inits)
  <2>1. N \in Nat /\ DOMAIN p.inits = 1..N /\ IsSeq(p.inits)
    BY SeqForm DEF IsPod
  <2>2. IsSeq(t) /\ Len(t) = N + 1 /\ \A k \in 1..N : t[k] = p.inits[k]
    BY <2>1, AppendForm
  <2> HIDE DEF t, N
  <2>3. DOMAIN t = 1..N + 1
    BY <2>2, SeqForm
  <2>4. \A k \in 1..N : t[k].name # InitName
    BY <1>3, <2>1, <2>2 DEF HasInit
  <2>5. \A k \in DOMAIN t : t[k].name = InitName => k = N + 1
    BY <2>1, <2>3, <2>4
  <2>6. NewInits(p, cfg) = t
    BY <1>3 DEF NewInits, t
  <2> QED
    BY <1>1, <2>5, <2>6 DEF Mutated
<1> QED
  BY <1>2, <1>3

\* A list of two, in two parts.
LEMMA PairConcat ==
  ASSUME NEW a, NEW b
  PROVE  <<a>> \o <<b>> = <<a, b>>
<1>1. ASSUME NEW s, IsSeq(s), NEW t, IsSeq(t),
             Len(s) = 1, s[1] = a, Len(t) = 1, t[1] = b
      PROVE  s \o t = <<a, b>>
  <2> DEFINE u == s \o t
  <2>0. IsSeq(s) /\ IsSeq(t)
    BY <1>1
  <2>1. /\ IsSeq(u) /\ Len(u) = Len(s) + Len(t)
        /\ \A k \in 1..Len(s) : u[k] = s[k]
        /\ \A k \in 1..Len(t) : u[Len(s) + k] = t[k]
    BY <2>0, ConcatForm
  <2> HIDE DEF u
  <2>2. Len(u) = 2 /\ u[1] = a /\ u[2] = b /\ u \in Seq(ToSet(u))
    BY <1>1, <2>1 DEF IsSeq
  <2>3. u = <<a, b>>
    BY <2>2
  <2> QED
    BY <2>3 DEF u
<1>2. /\ IsSeq(<<a>>) /\ Len(<<a>>) = 1 /\ <<a>>[1] = a
      /\ IsSeq(<<b>>) /\ Len(<<b>>) = 1 /\ <<b>>[1] = b
  BY OneForm
<1> QED
  BY <1>1, <1>2, Zenon

\* The mounts of the init container, one by one: the secrets' volume at the path its
\* target says, and the volume of its provider.
LEMMA InitMounts ==
  ASSUME NEW p, NEW cfg
  PROVE  LET c == InitContainer(p, cfg) IN
         /\ c.name = InitName /\ Mount(SecretVolume, c.target) = SecretMount(p)
         /\ p.ann.provider = "local"
              => c.mounts = <<SecretMount(p), Mount(LocalVolume, cfg.localBase)>>
         /\ NeedsKeeperVolume(p, cfg)
              => c.mounts = <<SecretMount(p), Mount(KeeperVolume, KeeperMountDir(cfg))>>
         /\ p.ann.provider # "local" /\ ~NeedsKeeperVolume(p, cfg)
              => c.mounts = <<SecretMount(p)>>
<1> DEFINE a == SecretMount(p)
           l == Mount(LocalVolume, cfg.localBase)
           k == Mount(KeeperVolume, KeeperMountDir(cfg))
           c == InitContainer(p, cfg)
<1>1. /\ c.name = InitName /\ c.target = MountPath(p.ann)
      /\ c.mounts = (<<a>> \o (IF p.ann.provider = "local" THEN <<l>> ELSE <<>>))
                    \o (IF NeedsKeeperVolume(p, cfg) THEN <<k>> ELSE <<>>)
  BY DEF InitContainer, SecretMount
<1>2. p.ann.provider = "local" => ~NeedsKeeperVolume(p, cfg)
  BY DEF NeedsKeeperVolume
<1> HIDE DEF a, l, k, c
<1>3. /\ (<<a>> \o <<>>) \o <<>> = <<a>>
      /\ (<<a>> \o <<l>>) \o <<>> = <<a, l>>
      /\ (<<a>> \o <<>>) \o <<k>> = <<a, k>>
  <2>1. <<a>> \o <<>> = <<a>>
    OBVIOUS
  <2>2. <<a>> \o <<l>> = <<a, l>>
    BY PairConcat
  <2>3. <<a, l>> \o <<>> = <<a, l>>
    OBVIOUS
  <2>4. <<a>> \o <<k>> = <<a, k>>
    BY PairConcat
  <2> QED
    BY <2>1, <2>2, <2>3, <2>4
<1>4. /\ p.ann.provider = "local" => c.mounts = <<a, l>>
      /\ NeedsKeeperVolume(p, cfg) => c.mounts = <<a, k>>
      /\ p.ann.provider # "local" /\ ~NeedsKeeperVolume(p, cfg) => c.mounts = <<a>>
  BY <1>1, <1>2, <1>3
<1>5. Mount(SecretVolume, c.target) = a
  BY <1>1 DEF SecretMount, a
<1> QED
  BY <1>1, <1>4, <1>5 DEF a, l, k, c

\* The elements of a list are in every list that goes on from it.
LEMMA PrefixElements ==
  ASSUME NEW s, IsSeq(s), NEW t, IsSeq(t), IsPrefix(s, t)
  PROVE  ToSet(s) \subseteq ToSet(t)
<1> DEFINE S == ToSet(s) \cup ToSet(t)
<1>1. s \in Seq(S) /\ t \in Seq(S)
  BY SeqBoth
<1> HIDE DEF S
<1>2. /\ Len(s) \in Nat /\ Len(t) \in Nat /\ DOMAIN s = 1..Len(s) /\ DOMAIN t = 1..Len(t)
      /\ Len(s) <= Len(t) /\ SubSeq(s, 1, Len(s)) = SubSeq(t, 1, Len(s))
  BY SeqForm DEF IsPrefix
<1>3. \A k \in 1..Len(s) : k \in 1..Len(t) /\ t[k] = s[k]
  <2> SUFFICES ASSUME NEW k \in 1..Len(s) PROVE k \in 1..Len(t) /\ t[k] = s[k]
    OBVIOUS
  <2>1. SubSeq(s, 1, Len(s))[k] = s[k] /\ SubSeq(t, 1, Len(s))[k] = t[k]
    BY <1>1, <1>2
  <2> QED
    BY <1>2, <2>1
<1> QED
  BY <1>2, <1>3 DEF ToSet

\* A list of mounts at different places, and one more at another place.
LEMMA WithUnique ==
  ASSUME NEW s, IsSeq(s), NEW e,
         \A j, k \in DOMAIN s : s[j].at = s[k].at => j = k,
         \A x \in ToSet(s) : x.at = e.at => x = e
  PROVE  LET t == With(s, e) IN \A j, k \in DOMAIN t : t[j].at = t[k].at => j = k
<1>1. CASE Contains(s, e)
  BY <1>1 DEF With
<1>2. CASE ~Contains(s, e)
  <2> DEFINE t == Append(s, e)
             N == Len(s)
  <2>1. N \in Nat /\ DOMAIN s = 1..N
    BY SeqForm
  <2>2. IsSeq(t) /\ Len(t) = N + 1 /\ t[N + 1] = e /\ \A k \in 1..N : t[k] = s[k]
    BY AppendForm
  <2> HIDE DEF t
  <2>3. DOMAIN t = 1..N + 1
    BY <2>2, SeqForm
  <2>4. \A k \in 1..N : s[k].at # e.at
    BY <1>2, <2>1 DEF Contains, ToSet
  <2> HIDE DEF N
  <2>5. ASSUME NEW j \in DOMAIN t, NEW k \in DOMAIN t, t[j].at = t[k].at PROVE j = k
    <3>1. (j \in 1..N \/ j = N + 1) /\ (k \in 1..N \/ k = N + 1)
      BY <2>1, <2>3
    <3> QED
      BY <2>1, <2>2, <2>4, <2>5, <3>1
  <2> QED
    BY <1>2, <2>5 DEF With, t
<1> QED
  BY <1>1, <1>2
=============================================================================
