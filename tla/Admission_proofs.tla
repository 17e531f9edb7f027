-------------------------- MODULE Admission_proofs --------------------------
(***************************************************************************)
(* Proofs about Admission, for all requests, configurations and numbers of *)
(* changes and lost answers: what is answered, and what becomes of the pod.*)
(* What one answer does to one pod is proved in PodMutation_proofs.        *)
(***************************************************************************)
EXTENDS Admission, PodMutation_proofs

\* What no step changes: the kind of the request, and a group for every pod.
Given == dryRun \in BOOLEAN /\ cfg.fsGroup \notin {NoContext, Absent}

-----------------------------------------------------------------------------
(* What is answered, for any pod.                                          *)

\* The elements of lists of one and of two.
LEMMA PairElements ==
  ASSUME NEW a, NEW b
  PROVE  /\ ToSet(<<a>>) = {a} /\ DOMAIN <<a>> = {1}
         /\ ToSet(<<a, b>>) = {a, b} /\ DOMAIN <<a, b>> = {1, 2}
         /\ <<a, b>>[1] = a /\ <<a, b>>[2] = b
<1>1. DOMAIN <<a>> = {1} /\ <<a>>[1] = a
  OBVIOUS
<1>2. DOMAIN <<a, b>> = {1, 2} /\ <<a, b>>[1] = a /\ <<a, b>>[2] = b
  OBVIOUS
<1> QED
  BY <1>1, <1>2 DEF ToSet

\* An answer has one of the results the metrics know, and a dry run is not "mutated".
LEMMA AnswerTyped ==
  ASSUME NEW p, NEW c, NEW dry \in BOOLEAN
  PROVE  /\ Answer(p, c, dry).result \in Results
         /\ dry => Answer(p, c, dry).result # "mutated"
<1>1. CASE MutatePod(p, c).kind = "nil"
  BY <1>1 DEF Answer, Results
<1>2. CASE MutatePod(p, c).kind = "error"
  BY <1>2 DEF Answer, Results
<1>3. CASE MutatePod(p, c).kind = "patch" /\ dry
  BY <1>3 DEF Answer, Results
<1>4. CASE MutatePod(p, c).kind = "patch" /\ ~dry
  BY <1>4 DEF Answer, Results
<1>5. MutatePod(p, c).kind \in {"nil", "error", "patch"}
  BY DEF MutatePod
<1> QED
  BY <1>1, <1>2, <1>3, <1>4, <1>5

\* The answer by its three cases; with patches, the pod is the mutated one.
LEMMA AnswerCases ==
  ASSUME NEW p, IsPod(p), NEW c, NEW dry \in BOOLEAN
  PROVE  LET a == Answer(p, c, dry) IN
         /\ AllApplicable(p, a.patches) /\ IsPod(ApplyAll(p, a.patches))
         /\ \/ /\ a.result \in {"allowed", "error"}
               /\ a.patches = <<>> /\ ApplyAll(p, a.patches) = p
               /\ a.result = "allowed" => Ignored(p, c) \/ dry
            \/ /\ a.result = "mutated" /\ ~dry /\ ~Ignored(p, c) /\ ~Invalid(p, c)
               /\ a.patches = Patches(p, c) /\ ApplyAll(p, a.patches) = Mutated(p, c)
<1> DEFINE a == Answer(p, c, dry)
<1>1. ApplyAll(p, <<>>) = p /\ AllApplicable(p, <<>>)
  BY ApplyNone
<1>2. CASE Ignored(p, c)
  <2>1. a.result = "allowed" /\ a.patches = <<>>
    BY <1>2 DEF Answer, MutatePod
  <2> HIDE DEF a
  <2> QED
    BY <1>1, <1>2, <2>1 DEF a
<1>3. CASE ~Ignored(p, c) /\ Invalid(p, c)
  <2>1. a.result = "error" /\ a.patches = <<>>
    BY <1>3 DEF Answer, MutatePod
  <2> HIDE DEF a
  <2> QED
    BY <1>1, <2>1 DEF a
<1>4. CASE ~Ignored(p, c) /\ ~Invalid(p, c)
  <2>1. MutatePod(p, c) = [kind |-> "patch", patches |-> Patches(p, c)]
    BY <1>4, Zenon DEF MutatePod
  <2>2. CASE dry
    <3>1. a.result = "allowed" /\ a.patches = <<>>
      BY <2>1, <2>2 DEF Answer
    <3> HIDE DEF a
    <3> QED
      BY <1>1, <2>2, <3>1 DEF a
  <2>3. CASE ~dry
    <3>1. a.result = "mutated" /\ a.patches = Patches(p, c)
      BY <2>1, <2>3 DEF Answer
    <3> HIDE DEF a
    <3>2. /\ AllApplicable(p, a.patches) /\ ApplyAll(p, a.patches) = Mutated(p, c)
          /\ IsPod(Mutated(p, c))
      BY <3>1, PatchesMutate
    <3> QED
      BY <1>4, <2>3, <3>1, <3>2 DEF a
  <2> QED
    BY <2>2, <2>3
<1> QED
  BY <1>2, <1>3, <1>4

\* The last element of a list taken away.
LEMMA FrontForm ==
  ASSUME NEW s, IsSeq(s), s # <<>>
  PROVE  IsSeq(Front(s)) /\ ToSet(Front(s)) \subseteq ToSet(s)
<1> DEFINE S == ToSet(s)
           t == SubSeq(s, 1, Len(s) - 1)
<1>1. s \in Seq(S)
  BY DEF IsSeq
<1>2. Len(s) \in Nat /\ DOMAIN s = 1..Len(s)
  BY SeqForm
<1>3. Len(s) # 0
  BY <1>1
<1> HIDE DEF S
<1>4. t \in Seq(S) /\ Len(t) = Len(s) - 1 /\ DOMAIN t = 1..Len(s) - 1
  BY <1>1, <1>2, <1>3
<1>5. \A k \in DOMAIN t : t[k] \in S
  BY <1>4
<1>6. IsSeq(t)
  BY <1>4, SeqOver
<1> QED
  BY <1>5, <1>6 DEF Front, ToSet, S

\* A change by another webhook leaves a pod of the same namespace, with the annotations
\* it had or those a user may give it, and no init container but those it had and one
\* of the other webhook's.  It takes no volume away.
LEMMA ChangeKeeps ==
  ASSUME NEW p, IsPod(p), NEW q \in Changes(p)
  PROVE  /\ IsPod(q) /\ q.namespace = p.namespace
         /\ q.ann = p.ann \/ q.ann \in UserAnns
         /\ ToSet(q.inits) \subseteq ToSet(p.inits) \cup {OtherInit}
         /\ p.volumes # <<>> => q.volumes # <<>>
<1> DEFINE More(ms) == Append(p.containers, ms)
<1>1. IsSeq(p.volumes) /\ IsSeq(p.inits) /\ IsSeq(p.containers)
  BY DEF IsPod
<1>2. ASSUME NEW ms, IsSeq(ms)
      PROVE  IsSeq(More(ms)) /\ \A i \in DOMAIN More(ms) : IsSeq(More(ms)[i])
  <2> DEFINE t == More(ms)
             N == Len(p.containers)
  <2>1. N \in Nat /\ \A i \in 1..N : IsSeq(p.containers[i])
    BY SeqForm DEF IsPod
  <2>2. /\ IsSeq(t) /\ Len(t) = N + 1 /\ t[N + 1] = ms
        /\ \A i \in 1..N : t[i] = p.containers[i]
    BY <1>1, AppendForm
  <2> HIDE DEF t, N
  <2>3. DOMAIN t = 1..N + 1
    BY <2>2, SeqForm
  <2>4. \A i \in 1..N + 1 : i \in 1..N \/ i = N + 1
    BY <2>1
  <2>5. \A i \in DOMAIN t : IsSeq(t[i])
    BY <1>2, <2>1, <2>2, <2>3, <2>4
  <2> QED
    BY <2>2, <2>5 DEF t
<1> DEFINE m == <<Mount(OtherVolume, "/other")>>
<1>3. IsSeq(m) /\ IsSeq(<<>>)
  BY OneForm, NoneForm
<1> HIDE DEF m, More
<1>4. CASE q = [p EXCEPT !.containers = More(<<>>)]
  BY <1>1, <1>2, <1>3, <1>4 DEF IsPod
<1>5. CASE q = [p EXCEPT !.inits = Append(@, OtherInit)]
  <2>1. /\ IsSeq(Append(p.inits, OtherInit))
        /\ ToSet(Append(p.inits, OtherInit)) = ToSet(p.inits) \cup {OtherInit}
    BY <1>1, AppendForm, AppendElements
  <2> QED
    BY <1>5, <2>1 DEF IsPod
<1>6. CASE q = [p EXCEPT !.volumes = Append(@, OtherVolume), !.containers = More(m)]
  <2>1. IsSeq(Append(p.volumes, OtherVolume)) /\ Append(p.volumes, OtherVolume) # <<>>
    BY <1>1, AppendForm
  <2> QED
    BY <1>1, <1>2, <1>3, <1>6, <2>1 DEF IsPod
<1>7. ASSUME NEW a \in UserAnns, q = [p EXCEPT !.ann = a]
      PROVE  /\ IsPod(q) /\ q.namespace = p.namespace /\ q.ann \in UserAnns
             /\ q.inits = p.inits /\ q.volumes = p.volumes
  BY <1>7 DEF IsPod
<1>8. CASE q \in {[p EXCEPT !.group = Absent], [p EXCEPT !.group = UserGroup]}
  BY <1>8 DEF IsPod
<1>9. CASE p.inits # <<>> /\ q = [p EXCEPT !.inits = Front(@)]
  <2>1. IsSeq(Front(p.inits)) /\ ToSet(Front(p.inits)) \subseteq ToSet(p.inits)
    BY <1>1, <1>9, FrontForm
  <2> QED
    BY <1>9, <2>1 DEF IsPod
<1> QED
  BY <1>4, <1>5, <1>6, <1>7, <1>8, <1>9 DEF Changes, More, m

-----------------------------------------------------------------------------
(* The steps.                                                              *)

\* What a call with an answer does: it records both, and the pod is the one the
\* patches make, unless it is refused.
LEMMA ReviewDoes ==
  ASSUME IsPod(pod), dryRun \in BOOLEAN, Review
  PROVE  LET a == Answer(pod, cfg, dryRun) IN
         /\ last' = [seen |-> pod, result |-> a.result, patches |-> a.patches]
         /\ \/ a.result # "error" /\ pod' = ApplyAll(pod, a.patches) /\ phase' = phase
            \/ a.result = "error" /\ pod' = pod /\ phase' = "denied"
<1>1. AllApplicable(pod, Answer(pod, cfg, dryRun).patches)
  BY AnswerCases
<1> QED
  BY <1>1, Zenon DEF Review

\* A pod stays a pod.
LEMMA PodNext ==
  ASSUME IsPod(pod), dryRun \in BOOLEAN, [Next]_vars
  PROVE  IsPod(pod)'
<1>1. CASE Review
  <2>1. pod' \in {pod, ApplyAll(pod, Answer(pod, cfg, dryRun).patches)}
    BY <1>1, ReviewDoes
  <2>2. IsPod(ApplyAll(pod, Answer(pod, cfg, dryRun).patches))
    BY AnswerCases
  <2> QED
    BY <2>1, <2>2
<1>2. CASE OtherWebhook
  BY <1>2, ChangeKeeps DEF OtherWebhook
<1>3. CASE ReviewLost \/ Persist \/ UNCHANGED vars
  BY <1>3 DEF ReviewLost, Persist, vars
<1> QED
  BY <1>1, <1>2, <1>3 DEF Next

\* The types are kept by the calls, by the other webhooks and by the API server.
LEMMA TypeNext ==
  ASSUME TypeOK, dryRun \in BOOLEAN, [Next]_vars
  PROVE  TypeOK'
<1>0. IsPod(pod)'
  BY PodNext DEF TypeOK
<1>1. CASE Review
  <2>1. /\ Due /\ calls' = calls + 1 /\ UNCHANGED <<others, lost>>
        /\ dirty' = FALSE /\ phase' \in {phase, "denied"}
        /\ last'.result = Answer(pod, cfg, dryRun).result
    BY <1>1 DEF Review
  <2>2. calls' \in 0..2 /\ last'.result \in Results
    BY <2>1, AnswerTyped DEF Due
  <2>3. dirty' \in BOOLEAN
    BY <2>1, Zenon
  <2> QED
    BY <1>0, <2>1, <2>2, <2>3 DEF TypeOK
<1>2. CASE ReviewLost
  <2>1. /\ Due /\ calls' = calls + 1 /\ UNCHANGED <<last, others>>
        /\ dirty' = FALSE /\ phase' \in {phase, "denied"}
        /\ lost < MaxLost /\ lost' = lost + 1
    BY <1>2 DEF ReviewLost
  <2>2. calls' \in 0..2 /\ lost' \in 0..MaxLost
    BY <2>1, BoundAssumption DEF Due, TypeOK
  <2>3. dirty' \in BOOLEAN
    BY <2>1, Zenon
  <2> QED
    BY <1>0, <2>1, <2>2, <2>3 DEF TypeOK
<1>3. CASE OtherWebhook
  <2>1. /\ others < MaxOthers /\ others' = others + 1
        /\ UNCHANGED <<calls, last, phase, lost>>
    BY <1>3 DEF OtherWebhook
  <2>2. dirty' \in BOOLEAN
    <3>1. dirty' = (calls > 0)
      BY <1>3, Zenon DEF OtherWebhook
    <3>2. (calls > 0) \in BOOLEAN
      BY SMT
    <3> QED
      BY <3>1, <3>2, Zenon
  <2>3. others' \in 0..MaxOthers
    BY <2>1, BoundAssumption DEF TypeOK
  <2> QED
    BY <1>0, <2>1, <2>2, <2>3 DEF TypeOK
<1>4. CASE Persist
  <2>1. /\ phase' \in {"admitted", "invalid"}
        /\ UNCHANGED <<calls, dirty, last, others, lost>>
    BY <1>4 DEF Persist
  <2> QED
    BY <1>0, <2>1 DEF TypeOK
<1>5. CASE UNCHANGED vars
  BY <1>0, <1>5 DEF vars, TypeOK
<1> QED
  BY <1>1, <1>2, <1>3, <1>4, <1>5 DEF Next

\* Nothing about the request or the configuration changes.
LEMMA GivenAlways == Spec => []Given
<1>1. Init => Given
  BY RequestAssumption, Zenon DEF Init, Given
<1>2. [Next]_vars => UNCHANGED <<cfg, dryRun>>
  BY DEF Next, Review, ReviewLost, OtherWebhook, Persist, vars
<1>3. Given /\ [Next]_vars => Given'
  BY <1>2, Zenon DEF Given
<1> QED
  BY <1>1, <1>3, PTL DEF Spec

\* Every variable has its type; in particular a pod costs two calls at most.
THEOREM TypeCorrect == Spec => []TypeOK
<1>1. Init => TypeOK
  <2> SUFFICES ASSUME Init PROVE TypeOK
    OBVIOUS
  <2>1. IsPod(pod)
    BY RequestAssumption, Zenon DEF Init
  <2>2. calls = 0 /\ last = Absent /\ phase = "mutating" /\ others = 0 /\ lost = 0
    BY DEF Init
  <2>3. dirty \in BOOLEAN
    BY Zenon DEF Init
  <2> QED
    BY <2>1, <2>2, <2>3, BoundAssumption DEF TypeOK
<1>2. TypeOK /\ Given /\ [Next]_vars => TypeOK'
  BY TypeNext DEF Given
<1> QED
  BY <1>1, <1>2, GivenAlways, PTL DEF Spec

-----------------------------------------------------------------------------
(* The last answer, and the patches in it.                                 *)

\* The last answer is the one the pod it was given calls for.  A call was answered if
\* there was one, and the lost answer to a call denies the pod under a closed policy,
\* like an error.
LastRight == LET a == Answer(last.seen, cfg, dryRun) IN
             IsPod(last.seen) /\ last.result = a.result /\ last.patches = a.patches
Answered  == calls > 0 /\ cfg.failurePolicy = "Fail" /\ phase # "denied"
Right     == /\ last # Absent \/ Answered => LastRight
             /\ Answered => last.result # "error"

\* It stays the right answer: nothing it was made from changes.
LEMMA RightNext ==
  ASSUME TypeOK, Given, Right, [Next]_vars
  PROVE  Right'
<1>1. CASE Review
  <2>1. LET a == Answer(pod, cfg, dryRun) IN
        last' = [seen |-> pod, result |-> a.result, patches |-> a.patches]
    BY <1>1, ReviewDoes DEF TypeOK, Given
  <2>2. UNCHANGED <<cfg, dryRun>> /\ IsPod(pod)
    BY <1>1 DEF Review, TypeOK
  <2>3. LastRight'
    BY <2>1, <2>2 DEF LastRight
  <2>4. Answered' => last'.result # "error"
    BY <1>1, <2>1, ReviewDoes DEF Answered, TypeOK, Given
  <2> QED
    BY <2>3, <2>4 DEF Right
<1>2. CASE ReviewLost
  <2>1. /\ UNCHANGED <<cfg, dryRun, last>> /\ Due
        /\ phase' = IF cfg.failurePolicy = "Fail" THEN "denied" ELSE phase
    BY <1>2 DEF ReviewLost
  <2>2. ~Answered'
    BY <2>1 DEF Answered
  <2> QED
    BY <2>1, <2>2 DEF Right, LastRight
<1>3. CASE OtherWebhook
  BY <1>3 DEF OtherWebhook, Right, LastRight, Answered
<1>4. CASE Persist
  <2>1. UNCHANGED <<cfg, dryRun, last, calls>> /\ phase # "denied"
    BY <1>4 DEF Persist
  <2> QED
    BY <2>1 DEF Right, LastRight, Answered
<1>5. CASE UNCHANGED vars
  BY <1>5 DEF vars, Right, LastRight, Answered
<1> QED
  BY <1>1, <1>2, <1>3, <1>4, <1>5 DEF Next

\* The last answer is always the right one.
LEMMA RightAlways == Spec => []Right
<1>1. Init => Right
  <2> SUFFICES ASSUME Init PROVE Right
    OBVIOUS
  <2>1. calls = 0 /\ last = Absent
    BY DEF Init
  <2> QED
    BY <2>1 DEF Right, Answered
<1>2. TypeOK /\ Given /\ Right /\ [Next]_vars => Right'
  BY RightNext
<1> QED
  BY <1>1, <1>2, TypeCorrect, GivenAlways, PTL DEF Spec

\* Whatever the pod and whatever was done to it before, every operation of an answer
\* can be applied to it after those before it.
THEOREM PatchesAlwaysApply == Spec => []PatchesApply
<1>1. Right /\ Given => PatchesApply
  BY AnswerCases DEF Right, LastRight, Given, PatchesApply
<1> QED
  BY <1>1, RightAlways, GivenAlways, PTL

\* An answer puts no second volume and no second chur-init into any pod.
THEOREM NothingIsTwice == Spec => []NothingTwice
<1>1. ASSUME Right, Given PROVE NothingTwice
  <2> SUFFICES ASSUME last # Absent, NamesUnique(last.seen)
               PROVE  NamesUnique(ApplyAll(last.seen, last.patches))
    BY DEF NothingTwice
  <2>1. IsPod(last.seen) /\ last.patches = Answer(last.seen, cfg, dryRun).patches
    BY <1>1 DEF Right, LastRight
  <2>2. CASE ApplyAll(last.seen, last.patches) = last.seen
    BY <2>2
  <2>3. CASE ApplyAll(last.seen, last.patches) = Mutated(last.seen, cfg)
    BY <2>1, <2>3, MutatedUnique DEF NamesUnique
  <2> QED
    BY <1>1, <2>1, <2>2, <2>3, AnswerCases DEF Given
<1> QED
  BY <1>1, RightAlways, GivenAlways, PTL

\* A call takes nothing out of a pod and moves nothing in it.
THEOREM OthersAreKept == Spec => KeepsOthers
<1> DEFINE Kept == /\ Extends(pod, pod')
                   /\ DOMAIN pod'.containers = DOMAIN pod.containers
                   /\ pod.group \notin {NoContext, Absent} => pod'.group = pod.group
<1>1. ASSUME TypeOK, Given, Review PROVE Kept
  <2>1. IsPod(pod) /\ dryRun \in BOOLEAN
    BY <1>1 DEF TypeOK, Given
  <2>2. pod' = pod \/ pod' = ApplyAll(pod, Answer(pod, cfg, dryRun).patches)
    BY <1>1, <2>1, ReviewDoes
  <2>3. pod' = pod \/ pod' = Mutated(pod, cfg)
    BY <2>1, <2>2, AnswerCases
  <2>4. CASE pod' = pod
    <3>1. /\ IsSeq(pod.volumes) /\ IsSeq(pod.inits)
          /\ \A i \in DOMAIN pod.containers : IsSeq(pod.containers[i])
      BY <2>1 DEF IsPod
    <3> QED
      BY <2>4, <3>1, PrefixSelf DEF Extends
  <2>5. CASE pod' = Mutated(pod, cfg)
    BY <2>1, <2>5, MutatedKeeps DEF Extends
  <2> QED
    BY <2>3, <2>4, <2>5
<1>2. TypeOK /\ Given /\ [Next]_vars => [Review => Kept]_vars
  BY <1>1
<1> QED
  BY <1>2, TypeCorrect, GivenAlways, PTL DEF Spec, KeepsOthers

-----------------------------------------------------------------------------
(* A mutated pod needs nothing more, if it had a volume where the webhook  *)
(* mounts a client certificate: for one without, the patch for the second  *)
(* volume replaces the list that the patch for the first one made.         *)

\* A pod the certificate may be mounted for, with the annotations it has or may get.
MayMount(p, c) == /\ c.clientCert
                  /\ c.namespaces = {} \/ p.namespace \in c.namespaces
                  /\ \E a \in {p.ann} \cup UserAnns : a # Absent /\ a.provider = "keeper"

HasRoom(p, c) == MayMount(p, c) => p.volumes # <<>>

VolumesToGoOn == \A r \in Requests : HasRoom(r.pod, r.cfg)

\* The pod always has a volume then, and the last one that was seen had one.
Roomy == /\ HasRoom(pod, cfg)
         /\ last # Absent \/ Answered => HasRoom(last.seen, cfg)

\* In a mutated pod that has room no patch replaces the list another one made.
LEMMA RoomOfMutated ==
  ASSUME NEW p, NEW c, ~Ignored(p, c), HasRoom(p, c)
  PROVE  p.ann # Absent /\ RoomForBoth(p, c)
<1>1. p.ann # Absent /\ (c.namespaces = {} \/ p.namespace \in c.namespaces)
  BY DEF Ignored
<1>2. NeedsKeeperVolume(p, c) => MayMount(p, c)
  BY <1>1 DEF NeedsKeeperVolume, MayMount
<1> QED
  BY <1>1, <1>2 DEF HasRoom, RoomForBoth

\* Neither a call nor another webhook takes the last volume away.
LEMMA RoomyNext ==
  ASSUME TypeOK, Given, Roomy, [Next]_vars
  PROVE  Roomy'
<1>0. IsPod(pod) /\ dryRun \in BOOLEAN
  BY DEF TypeOK, Given
<1>1. CASE Review
  <2>1. cfg' = cfg /\ HasRoom(pod, cfg)
    BY <1>1 DEF Review, Roomy
  <2>2. last'.seen = pod
    BY <1>0, <1>1, ReviewDoes
  <2>3. pod' = pod \/ (pod' = Mutated(pod, cfg) /\ ~Ignored(pod, cfg))
    BY <1>0, <1>1, ReviewDoes, AnswerCases
  <2>4. CASE pod' = Mutated(pod, cfg) /\ ~Ignored(pod, cfg)
    <3>1. RoomForBoth(pod, cfg)
      BY <2>1, <2>4, RoomOfMutated
    <3>2. pod'.volumes # <<>>
      BY <1>0, <2>4, <3>1, NewVolumesHave DEF Mutated
    <3> QED
      BY <2>1, <2>2, <3>2 DEF Roomy, HasRoom
  <2> QED
    BY <2>1, <2>2, <2>3, <2>4 DEF Roomy
<1>2. CASE ReviewLost
  <2>1. /\ UNCHANGED <<cfg, pod, last>>
        /\ phase' = IF cfg.failurePolicy = "Fail" THEN "denied" ELSE phase
    BY <1>2 DEF ReviewLost
  <2>2. ~Answered'
    BY <2>1 DEF Answered
  <2> QED
    BY <2>1, <2>2 DEF Roomy
<1>3. CASE OtherWebhook
  <2>1. UNCHANGED <<cfg, last, calls, phase>> /\ pod' \in Changes(pod)
    BY <1>3 DEF OtherWebhook
  <2>2. /\ pod.volumes # <<>> => pod'.volumes # <<>>
        /\ pod'.namespace = pod.namespace
        /\ pod'.ann = pod.ann \/ pod'.ann \in UserAnns
    BY <1>0, <2>1, ChangeKeeps
  <2>3. MayMount(pod', cfg) => MayMount(pod, cfg)
    BY <2>2 DEF MayMount
  <2>4. HasRoom(pod', cfg)
    BY <2>2, <2>3 DEF Roomy, HasRoom
  <2> QED
    BY <2>1, <2>4 DEF Roomy, Answered
<1>4. CASE Persist
  <2>1. UNCHANGED <<cfg, pod, last, calls>> /\ phase # "denied"
    BY <1>4 DEF Persist
  <2> QED
    BY <2>1 DEF Roomy, Answered
<1>5. CASE UNCHANGED vars
  BY <1>5 DEF vars, Roomy, Answered
<1> QED
  BY <1>1, <1>2, <1>3, <1>4, <1>5 DEF Next

\* There is a volume to go on from at all times.
LEMMA RoomyAlways ==
  ASSUME VolumesToGoOn
  PROVE  Spec => []Roomy
<1>1. Init => Roomy
  <2> SUFFICES ASSUME Init PROVE Roomy
    OBVIOUS
  <2>1. PICK r \in Requests : cfg = r.cfg /\ pod = r.pod
    BY DEF Init
  <2>2. calls = 0 /\ last = Absent
    BY DEF Init
  <2> QED
    BY <2>1, <2>2, VolumesToGoOn DEF Roomy, Answered, VolumesToGoOn
<1>2. TypeOK /\ Given /\ Roomy /\ [Next]_vars => Roomy'
  BY RoomyNext
<1> QED
  BY <1>1, <1>2, TypeCorrect, GivenAlways, PTL DEF Spec

\* A pod that left the webhook mutated is one it has nothing more to add to, however
\* it came to be.
THEOREM MutationIsIdempotent ==
  ASSUME VolumesToGoOn
  PROVE  Spec => []Idempotent
<1>1. ASSUME Right, Given, Roomy PROVE Idempotent
  <2> SUFFICES ASSUME last # Absent, last.result = "mutated"
               PROVE  Patches(ApplyAll(last.seen, last.patches), cfg) = <<>>
    BY DEF Idempotent
  <2>1. /\ IsPod(last.seen) /\ Answer(last.seen, cfg, dryRun).result = "mutated"
        /\ last.patches = Answer(last.seen, cfg, dryRun).patches
    BY <1>1 DEF Right, LastRight
  <2>2. ApplyAll(last.seen, last.patches) = Mutated(last.seen, cfg)
    BY <1>1, <2>1, AnswerCases DEF Given
  <2>3. RoomForBoth(last.seen, cfg)
    <3>1. ~Ignored(last.seen, cfg)
      BY <1>1, <2>1, AnswerCases DEF Given
    <3> QED
      BY <1>1, <3>1, RoomOfMutated DEF Roomy
  <2> QED
    BY <1>1, <2>1, <2>2, <2>3, NothingMore DEF Given
<1> QED
  BY <1>1, RoomyAlways, GivenAlways, RightAlways, PTL

-----------------------------------------------------------------------------
(* The init container.  Whose a container called chur-init is, the mutator *)
(* does not see: what follows is about pods that come without one, or with *)
(* one it made.  It may have made it for another pod: the annotations and  *)
(* the group it was made for can be others by now.                         *)

Made(x, c) == \E q : /\ ~Ignored(q, c) /\ ~Invalid(q, c)
                     /\ x = InitContainer(q, c)

Ours(p, c) == \A x \in ToSet(p.inits) : x.name = InitName => Made(x, c)

NameIsOurs == \A r \in Requests : Ours(r.pod, r.cfg)

\* A mutated pod has a chur-init, and the webhook made it.
LEMMA OursMutated ==
  ASSUME NEW p, IsPod(p), NEW c, Ours(p, c), ~Ignored(p, c), ~Invalid(p, c)
  PROVE  LET m == Mutated(p, c) IN
         Ours(m, c) /\ \E x \in ToSet(m.inits) : x.name = InitName
<1> DEFINE m == Mutated(p, c)
           y == InitContainer(p, c)
<1>1. /\ HasInit(p) => ToSet(m.inits) = ToSet(p.inits)
      /\ ~HasInit(p) => ToSet(m.inits) = ToSet(p.inits) \cup {y}
  BY MutatedHas
<1>2. y.name = InitName /\ Made(y, c)
  BY DEF InitContainer, Made
<1>3. HasInit(p) => \E x \in ToSet(p.inits) : x.name = InitName
  BY DEF HasInit, ToSet
<1> HIDE DEF m, y
<1>4. Ours(m, c)
  BY <1>1, <1>2 DEF Ours
<1>5. \E x \in ToSet(m.inits) : x.name = InitName
  BY <1>1, <1>2, <1>3
<1> QED
  BY <1>4, <1>5 DEF m

\* It stays so when another webhook changes the pod.
LEMMA OursChanged ==
  ASSUME NEW p, IsPod(p), NEW c, Ours(p, c), NEW q \in Changes(p)
  PROVE  Ours(q, c)
<1>1. OtherInit.name # InitName
  BY DEF OtherInit, InitName
<1> QED
  BY <1>1, ChangeKeeps DEF Ours

\* The pod, and the one that was seen last.
OursNow == /\ Ours(pod, cfg)
           /\ last # Absent \/ Answered => Ours(last.seen, cfg)

\* No step makes it another one.
LEMMA OursNext ==
  ASSUME TypeOK, Given, OursNow, [Next]_vars
  PROVE  OursNow'
<1>0. IsPod(pod) /\ dryRun \in BOOLEAN
  BY DEF TypeOK, Given
<1>1. CASE Review
  <2>1. cfg' = cfg /\ Ours(pod, cfg)
    BY <1>1 DEF Review, OursNow
  <2>2. last'.seen = pod
    BY <1>0, <1>1, ReviewDoes
  <2>3. \/ pod' = pod
        \/ pod' = Mutated(pod, cfg) /\ ~Ignored(pod, cfg) /\ ~Invalid(pod, cfg)
    BY <1>0, <1>1, ReviewDoes, AnswerCases
  <2>4. Ours(pod', cfg)
    BY <1>0, <2>1, <2>3, OursMutated
  <2> QED
    BY <2>1, <2>2, <2>4 DEF OursNow
<1>2. CASE ReviewLost
  <2>1. /\ UNCHANGED <<cfg, pod, last>>
        /\ phase' = IF cfg.failurePolicy = "Fail" THEN "denied" ELSE phase
    BY <1>2 DEF ReviewLost
  <2>2. ~Answered'
    BY <2>1 DEF Answered
  <2> QED
    BY <2>1, <2>2 DEF OursNow
<1>3. CASE OtherWebhook
  <2>1. UNCHANGED <<cfg, last, calls, phase>> /\ pod' \in Changes(pod)
    BY <1>3 DEF OtherWebhook
  <2> QED
    BY <1>0, <2>1, OursChanged DEF OursNow, Answered
<1>4. CASE Persist
  <2>1. UNCHANGED <<cfg, pod, last, calls>> /\ phase # "denied"
    BY <1>4 DEF Persist
  <2> QED
    BY <2>1 DEF OursNow, Answered
<1>5. CASE UNCHANGED vars
  BY <1>5 DEF vars, OursNow, Answered
<1> QED
  BY <1>1, <1>2, <1>3, <1>4, <1>5 DEF Next

\* It is the webhook's at all times.
LEMMA OursAlways ==
  ASSUME NameIsOurs
  PROVE  Spec => []OursNow
<1>1. Init => OursNow
  <2> SUFFICES ASSUME Init PROVE OursNow
    OBVIOUS
  <2>1. PICK r \in Requests : cfg = r.cfg /\ pod = r.pod
    BY DEF Init
  <2>2. calls = 0 /\ last = Absent
    BY DEF Init
  <2> QED
    BY <2>1, <2>2, NameIsOurs DEF OursNow, Answered, NameIsOurs
<1>2. TypeOK /\ Given /\ OursNow /\ [Next]_vars => OursNow'
  BY OursNext
<1> QED
  BY <1>1, <1>2, TypeCorrect, GivenAlways, PTL DEF Spec

\* What is mounted in an init container the webhook made.
LEMMA MadeMounts ==
  ASSUME NEW p, NEW c
  PROVE  LET x == InitContainer(p, c) IN
         /\ SecretMount(p) \in ToSet(x.mounts)
         /\ p.ann.provider = "local" => Mount(LocalVolume, c.localBase) \in ToSet(x.mounts)
         /\ p.ann.provider = "keeper" =>
              \A d : Mount(KeeperVolume, d) \in ToSet(x.mounts)
                       <=> c.clientCert /\ d = KeeperMountDir(c)
<1> DEFINE x == InitContainer(p, c)
           e == SecretMount(p)
           l == Mount(LocalVolume, c.localBase)
           q == Mount(KeeperVolume, KeeperMountDir(c))
<1>1. ToSet(<<e>>) = {e} /\ ToSet(<<e, l>>) = {e, l} /\ ToSet(<<e, q>>) = {e, q}
  BY PairElements
<1>2. /\ p.ann.provider = "local" => x.mounts = <<e, l>>
      /\ NeedsKeeperVolume(p, c) => x.mounts = <<e, q>>
      /\ p.ann.provider # "local" /\ ~NeedsKeeperVolume(p, c) => x.mounts = <<e>>
  BY InitMounts
<1>3. /\ \A d : Mount(KeeperVolume, d) # e
      /\ \A d : Mount(KeeperVolume, d) = q <=> d = KeeperMountDir(c)
  BY DEF SecretMount, Mount, KeeperVolume, SecretVolume
<1> HIDE DEF e, l, q, x
<1>4. /\ p.ann.provider = "local" => ToSet(x.mounts) = {e, l}
      /\ NeedsKeeperVolume(p, c) => ToSet(x.mounts) = {e, q}
      /\ p.ann.provider # "local" /\ ~NeedsKeeperVolume(p, c) => ToSet(x.mounts) = {e}
  BY <1>1, <1>2
<1>5. ASSUME p.ann.provider = "keeper", NEW d
      PROVE  Mount(KeeperVolume, d) \in ToSet(x.mounts)
               <=> c.clientCert /\ d = KeeperMountDir(c)
  BY <1>3, <1>4, <1>5 DEF NeedsKeeperVolume
<1>6. e \in ToSet(x.mounts) /\ (p.ann.provider = "local" => l \in ToSet(x.mounts))
  BY <1>4
<1> QED
  BY <1>5, <1>6 DEF e, l, x

\* Of the containers the webhook makes, exactly those start whose settings fit.
LEMMA ContainerStarts ==
  ASSUME NEW p, NEW c, ~Invalid(p, c)
  PROVE  LET x == InitContainer(p, c) IN Starts(x) <=> Fits(x, c)
<1> DEFINE x == InitContainer(p, c)
<1>1. p.ann.provider \in Providers /\ p.ann.ref \in Refs(p.ann.provider)
  BY DEF Invalid
<1>2. x.provider = p.ann.provider /\ x.image = c.image /\ x.env = InitEnv(p, c)
  BY DEF InitContainer
<1>3. /\ p.ann.provider = "local" => Mount(LocalVolume, c.localBase) \in ToSet(x.mounts)
      /\ p.ann.provider = "keeper" =>
           \A d : Mount(KeeperVolume, d) \in ToSet(x.mounts)
                    <=> c.clientCert /\ d = KeeperMountDir(c)
  BY MadeMounts
<1> HIDE DEF x
<1>4. x.env.ref = p.ann.ref /\ x.env.base = c.localBase
  BY <1>2 DEF InitEnv
<1>5. x.provider = "local" => LocalStarts(x)
  BY <1>2, <1>3, <1>4 DEF LocalStarts
<1>6. ASSUME p.ann.provider = "keeper"
      PROVE  KeeperStarts(x) <=> FitsKeeper(c, x.env.skipVerify)
  <2>1. /\ x.env.cert = c.certPath /\ x.env.key = c.keyPath
        /\ x.env.serverCA = c.serverCA /\ x.env.limit = c.clientMax
    BY <1>2, <1>6 DEF InitEnv
  <2> DEFINE Good(f) == c.clientCert /\ f.dir = CertDir(c) /\ f.name \in SecretFiles
  <2>2. \A f : Readable(x, f) <=> Good(f)
    BY <1>3, <1>6 DEF Readable, CertDir, KeeperMountDir
  <2> DEFINE both == c.certPath # Absent /\ c.keyPath # Absent
  <2>3. (\A f \in FilesRead(c) \ {Absent} : Good(f))
          <=> /\ c.serverCA # Absent => Good(c.serverCA)
              /\ both => Good(c.certPath) /\ Good(c.keyPath)
    <3> HIDE DEF Good
    <3>1. CASE both
      <4>1. FilesRead(c) = {c.serverCA, c.certPath, c.keyPath}
        BY <3>1 DEF FilesRead
      <4> QED
        BY <3>1, <4>1
    <3>2. CASE ~both
      <4>1. FilesRead(c) = {c.serverCA}
        BY <3>2 DEF FilesRead
      <4> QED
        BY <3>2, <4>1
    <3> QED
      BY <3>1, <3>2
  <2>4. FitsKeeper(c, x.env.skipVerify)
          <=> /\ c.clientMax # "bad" /\ (x.env.skipVerify => c.serverCA = Absent)
              /\ \A f \in FilesRead(c) \ {Absent} : Good(f)
    BY DEF FitsKeeper
  <2>5. KeeperStarts(x)
          <=> /\ ~(x.env.skipVerify /\ c.serverCA # Absent)
              /\ c.serverCA # Absent => Readable(x, c.serverCA)
              /\ both => Readable(x, c.certPath) /\ Readable(x, c.keyPath)
              /\ c.clientMax # "bad"
    BY <2>1, Zenon DEF KeeperStarts
  <2> HIDE DEF Good, both
  <2>6. (x.env.skipVerify => c.serverCA = Absent) <=> ~(x.env.skipVerify /\ c.serverCA # Absent)
    OBVIOUS
  <2> QED
    BY <2>2, <2>3, <2>4, <2>5, <2>6
<1>7. Starts(x) <=> Fits(x, c)
  BY <1>1, <1>2, <1>4, <1>5, <1>6 DEF Starts, Fits
<1> QED
  BY <1>7 DEF x

\* Whatever the other webhooks did, an admitted chur-init starts if and only if the
\* settings of the webhook fit the provider it was made for.
THEOREM FittingAlwaysStarts ==
  ASSUME NameIsOurs
  PROVE  Spec => []StartsIfItFits
<1>1. OursNow => StartsIfItFits
  BY ContainerStarts DEF OursNow, Ours, Made, StartsIfItFits
<1> QED
  BY <1>1, OursAlways, PTL

-----------------------------------------------------------------------------
(* What is stored.                                                         *)

\* A pod that is stored has been called for and not denied.
LEMMA StoredWasCalled == Spec => [](phase = "admitted" => calls > 0)
<1>1. Init => (phase = "admitted" => calls > 0)
  BY DEF Init
<1>2. ASSUME TypeOK, phase = "admitted" => calls > 0, [Next]_vars
      PROVE  (phase = "admitted" => calls > 0)'
  <2>1. CASE Review
    BY <1>2, <2>1 DEF Review, Due, TypeOK
  <2>2. CASE ReviewLost
    BY <1>2, <2>2 DEF ReviewLost, Due, TypeOK
  <2>3. CASE OtherWebhook
    BY <1>2, <2>3 DEF OtherWebhook
  <2>4. CASE Persist
    BY <1>2, <2>4 DEF Persist
  <2>5. CASE UNCHANGED vars
    BY <1>2, <2>5 DEF vars
  <2> QED
    BY <1>2, <2>1, <2>2, <2>3, <2>4, <2>5 DEF Next
<1> QED
  BY <1>1, <1>2, TypeCorrect, PTL DEF Spec

\* What an answer makes of a pod it lets pass: the secret is where its annotations want
\* it, and there is an init container that writes it.
LEMMA MutatedInjects ==
  ASSUME NEW p, IsPod(p), NEW c, Ours(p, c), ~Ignored(p, c), ~Invalid(p, c)
  PROVE  LET m == Mutated(p, c) IN
         /\ \E x \in ToSet(m.inits) :
              x.name = InitName /\ Mount(SecretVolume, x.target) \in ToSet(x.mounts)
         /\ \A i \in DOMAIN p.containers :
              i \in DOMAIN m.containers /\ SecretMount(p) \in ToSet(m.containers[i])
<1> DEFINE m == Mutated(p, c)
<1>1. PICK x \in ToSet(m.inits) : x.name = InitName /\ Made(x, c)
  BY OursMutated DEF Ours
<1>2. PICK q : x = InitContainer(q, c)
  BY <1>1 DEF Made
<1>3. Mount(SecretVolume, x.target) \in ToSet(x.mounts)
  <2>1. SecretMount(q) = Mount(SecretVolume, x.target)
    BY <1>2 DEF InitContainer, SecretMount
  <2> QED
    BY <1>2, <2>1, MadeMounts
<1>4. \A i \in DOMAIN p.containers :
        i \in DOMAIN m.containers /\ SecretMount(p) \in ToSet(m.containers[i])
  BY MutatedHas, MutatedKeeps
<1> QED
  BY <1>1, <1>3, <1>4

\* Under a closed policy no annotated pod of an allowed namespace is stored without
\* its init container, nor with a container, of those the webhook has seen, without
\* the secret, unless another webhook took away what the last answer left.
THEOREM StoredIsAlwaysInjected ==
  ASSUME NameIsOurs
  PROVE  Spec => []StoredIsInjected
<1>1. ASSUME TypeOK, Given, Right, OursNow, phase = "admitted" => calls > 0
      PROVE  StoredIsInjected
  <2> DEFINE seen == last.seen
             m == Mutated(seen, cfg)
  <2> SUFFICES ASSUME phase = "admitted", cfg.failurePolicy = "Fail", ~dryRun,
                      ~Ignored(seen, cfg), Extends(ApplyAll(seen, last.patches), pod)
               PROVE  /\ \E x \in ToSet(pod.inits) :
                           x.name = InitName /\ Mount(SecretVolume, x.target) \in ToSet(x.mounts)
                      /\ \A i \in DOMAIN seen.containers :
                           Mount(SecretVolume, MountPath(seen.ann)) \in ToSet(pod.containers[i])
    BY DEF StoredIsInjected
  <2>1. Answered
    BY <1>1 DEF Answered
  <2>2. IsPod(seen) /\ Ours(seen, cfg) /\ IsPod(pod)
    BY <1>1, <2>1 DEF Right, LastRight, OursNow, TypeOK
  <2>3. LET a == Answer(seen, cfg, dryRun) IN
        last.result = a.result /\ last.patches = a.patches /\ a.result # "error"
    BY <1>1, <2>1 DEF Right, LastRight
  <2> HIDE DEF seen
  <2>4. ~Invalid(seen, cfg) /\ ApplyAll(seen, last.patches) = m
    BY <1>1, <2>2, <2>3, AnswerCases DEF Given
  <2>5. /\ \E x \in ToSet(m.inits) :
             x.name = InitName /\ Mount(SecretVolume, x.target) \in ToSet(x.mounts)
        /\ \A i \in DOMAIN seen.containers :
             i \in DOMAIN m.containers /\ SecretMount(seen) \in ToSet(m.containers[i])
    BY <2>2, <2>4, MutatedInjects
  <2>6. IsPod(m) /\ Extends(m, pod)
    BY <2>2, <2>4, PatchesMutate
  <2> HIDE DEF m
  <2>7. ToSet(m.inits) \subseteq ToSet(pod.inits)
    BY <2>2, <2>6, PrefixElements DEF Extends, IsPod
  <2>8. ASSUME NEW i \in DOMAIN m.containers
        PROVE  ToSet(m.containers[i]) \subseteq ToSet(pod.containers[i])
    BY <2>2, <2>6, PrefixElements DEF Extends, IsPod
  <2> QED
    BY <2>5, <2>7, <2>8 DEF SecretMount
<1> QED
  BY <1>1, TypeCorrect, GivenAlways, RightAlways, OursAlways, StoredWasCalled, PTL

-----------------------------------------------------------------------------
(* Validity.                                                               *)

\* A mutated pod that had room for its volumes, and nothing where the webhook mounts
\* the secret, is valid if it was.
LEMMA ValidMutated ==
  ASSUME NEW p, IsPod(p), NEW c, p.ann # Absent, RoomForBoth(p, c), Valid(p), PathsFree(p, c)
  PROVE  Valid(Mutated(p, c))
<1> DEFINE m == Mutated(p, c)
           x == InitContainer(p, c)
           e == SecretMount(p)
<1>1. NamesUnique(m)
  BY MutatedUnique DEF Valid, NamesUnique
<1>2. /\ MountsResolve(p) /\ PathsUnique(p) /\ IsPod(m)
      /\ IsSeq(p.volumes) /\ \A i \in DOMAIN p.containers : IsSeq(p.containers[i])
  BY PatchesMutate DEF Valid, IsPod
<1>3. /\ IsSeq(m.volumes) /\ ToSet(p.volumes) \subseteq ToSet(m.volumes)
      /\ SecretVolume \in ToSet(m.volumes)
      /\ p.ann.provider = "local" => LocalVolume \in ToSet(m.volumes)
      /\ NeedsKeeperVolume(p, c) => KeeperVolume \in ToSet(m.volumes)
  <2>1. IsSeq(m.volumes) /\ IsPrefix(p.volumes, m.volumes) /\ m.volumes = NewVolumes(p, c)
    BY <1>2, MutatedKeeps DEF IsPod, Mutated
  <2> HIDE DEF m
  <2> QED
    BY <1>2, <2>1, PrefixElements, NewVolumesHave, ContainsElements
<1>4. /\ \A y \in ToSet(x.mounts) : y.volume \in ToSet(m.volumes)
      /\ \A j, k \in DOMAIN x.mounts : x.mounts[j].at = x.mounts[k].at => j = k
  <2> DEFINE l == Mount(LocalVolume, c.localBase)
             q == Mount(KeeperVolume, KeeperMountDir(c))
  <2>1. /\ e.volume = SecretVolume /\ e.at = MountPath(p.ann)
        /\ l.volume = LocalVolume /\ l.at = c.localBase
        /\ q.volume = KeeperVolume /\ q.at = KeeperMountDir(c)
    BY DEF SecretMount, Mount
  <2>2. /\ p.ann.provider = "local" => x.mounts = <<e, l>> /\ e.at # l.at
        /\ NeedsKeeperVolume(p, c) => x.mounts = <<e, q>> /\ e.at # q.at
        /\ p.ann.provider # "local" /\ ~NeedsKeeperVolume(p, c) => x.mounts = <<e>>
    BY <2>1, InitMounts DEF PathsFree
  <2> HIDE DEF e, l, q, x, m
  <2>3. CASE x.mounts = <<e>>
    <3>1. ToSet(<<e>>) = {e} /\ DOMAIN <<e>> = {1}
      BY PairElements
    <3> QED
      BY <1>3, <2>1, <2>3, <3>1
  <2>4. ASSUME NEW f, x.mounts = <<e, f>>, e.at # f.at, f.volume \in ToSet(m.volumes)
        PROVE  /\ \A y \in ToSet(x.mounts) : y.volume \in ToSet(m.volumes)
               /\ \A j, k \in DOMAIN x.mounts : x.mounts[j].at = x.mounts[k].at => j = k
    <3>1. /\ ToSet(<<e, f>>) = {e, f} /\ DOMAIN <<e, f>> = {1, 2}
          /\ <<e, f>>[1] = e /\ <<e, f>>[2] = f
      BY PairElements
    <3>2. \A y \in ToSet(x.mounts) : y.volume \in ToSet(m.volumes)
      BY <1>3, <2>1, <2>4, <3>1
    <3>3. \A j, k \in {1, 2} : <<e, f>>[j].at = <<e, f>>[k].at => j = k
      BY <2>4, <3>1
    <3> QED
      BY <2>4, <3>1, <3>2, <3>3
  <2> QED
    BY <1>3, <2>1, <2>2, <2>3, <2>4
<1>5. ASSUME NEW ms \in AllMounts(m)
      PROVE  \/ ms \in AllMounts(p)
             \/ ms = x.mounts
             \/ \E s \in ToSet(p.containers) : IsSeq(s) /\ ms = With(s, e)
  <2>1. CASE ms \in ToSet(m.containers)
    <3>1. DOMAIN m.containers = DOMAIN p.containers
      BY MutatedKeeps
    <3>2. PICK i \in DOMAIN p.containers : ms = m.containers[i]
      BY <2>1, <3>1 DEF ToSet
    <3>3. ms = With(p.containers[i], e)
      BY <3>2 DEF Mutated, NewContainers
    <3>4. p.containers[i] \in ToSet(p.containers) /\ IsSeq(p.containers[i])
      BY <1>2 DEF ToSet
    <3> QED
      BY <3>3, <3>4
  <2>2. CASE ms \in {z.mounts : z \in ToSet(m.inits)}
    <3>1. \/ ToSet(m.inits) = ToSet(p.inits)
          \/ ToSet(m.inits) = ToSet(p.inits) \cup {x}
      BY MutatedHas
    <3> HIDE DEF m, x
    <3>2. PICK z \in ToSet(p.inits) \cup {x} : ms = z.mounts
      BY <2>2, <3>1
    <3> QED
      BY <3>2 DEF AllMounts
  <2> QED
    BY <1>5, <2>1, <2>2 DEF AllMounts
<1>6. ASSUME NEW s \in ToSet(p.containers), IsSeq(s)
      PROVE  /\ \A y \in ToSet(With(s, e)) : y.volume \in ToSet(m.volumes)
             /\ LET t == With(s, e) IN \A j, k \in DOMAIN t : t[j].at = t[k].at => j = k
  <2>1. s \in AllMounts(p)
    BY DEF AllMounts
  <2>2. \A y \in ToSet(s) : y.volume \in ToSet(m.volumes)
    BY <1>2, <1>3, <2>1 DEF MountsResolve
  <2>3. \A j, k \in DOMAIN s : s[j].at = s[k].at => j = k
    BY <1>2, <2>1 DEF PathsUnique
  <2>4. e.volume = SecretVolume /\ e.at = MountPath(p.ann)
    BY DEF SecretMount, Mount
  <2>5. \A y \in ToSet(s) : y.at = e.at => y = e
    BY <2>4 DEF PathsFree, SecretMount
  <2> HIDE DEF e, m
  <2>6. ToSet(With(s, e)) \subseteq ToSet(s) \cup {e}
    BY <1>6, AppendElements DEF With
  <2> QED
    BY <1>3, <1>6, <2>2, <2>3, <2>4, <2>5, <2>6, WithUnique
<1> HIDE DEF m, x, e
<1>7. MountsResolve(m)
  BY <1>2, <1>3, <1>4, <1>5, <1>6 DEF MountsResolve
<1>8. PathsUnique(m)
  BY <1>2, <1>4, <1>5, <1>6 DEF PathsUnique
<1> QED
  BY <1>1, <1>7, <1>8 DEF Valid, m

\* The webhook leaves every valid pod valid that has a volume where there is a client
\* certificate to mount, and nothing mounted where the secret goes.
THEOREM ValidStaysValid ==
  ASSUME VolumesToGoOn
  PROVE  Spec => []StaysValid
<1>1. ASSUME Right, Given, Roomy PROVE StaysValid
  <2> SUFFICES ASSUME last # Absent, Valid(last.seen), PathsFree(last.seen, cfg)
               PROVE  Valid(ApplyAll(last.seen, last.patches))
    BY DEF StaysValid
  <2>1. IsPod(last.seen) /\ last.patches = Answer(last.seen, cfg, dryRun).patches
    BY <1>1 DEF Right, LastRight
  <2>2. CASE ApplyAll(last.seen, last.patches) = last.seen
    BY <2>2
  <2>3. CASE ~Ignored(last.seen, cfg) /\ ApplyAll(last.seen, last.patches) = Mutated(last.seen, cfg)
    <3>1. last.seen.ann # Absent /\ RoomForBoth(last.seen, cfg)
      BY <1>1, <2>3, RoomOfMutated DEF Roomy
    <3> QED
      BY <2>1, <2>3, <3>1, ValidMutated
  <2> QED
    BY <1>1, <2>1, <2>2, <2>3, AnswerCases DEF Given
<1> QED
  BY <1>1, RoomyAlways, GivenAlways, RightAlways, PTL
=============================================================================
