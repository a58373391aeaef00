------------------------ MODULE MotionScripterProofs ------------------------
(* The head is up until its stow, and a think is not cut, for every timing,   *)
(* every number of turns, inputs and lost scripts.                            *)
EXTENDS MotionScripter, TLAPS

Poses == {"none", "look", "turn", "cue", "keep", WakePose}
Wants == [kind : {"Quiet", "Hold", "Closing", "Stowing"}, at : Poses, stow_at : Int]
Facts == [done : BOOLEAN, awaiting : Nat, horizon : Int]
Pods == [turn : Nat, end : {"none", "Closed", "Open"}, audio : Facts, want : Wants,
         running : Int, refresh : Int, gaze : {"none", "look"}]
Scripts == [up : BOOLEAN, stow : Int, timeout : Int, landed : BOOLEAN, newer : Nat]
Answers == [pod : Pods, out : Scripts]

TypeOK ==
  /\ pod \in Pods /\ slot \in Scripts /\ sent \in Scripts /\ attempts \in Nat
  /\ ppc \in {"idle", "publishing", "backoff", "ended"}
  /\ daemon \in Int /\ behind \in Nat /\ torn \in BOOLEAN
  /\ turns \in Nat /\ ended \subseteq 1..turns

(* A head up for d stands until the next refresh, or until the stow. *)
Enough(p, d) ==
  /\ p.want.kind = "Hold" => d >= p.refresh
  /\ p.want.kind = "Closing" /\ p.want.stow_at > 0 => d >= p.refresh \/ d >= p.want.stow_at

(* The script the daemon has, the one on its way and the one in the slot     *)
(* each last long enough, unless a newer one has been offered since.         *)
UpInv ==
  /\ slot # NoScript => slot.newer = 0
  /\ ppc \in {"publishing", "backoff"} => sent # NoScript
  /\ ~torn /\ Engaged(pod) =>
       /\ pod.refresh >= 0
       /\ slot # NoScript => Enough(pod, Lasts(slot))
       /\ sent # NoScript /\ sent.newer = 0 => Enough(pod, Lasts(sent))
       /\ behind = 0 => Enough(pod, daemon)

(* Of a pod with a turn: an ending is known only of a turn the brain has      *)
(* finished, and a turn it has not finished is held.                          *)
Thinks(p, over) ==
  p.turn # NoTurn => /\ p.end # "none" => p.turn \in over
                     /\ p.turn \notin over => p.want.kind = "Hold"

ThinkInv == pod.turn <= turns /\ Thinks(pod, ended)

IInv == TypeOK /\ UpInv /\ ThinkInv

(* What an answer to an input must be: a script that lasts, or no script and *)
(* nothing changed that the standing script is for.                          *)
Sound(p, r) ==
  /\ r \in Answers
  /\ r.out # NoScript => /\ r.out.newer = 0
                         /\ Engaged(r.pod) => r.pod.refresh = Refresh /\ Enough(r.pod, Lasts(r.out))
  /\ r.out = NoScript /\ Engaged(r.pod) =>
       Engaged(p) /\ r.pod.want = p.want /\ r.pod.refresh = p.refresh

(* And what it leaves of the turn. *)
Follows(p, r) ==
  \/ r.pod.turn = p.turn /\ r.pod.end = p.end
  \/ r.pod.turn = NoTurn /\ r.pod.end = "none"

-----------------------------------------------------------------------------
LEMMA MaxOfTwo ==
  ASSUME NEW a \in Int, NEW b \in Int
  PROVE  /\ Max({a, b}) \in Int /\ Max({a, b}) >= a /\ Max({a, b}) >= b
         /\ Max({a, b}) \in {a, b}
<1>1. \E x \in {a, b} : \A y \in {a, b} : x >= y
  <2>1. CASE a >= b  BY <2>1
  <2>2. CASE ~(a >= b)  BY <2>2
  <2>. QED  BY <2>1, <2>2, Zenon
<1>. QED  BY <1>1, Zenon DEF Max

LEMMA MinOfTwo ==
  ASSUME NEW a \in Int, NEW b \in Int
  PROVE  /\ Min({a, b}) \in Int /\ Min({a, b}) <= a /\ Min({a, b}) <= b
         /\ Min({a, b}) \in {a, b}
<1>1. \E x \in {a, b} : \A y \in {a, b} : x <= y
  <2>1. CASE a <= b  BY <2>1
  <2>2. CASE ~(a <= b)  BY <2>2
  <2>. QED  BY <2>1, <2>2, Zenon
<1>. QED  BY <1>1, Zenon DEF Min

LEMMA Constants ==
  /\ Refresh \in Nat /\ Linger \in Nat /\ MaxEngaged \in Nat /\ StowMargin \in Nat
  /\ StowMove \in Nat /\ MaxTimeout \in Nat /\ Span \in Nat
  /\ StowHeadroom \in Nat /\ FurthestStow \in Nat
  /\ FurthestStow >= Refresh /\ MaxEngaged >= Refresh /\ Refresh > 0
  /\ Past \in Int /\ Past <= 0 /\ Never \in Int /\ Never < 0 /\ Never < Past
<1>1. /\ Refresh \in Nat /\ Linger \in Nat /\ MaxEngaged \in Nat /\ StowMargin \in Nat
      /\ StowMove \in Nat /\ MaxTimeout \in Nat /\ Span \in Nat
  BY TimingAssumption, Zenon
<1>2. StowHeadroom \in {Refresh, StowMove} /\ StowHeadroom \in Nat
  BY <1>1, MaxOfTwo DEF StowHeadroom
<1>3. FurthestStow \in Nat /\ FurthestStow >= MaxTimeout - StowHeadroom
  BY <1>1, <1>2, MaxOfTwo DEF FurthestStow
<1>4. FurthestStow >= Refresh
  BY <1>1, <1>2, <1>3, RefreshAssumption
<1>5. Past \in Int /\ Past <= 0 /\ Never \in Int /\ Never < 0 /\ Never < Past
  BY <1>1 DEF Past, Never
<1>. QED  BY <1>1, <1>2, <1>3, <1>4, <1>5, TimingAssumption, RefreshAssumption, Zenon

LEMMA NoneTypes ==
  NoPod \in Pods /\ NoScript \in Scripts /\ ~Engaged(NoPod)
BY Constants DEF NoPod, NoScript, NoFact, Quiet, Pods, Scripts, Facts, Wants, Poses, NoTurn, Engaged

(* A script lasts, the pod is rearmed for it, and its want is kept. *)
LEMMA RearmedIsSound ==
  ASSUME NEW p \in Pods, NEW q, NEW o \in Scripts, Engaged(p),
         o # NoScript, o.newer = 0, Enough(Rearmed(p), Lasts(o))
  PROVE  /\ Sound(q, [pod |-> Rearmed(p), out |-> o])
         /\ Follows(p, [pod |-> Rearmed(p), out |-> o])
         /\ Rearmed(p).want = p.want
<1>1. Rearmed(p) \in Pods
  BY Constants DEF Rearmed, Pods
<1>2. /\ Rearmed(p).refresh = Refresh /\ Rearmed(p).want = p.want
      /\ Rearmed(p).turn = p.turn /\ Rearmed(p).end = p.end
  BY Zenon DEF Rearmed, Pods
<1>. QED  BY <1>1, <1>2, Zenon DEF Sound, Follows, Answers

LEMMA PlayingSound ==
  ASSUME NEW p \in Pods, NEW q, Engaged(p)
  PROVE  Sound(q, Playing(p)) /\ Follows(p, Playing(p)) /\ Playing(p).pod.want = p.want
<1> DEFINE t == Min({MaxTimeout, Max({MaxEngaged, Span + Refresh})})
           o == Script(TRUE, Never, t)
<1>1. t \in Int /\ t >= Refresh
  <2>1. MaxEngaged \in Int /\ Span + Refresh \in Int /\ MaxTimeout \in Int
    BY Constants
  <2> DEFINE m == Max({MaxEngaged, Span + Refresh})
  <2>2. m \in Int /\ m >= MaxEngaged
    BY <2>1, MaxOfTwo, Zenon
  <2>. HIDE DEF m
  <2>3. Min({MaxTimeout, m}) \in {MaxTimeout, m}
    BY <2>1, <2>2, MinOfTwo, Zenon
  <2>4. MaxTimeout >= Refresh
    BY TimingAssumption, RefreshAssumption, Zenon
  <2>. QED  BY <2>1, <2>2, <2>3, <2>4, Constants DEF m
<1>2. Playing(p) = [pod |-> Rearmed(p), out |-> o]
  BY Zenon DEF Playing
<1>. HIDE DEF t
<1>3. o \in Scripts /\ o # NoScript /\ o.newer = 0 /\ Lasts(o) = t
  BY <1>1, Constants, Zenon DEF Script, Scripts, NoScript, Lasts
<1>. HIDE DEF o
<1>4. Enough(Rearmed(p), Lasts(o))
  BY <1>1, <1>3, Constants, Zenon DEF Enough, Rearmed, Pods
<1>. QED  BY <1>2, <1>3, <1>4, RearmedIsSound

LEMMA StandingSound ==
  ASSUME NEW p \in Pods, NEW q,
         p.want.kind = "Hold" \/ (p.want.kind = "Closing" /\ p.want.stow_at > 0)
  PROVE  Sound(q, Standing(p)) /\ Follows(p, Standing(p)) /\ Standing(p).pod.want = p.want
<1> DEFINE w == IF p.want.kind = "Hold" THEN Min({MaxEngaged, FurthestStow}) ELSE Rearmed(p).want.stow_at
           u == Max({MaxEngaged, w + StowHeadroom})
           v == Max({MaxEngaged, Refresh})
           o == IF p.want.kind = "Hold" /\ p.want.at # "keep" THEN Script(TRUE, Never, v)
                ELSE Script(TRUE, w, u)
<1>1. Rearmed(p).want = p.want /\ Rearmed(p).refresh = Refresh
  BY Zenon DEF Rearmed, Pods
<1>2. w \in Int /\ w > 0 /\ (p.want.kind = "Hold" => w >= Refresh) /\ (p.want.kind = "Closing" => w = p.want.stow_at)
  <2>1. Min({MaxEngaged, FurthestStow}) \in Int /\ Min({MaxEngaged, FurthestStow}) \in {MaxEngaged, FurthestStow}
    <3>1. MaxEngaged \in Int /\ FurthestStow \in Int
      BY Constants
    <3>. QED  BY <3>1, MinOfTwo, Zenon
  <2>2. p.want.stow_at \in Int
    BY Zenon DEF Pods, Wants
  <2>. QED  BY <1>1, <2>1, <2>2, Constants
<1>3. Standing(p) = [pod |-> Rearmed(p), out |-> o]
  BY Zenon DEF Standing
<1>. HIDE DEF w
<1>4. u \in Int /\ u >= w
  <2>1. MaxEngaged \in Int /\ w + StowHeadroom \in Int /\ w + StowHeadroom >= w
    BY <1>2, Constants
  <2>2. u \in Int /\ u >= w + StowHeadroom
    BY <2>1, MaxOfTwo, Zenon
  <2>. QED  BY <1>2, <2>1, <2>2, Constants
<1>. HIDE DEF u
<1>41. v \in Int /\ v >= Refresh
  BY Constants, MaxOfTwo
<1>. HIDE DEF v
<1>5. Min({w, u}) = w
  <2>1. Min({w, u}) <= w /\ Min({w, u}) \in {w, u}
    BY <1>2, <1>4, MinOfTwo, Zenon
  <2>. QED  BY <1>2, <1>4, <2>1
<1>6. /\ o \in Scripts /\ o # NoScript /\ o.newer = 0
      /\ Lasts(o) = IF p.want.kind = "Hold" /\ p.want.at # "keep" THEN v ELSE w
  BY <1>2, <1>4, <1>41, <1>5, Constants DEF Script, Scripts, NoScript, Lasts
<1>. HIDE DEF o
<1>7. Enough(Rearmed(p), Lasts(o))
  BY <1>1, <1>2, <1>41, <1>6, Constants DEF Enough
<1>8. Engaged(p)
  BY Zenon DEF Engaged
<1>. QED  BY <1>3, <1>6, <1>7, <1>8, <1>1, RearmedIsSound

LEMMA DueSound ==
  ASSUME NEW p \in Pods, NEW q, NEW change \in BOOLEAN
  PROVE  Sound(q, Due(p, change)) /\ Follows(p, Due(p, change))
<1> DEFINE r == Due(p, change)
           o == Script(FALSE, 0, Max({MaxEngaged, StowHeadroom}))
<1>1. Stowed(p) \in Pods /\ ~Engaged(Stowed(p)) /\ Stowed(p).turn = p.turn /\ Stowed(p).end = p.end
  <2>1. Rearmed(p) \in Pods /\ Rearmed(p).turn = p.turn /\ Rearmed(p).end = p.end
    BY Constants DEF Rearmed, Pods
  <2>2. Stowing \in Wants /\ Stowing.kind = "Stowing"
    BY Constants, Zenon DEF Stowing, Wants, Poses
  <2>. QED  BY <2>1, <2>2, Zenon DEF Stowed, Pods, Engaged
<1>2. o \in Scripts /\ o.newer = 0
  <2>1. MaxEngaged \in Int /\ StowHeadroom \in Int
    BY Constants
  <2>2. Max({MaxEngaged, StowHeadroom}) \in Int
    BY <2>1, MaxOfTwo, Zenon
  <2>. QED  BY <2>2 DEF Script, Scripts
<1>3. r = [pod |-> r.pod, out |-> r.out] /\ r.pod \in {Stowed(p), NoPod} /\ r.out \in {o, NoScript}
  BY Zenon DEF Due
<1>. HIDE DEF r, o
<1>4. r \in Answers /\ ~Engaged(r.pod)
  BY <1>1, <1>2, <1>3, NoneTypes, Zenon DEF Answers
<1>5. Follows(p, r)
  BY <1>1, <1>3 DEF Follows, NoPod
<1>6. r.out # NoScript => r.out.newer = 0
  BY <1>2, <1>3, Zenon
<1>. QED  BY <1>4, <1>5, <1>6, Zenon DEF Sound, r

LEMMA LastsType == ASSUME NEW o \in Scripts PROVE Lasts(o) \in Int
<1>1. o.stow \in Int /\ o.timeout \in Int
  BY Zenon DEF Scripts
<1>2. Min({o.stow, o.timeout}) \in Int
  BY <1>1, MinOfTwo, Zenon
<1>. QED  BY <1>1, <1>2 DEF Lasts, Rest

(* emit: the script it makes lasts until the next refresh, or until the stow. *)
LEMMA EmitSound ==
  ASSUME NEW p \in Pods, NEW q, NEW change \in BOOLEAN
  PROVE  /\ Sound(q, Emit(p, change))
         /\ Follows(p, Emit(p, change))
         /\ p.want.kind = "Hold" => Emit(p, change).pod.want = p.want
<1>1. CASE Engaged(p) /\ p.running # Never
  BY <1>1, PlayingSound, Zenon DEF Emit
<1>2. CASE /\ ~(Engaged(p) /\ p.running # Never)
           /\ p.want.kind = "Hold" \/ (p.want.kind = "Closing" /\ p.want.stow_at > 0)
  BY <1>2, StandingSound, Zenon DEF Emit
<1>3. CASE /\ ~(Engaged(p) /\ p.running # Never)
           /\ ~(p.want.kind = "Hold" \/ (p.want.kind = "Closing" /\ p.want.stow_at > 0))
  BY <1>3, DueSound, Zenon DEF Emit
<1>. QED  BY <1>1, <1>2, <1>3, Zenon

(* What an input does to the pod q, when the brain has finished over. *)
Answered(q, r, over) ==
  Sound(q, r) /\ Thinks(r.pod, over) /\ (r.pod.turn = q.turn \/ r.pod.turn = NoTurn)

LEMMA EmitAnswers ==
  ASSUME NEW p \in Pods, NEW q, NEW over, NEW change \in BOOLEAN,
         p.turn = q.turn \/ p.turn = NoTurn, Thinks(p, over)
  PROVE  Answered(q, Emit(p, change), over)
<1> DEFINE r == Emit(p, change)
<1>1. Sound(q, r) /\ Follows(p, r) /\ (p.want.kind = "Hold" => r.pod.want = p.want)
  BY EmitSound, Zenon
<1>. HIDE DEF r
<1>. QED  BY <1>1, Zenon DEF Answered, Follows, Thinks, r

LEMMA KeptAnswers ==
  ASSUME NEW p \in Pods, NEW q \in Pods, NEW over,
         p.turn = q.turn \/ p.turn = NoTurn, Thinks(p, over),
         p.want = q.want, p.refresh = q.refresh
  PROVE  Answered(q, Kept(p), over)
<1>1. Kept(p) \in Answers
  BY NoneTypes, Zenon DEF Kept, Answers
<1>. QED  BY <1>1, Zenon DEF Answered, Sound, Kept, Engaged

LEMMA SetAnswers ==
  ASSUME NEW p \in Pods, NEW q \in Pods, NEW w \in Wants, NEW over,
         p.turn = q.turn \/ p.turn = NoTurn, p.want = q.want, p.refresh = q.refresh,
         p.turn # NoTurn => (p.end # "none" => p.turn \in over) /\ (p.turn \notin over => w.kind = "Hold")
  PROVE  Answered(q, Set(p, w), over)
<1>1. CASE p.want = w
  BY <1>1, KeptAnswers, Zenon DEF Set, Thinks
<1>2. CASE p.want # w
  <2> DEFINE n == [p EXCEPT !.want = w]
  <2>1. n \in Pods /\ n.want = w /\ n.turn = p.turn /\ n.end = p.end
    BY Zenon DEF Pods
  <2>2. Set(p, w) = Emit(n, TRUE)
    BY <1>2, Zenon DEF Set
  <2>. HIDE DEF n
  <2>3. Thinks(n, over)
    BY <2>1, Zenon DEF Thinks
  <2>. QED  BY <2>1, <2>2, <2>3, EmitAnswers, Zenon
<1>. QED  BY <1>1, <1>2, Zenon

(* clear_turn, and what most inputs do with the running motion. *)
LEMMA Cleared ==
  ASSUME NEW p \in Pods
  PROVE  LET c == ClearTurn(p)
             d == [c EXCEPT !.running = Never]
         IN /\ c \in Pods /\ c.turn = NoTurn /\ c.want = p.want /\ c.refresh = p.refresh
            /\ d \in Pods /\ d.turn = NoTurn /\ d.want = p.want /\ d.refresh = p.refresh
            /\ c.end = "none" /\ d.end = "none" /\ d.running = Never
<1>1. NoFact \in Facts
  BY Constants, Zenon DEF NoFact, Facts
<1> DEFINE c == ClearTurn(p)
<1>2. c \in Pods /\ c.turn = NoTurn /\ c.want = p.want /\ c.refresh = p.refresh /\ c.end = "none"
  BY <1>1, Zenon DEF ClearTurn, Pods, NoTurn
<1>. HIDE DEF c
<1>3. LET d == [c EXCEPT !.running = Never]
      IN d \in Pods /\ d.turn = NoTurn /\ d.want = p.want /\ d.refresh = p.refresh /\ d.end = "none" /\ d.running = Never
  BY <1>2, Constants, Zenon DEF Pods
<1>. QED  BY <1>2, <1>3, Zenon DEF c

LEMMA RaiseAnswers ==
  ASSUME NEW p \in Pods, NEW q \in Pods, NEW at \in Poses, NEW over,
         p.want = q.want, p.refresh = q.refresh
  PROVE  /\ Answered(q, Raise(p, at), over)
         /\ LET n == Raise(p, at).pod IN n.turn = NoTurn /\ n.end = "none" /\ n.want.kind = "Hold"
<1> DEFINE d == [ClearTurn(p) EXCEPT !.running = Never]
           n == [d EXCEPT !.want = Hold(at)]
<1>1. Hold(at) \in Wants /\ Hold(at).kind = "Hold"
  BY Constants, Zenon DEF Hold, Wants
<1>2. d \in Pods /\ d.turn = NoTurn /\ d.want = p.want /\ d.refresh = p.refresh /\ d.end = "none"
  BY Cleared, Zenon
<1>3. Raise(p, at) = IF p.running # Never \/ d.want # Hold(at) THEN Emit(n, TRUE) ELSE Kept(d)
  BY Zenon DEF Raise, Set
<1>. HIDE DEF d
<1>4. n \in Pods /\ n.turn = NoTurn /\ n.end = "none" /\ n.want = Hold(at)
  BY <1>1, <1>2, Zenon DEF Pods
<1>. HIDE DEF n
<1>5. Thinks(d, over) /\ Thinks(n, over)
  BY <1>2, <1>4, Zenon DEF Thinks
<1>6. /\ Answered(q, Emit(n, TRUE), over) /\ Follows(n, Emit(n, TRUE))
      /\ Emit(n, TRUE).pod.want = Hold(at)
  BY <1>1, <1>4, <1>5, EmitAnswers, EmitSound, Zenon
<1>7. Answered(q, Kept(d), over) /\ Kept(d).pod = d
  BY <1>2, <1>5, KeptAnswers, Zenon DEF Kept
<1>. QED  BY <1>1, <1>2, <1>3, <1>4, <1>6, <1>7, Zenon DEF Follows

LEMMA ClosingType ==
  ASSUME NEW p \in Pods, NEW t \in Int
  PROVE  ClosingAt(p, t) \in Wants /\ Closing(p.want.at, t) \in Wants
<1>1. p.want.at \in Poses /\ p.want.stow_at \in Int
  BY Zenon DEF Pods, Wants
<1>2. Min({p.want.stow_at, FurthestStow}) \in Int /\ FurthestStow \in Int
  <2>1. FurthestStow \in Int  BY Constants
  <2>. QED  BY <1>1, <2>1, MinOfTwo, Zenon
<1>. QED  BY <1>1, <1>2, Constants, Zenon DEF ClosingAt, Closing, Wants

LEMMA ReconsiderAnswers ==
  ASSUME NEW p \in Pods, NEW q \in Pods, NEW over, p.turn = q.turn, Thinks(p, over),
         p.want = q.want, p.refresh = q.refresh
  PROVE  Answered(q, Reconsider(p), over)
<1> DEFINE t == Tail(p.end) + (IF p.audio.horizon = Never THEN 0 ELSE p.audio.horizon)
<1>1. t \in Int
  BY Constants DEF Tail, Pods, Facts
<1>2. Reconsider(p) = Kept(p) \/ (p.end # "none" /\ Reconsider(p) = Set(p, ClosingAt(p, t)))
  BY Zenon DEF Reconsider
<1>. HIDE DEF t
<1>3. ClosingAt(p, t) \in Wants
  BY <1>1, ClosingType, Zenon
<1>4. Answered(q, Kept(p), over)
  BY KeptAnswers, Zenon
<1>5. p.end # "none" => Answered(q, Set(p, ClosingAt(p, t)), over)
  BY <1>3, SetAnswers, Zenon DEF Thinks
<1>. QED  BY <1>2, <1>4, <1>5, Zenon

LEMMA WaitOutLingerAnswers ==
  ASSUME NEW p \in Pods, NEW over
  PROVE  Answered(p, WaitOutLinger(p), over)
<1> DEFINE d == [ClearTurn(p) EXCEPT !.running = Never]
<1>1. d \in Pods /\ d.turn = NoTurn /\ d.want = p.want /\ d.refresh = p.refresh
  BY Cleared, Zenon
<1>2. WaitOutLinger(p) = Set(d, ClosingAt(d, Linger))
  BY Zenon DEF WaitOutLinger
<1>. HIDE DEF d
<1>3. ClosingAt(d, Linger) \in Wants
  BY <1>1, Constants, ClosingType
<1>. QED  BY <1>1, <1>2, <1>3, SetAnswers, Zenon

LEMMA HeardAnswers ==
  ASSUME NEW p \in Pods, NEW over
  PROVE  Answered(p, Heard(p), over)
<1> DEFINE c == ClearTurn(p)
           w == Min({MaxEngaged, FurthestStow})
<1>1. c \in Pods /\ c.turn = NoTurn /\ c.want = p.want /\ c.refresh = p.refresh
  BY Cleared, Zenon
<1>2. w \in Int
  <2>1. MaxEngaged \in Int /\ FurthestStow \in Int  BY Constants
  <2>. QED  BY <2>1, MinOfTwo, Zenon
<1>3. Heard(p) = Set(c, Closing(p.want.at, w))
  BY Zenon DEF Heard
<1>. HIDE DEF c, w
<1>4. Closing(p.want.at, w) \in Wants
  BY <1>2, ClosingType, Zenon
<1>. QED  BY <1>1, <1>3, <1>4, SetAnswers, Zenon

LEMMA GrantExpiredAnswers ==
  ASSUME NEW p \in Pods, NEW over, Thinks(p, over)
  PROVE  Answered(p, GrantExpired(p), over)
<1>1. ClosingAt(p, 0) \in Wants
  BY ClosingType
<1>2. CASE p.turn # NoTurn
  BY <1>2, KeptAnswers, Zenon DEF GrantExpired
<1>3. CASE p.turn = NoTurn
  BY <1>1, <1>3, SetAnswers, Zenon DEF GrantExpired
<1>. QED  BY <1>2, <1>3, Zenon

-----------------------------------------------------------------------------
(* An answer offered keeps what the scripts at the daemon, on their way and  *)
(* in the slot are good for.                                                 *)
LEMMA OfferPreserves ==
  ASSUME TypeOK, UpInv, NEW r, Sound(pod, r), Offer(r)
  PROVE  /\ UpInv' /\ pod' = r.pod /\ pod' \in Pods /\ slot' \in Scripts /\ sent' \in Scripts
         /\ behind' \in Nat /\ attempts' \in Nat /\ UNCHANGED <<attempts, ppc, daemon, torn>>
<1>1. /\ r \in Answers /\ r.pod \in Pods /\ r.out \in Scripts /\ pod' = r.pod
      /\ UNCHANGED <<attempts, ppc, closed, daemon, ending, torn>>
  BY Zenon DEF Sound, Answers, Offer
<1>2. CASE r.out = NoScript
  <2>1. UNCHANGED <<slot, sent, behind>>
    BY <1>2, Zenon DEF Offer
  <2>2. Engaged(pod') => Engaged(pod) /\ pod'.want = pod.want /\ pod'.refresh = pod.refresh
    BY <1>1, <1>2, Zenon DEF Sound
  <2>3. UpInv'
    BY <1>1, <2>1, <2>2, Zenon DEF UpInv, Enough
  <2>. QED  BY <1>1, <2>1, <2>3, Zenon DEF TypeOK
<1>3. CASE r.out # NoScript
  <2>1. /\ slot' = r.out /\ behind' = OneMore(behind)
        /\ sent' = IF sent = NoScript THEN sent ELSE [sent EXCEPT !.newer = OneMore(@)]
    BY <1>3, Zenon DEF Offer
  <2>2. \A n \in Nat : OneMore(n) \in Nat /\ OneMore(n) > 0
    <3>1. \A n \in Nat : n + 1 \in Int /\ 2 \in Int  OBVIOUS
    <3>. QED  BY <3>1, MinOfTwo DEF OneMore
  <2>3. sent' \in Scripts /\ (sent # NoScript => sent' # NoScript /\ sent'.newer # 0) /\ (sent = NoScript => sent' = NoScript)
    <3>1. CASE sent = NoScript
      BY <2>1, <3>1, Zenon DEF TypeOK
    <3>2. CASE sent # NoScript
      <4>1. sent \in Scripts /\ sent' = [sent EXCEPT !.newer = OneMore(sent.newer)]
        BY <2>1, <3>2, Zenon DEF TypeOK
      <4>2. OneMore(sent.newer) \in Nat /\ OneMore(sent.newer) # 0
        BY <2>2, <4>1 DEF Scripts
      <4>3. sent' \in Scripts /\ sent'.newer # 0
        BY <4>1, <4>2, Zenon DEF Scripts
      <4>4. NoScript.newer = 0
        BY Zenon DEF NoScript
      <4>. QED  BY <3>2, <4>3, <4>4, Zenon
    <3>. QED  BY <3>1, <3>2, Zenon
  <2>4. behind' \in Nat /\ behind' # 0
    BY <2>1, <2>2 DEF TypeOK
  <2>5. /\ r.out.newer = 0
        /\ Engaged(r.pod) => r.pod.refresh = Refresh /\ Enough(r.pod, Lasts(r.out))
    BY <1>3, Zenon DEF Sound
  <2>6. UpInv'
    BY <1>1, <2>1, <2>3, <2>4, <2>5, Constants DEF UpInv
  <2>. QED  BY <1>1, <2>1, <2>3, <2>4, <2>6, Zenon DEF TypeOK
<1>. QED  BY <1>2, <1>3, Zenon

(* An input: applied, or lost at the full queue. *)
LEMMA ApplyPreserves ==
  ASSUME IInv, NEW r, Apply(r), Sound(pod, r), Thinks(r.pod, ended'), r.pod.turn <= turns',
         turns' \in Nat, turns <= turns', ended' \subseteq 1..turns', ended \subseteq ended',
         Thinks(pod, ended')
  PROVE  IInv'
<1>1. CASE Offer(r)
  <2>1. /\ UpInv' /\ pod' = r.pod /\ pod' \in Pods /\ slot' \in Scripts /\ sent' \in Scripts
        /\ behind' \in Nat /\ attempts' \in Nat /\ UNCHANGED <<attempts, ppc, daemon, torn>>
    BY <1>1, OfferPreserves, Zenon DEF IInv
  <2>2. TypeOK'
    BY <2>1, Zenon DEF IInv, TypeOK
  <2>3. ThinkInv'
    BY <2>1, Zenon DEF ThinkInv
  <2>. QED  BY <2>1, <2>2, <2>3, Zenon DEF IInv
<1>2. CASE UNCHANGED <<pod, publisher, daemon, ending, behind, torn>>
  <2>1. UNCHANGED <<pod, slot, sent, attempts, ppc, daemon, behind, torn>>
    BY <1>2, Zenon DEF publisher
  <2>2. TypeOK'
    BY <2>1, Zenon DEF IInv, TypeOK
  <2>3. UpInv'
    BY <2>1, Zenon DEF IInv, UpInv
  <2>4. ThinkInv'
    BY <2>1 DEF IInv, TypeOK, ThinkInv, Pods
  <2>. QED  BY <2>2, <2>3, <2>4, Zenon DEF IInv
<1>. QED  BY <1>1, <1>2, Zenon DEF Apply

(* An input that says nothing of a turn. *)
LEMMA AnswerPreserves ==
  ASSUME IInv, NEW r, Apply(r), Answered(pod, r, ended), UNCHANGED <<turns, ended>>
  PROVE  IInv'
<1>1. r.pod.turn <= turns
  BY DEF Answered, IInv, TypeOK, ThinkInv, NoTurn
<1>2. turns \in Nat /\ ended \subseteq 1..turns /\ Thinks(pod, ended)
  BY Zenon DEF IInv, TypeOK, ThinkInv
<1>3. Thinks(r.pod, ended') /\ Thinks(pod, ended') /\ Sound(pod, r)
  BY <1>2, Zenon DEF Answered
<1>. QED  BY <1>1, <1>2, <1>3, ApplyPreserves

LEMMA RefusalPreserves ==
  ASSUME IInv, NEW r, WhenEngaged(r), Answered(pod, r, ended)
  PROVE  IInv'
<1>1. pod \in Pods /\ Thinks(pod, ended)
  BY Zenon DEF IInv, TypeOK, ThinkInv
<1>2. Answered(pod, Kept(pod), ended)
  BY <1>1, KeptAnswers, Zenon
<1>3. UNCHANGED <<turns, ended>>
  BY Zenon DEF WhenEngaged
<1>4. CASE Engaged(pod)
  BY <1>3, <1>4, AnswerPreserves, Zenon DEF WhenEngaged
<1>5. CASE ~Engaged(pod)
  BY <1>2, <1>3, <1>5, AnswerPreserves, Zenon DEF WhenEngaged
<1>. QED  BY <1>4, <1>5, Zenon

LEMMA InputPreserves == ASSUME IInv, Input PROVE IInv'
<1>1. /\ pod \in Pods /\ turns \in Nat /\ ended \subseteq 1..turns
      /\ Thinks(pod, ended) /\ pod.turn <= turns
  BY Zenon DEF IInv, TypeOK, ThinkInv
<1>2. WakePose \in Poses /\ "turn" \in Poses /\ "look" \in Poses
  BY Zenon DEF Poses
<1>3. CASE InputWake
  <2>1. PICK gaze \in {"none", "look"} :
          Apply(Raise([pod EXCEPT !.gaze = gaze], IF gaze = "none" THEN WakePose ELSE gaze))
    BY <1>3, Zenon DEF InputWake
  <2> DEFINE p == [pod EXCEPT !.gaze = gaze]
             at == IF gaze = "none" THEN WakePose ELSE gaze
  <2>2. p \in Pods /\ p.want = pod.want /\ p.refresh = pod.refresh
    BY <1>1, Zenon DEF Pods
  <2>3. at \in Poses
    BY <1>2, Zenon
  <2>. HIDE DEF p, at
  <2>4. Answered(pod, Raise(p, at), ended)
    BY <1>1, <2>2, <2>3, RaiseAnswers, Zenon
  <2>. QED  BY <1>3, <2>1, <2>4, AnswerPreserves, Zenon DEF InputWake, p, at
<1>4. CASE InputBarge
  <2>1. Answered(pod, Raise(pod, WakePose), ended)
    BY <1>1, <1>2, RaiseAnswers, Zenon
  <2>. QED  BY <1>4, <2>1, AnswerPreserves, Zenon DEF InputBarge
<1>5. CASE InputTurnStarted
  <2> DEFINE r == Raise(pod, IF pod.gaze = "none" THEN "turn" ELSE pod.gaze)
             s == [r EXCEPT !.pod.turn = turns + 1]
  <2>1. (IF pod.gaze = "none" THEN "turn" ELSE pod.gaze) \in Poses
    BY <1>1, <1>2, Zenon DEF Pods
  <2>2. /\ Answered(pod, r, ended)
        /\ r.pod.end = "none" /\ r.pod.want.kind = "Hold"
    BY <1>1, <2>1, RaiseAnswers, Zenon
  <2>3. Apply(s) /\ turns' = turns + 1 /\ ended' = ended
    BY <1>5, Zenon DEF InputTurnStarted
  <2>. HIDE DEF r
  <2>4. r \in Answers /\ r.pod \in Pods
    BY <2>2, Zenon DEF Answered, Sound, Answers
  <2>5. /\ s \in Answers /\ s.out = r.out /\ s.pod.turn = turns + 1 /\ s.pod.end = "none"
        /\ s.pod.want = r.pod.want /\ s.pod.refresh = r.pod.refresh
    BY <1>1, <2>2, <2>4 DEF Answers, Pods
  <2>. HIDE DEF s
  <2>6. Sound(pod, s)
    BY <2>2, <2>5, Zenon DEF Answered, Sound, Enough, Engaged
  <2>7. Thinks(s.pod, ended)
    BY <2>2, <2>5, Zenon DEF Thinks
  <2>. QED  BY <1>1, <2>3, <2>5, <2>6, <2>7, ApplyPreserves
<1>6. CASE InputTurnEnded
  <2>1. PICK t \in (1..turns) \ ended, end \in {"Closed", "Open"} :
          /\ ended' = ended \cup {t}
          /\ Apply(IF pod.turn # t THEN Kept(pod) ELSE Reconsider([pod EXCEPT !.end = end]))
    BY <1>6, Zenon DEF InputTurnEnded
  <2>2. turns' = turns
    BY <1>6, Zenon DEF InputTurnEnded
  <2>3. Thinks(pod, ended') /\ ended' \subseteq 1..turns' /\ ended \subseteq ended'
    BY <1>1, <2>1, <2>2, Zenon DEF Thinks
  <2> DEFINE p == [pod EXCEPT !.end = end]
             r == IF pod.turn # t THEN Kept(pod) ELSE Reconsider(p)
  <2>4. /\ p \in Pods /\ p.turn = pod.turn /\ p.want = pod.want /\ p.refresh = pod.refresh
        /\ pod.turn = t => Thinks(p, ended')
    BY <1>1, <2>1, Zenon DEF Pods, Thinks
  <2>. HIDE DEF p
  <2>5. Answered(pod, r, ended')
    BY <1>1, <2>3, <2>4, KeptAnswers, ReconsiderAnswers, Zenon
  <2>6. Apply(r)
    BY <2>1, Zenon DEF p
  <2>. HIDE DEF r
  <2>7. r.pod.turn <= turns'
    BY <1>1, <2>2, <2>5 DEF Answered, NoTurn
  <2>. QED  BY <1>1, <2>2, <2>3, <2>5, <2>6, <2>7, ApplyPreserves DEF Answered
<1>7. CASE InputAudio
  <2>1. UNCHANGED <<turns, ended>>
    BY <1>7, Zenon DEF InputAudio
  <2>2. PICK t \in 1..turns, awaiting \in {0, 1}, horizon \in Horizons \cup {Never} :
          Apply(IF pod.turn # t THEN Kept(pod)
                ELSE Reconsider([pod EXCEPT !.audio =
                       [done |-> t \in ended, awaiting |-> awaiting, horizon |-> horizon]]))
    BY <1>7, Zenon DEF InputAudio
  <2> DEFINE audio == [done |-> t \in ended, awaiting |-> awaiting, horizon |-> horizon]
             p == [pod EXCEPT !.audio = audio]
             r == IF pod.turn # t THEN Kept(pod) ELSE Reconsider(p)
  <2>3. audio \in Facts
    BY <2>2, Constants, TimingAssumption DEF Facts
  <2>. HIDE DEF audio
  <2>4. /\ p \in Pods /\ p.turn = pod.turn /\ p.want = pod.want /\ p.refresh = pod.refresh
        /\ p.end = pod.end
    BY <1>1, <2>3, Zenon DEF Pods
  <2>. HIDE DEF p
  <2>5. Thinks(p, ended)
    BY <1>1, <2>4, Zenon DEF Thinks
  <2>6. Answered(pod, r, ended)
    BY <1>1, <2>4, <2>5, KeptAnswers, ReconsiderAnswers, Zenon
  <2>7. Apply(r)
    BY <2>2, Zenon DEF p, audio
  <2>. HIDE DEF r
  <2>. QED  BY <2>1, <2>6, <2>7, AnswerPreserves, Zenon
<1>8. CASE InputUnanswered
  BY <1>1, <1>8, WaitOutLingerAnswers, RefusalPreserves, Zenon DEF InputUnanswered
<1>9. CASE InputHeard
  BY <1>1, <1>9, HeardAnswers, RefusalPreserves, Zenon DEF InputHeard
<1>10. CASE InputGrantExpired
  BY <1>1, <1>10, GrantExpiredAnswers, RefusalPreserves, Zenon DEF InputGrantExpired
<1>11. CASE InputPoseCue
  <2> DEFINE p == [pod EXCEPT !.want.at = "cue"]
  <2>1. p \in Pods /\ p.turn = pod.turn /\ p.end = pod.end /\ p.want.kind = pod.want.kind
    BY <1>1, Zenon DEF Pods, Wants, Poses
  <2>. HIDE DEF p
  <2>2. Thinks(p, ended)
    BY <1>1, <2>1, Zenon DEF Thinks
  <2>3. Answered(pod, Emit(p, TRUE), ended)
    BY <2>1, <2>2, EmitAnswers, Zenon
  <2>. QED  BY <1>11, <2>3, RefusalPreserves, Zenon DEF InputPoseCue, p
<1>12. CASE InputMotionCue
  <2> DEFINE p == [pod EXCEPT !.running = Span]
  <2>1. p \in Pods /\ p.turn = pod.turn /\ p.end = pod.end /\ p.want = pod.want
    BY <1>1, Constants DEF Pods
  <2>. HIDE DEF p
  <2>2. Thinks(p, ended)
    BY <1>1, <2>1, Zenon DEF Thinks
  <2>3. Answered(pod, Emit(p, TRUE), ended)
    BY <2>1, <2>2, EmitAnswers, Zenon
  <2>. QED  BY <1>12, <2>3, RefusalPreserves, Zenon DEF InputMotionCue, p
<1>. QED  BY <1>3, <1>4, <1>5, <1>6, <1>7, <1>8, <1>9, <1>10, <1>11, <1>12, Zenon DEF Input

LEMMA TickPreserves == ASSUME IInv, ScripterTick PROVE IInv'
<1> DEFINE p == [pod EXCEPT !.running = IF Lifts THEN Never ELSE pod.running]
<1>1. pod \in Pods /\ Thinks(pod, ended) /\ pod.turn <= turns /\ Lifts \in BOOLEAN
  BY Zenon DEF IInv, TypeOK, ThinkInv, Lifts
<1>2. p \in Pods /\ p.turn = pod.turn /\ p.end = pod.end /\ p.want = pod.want
  BY <1>1, Constants, Zenon DEF Pods
<1>3. Offer(Emit(p, Lifts)) /\ UNCHANGED <<turns, ended>>
  BY Zenon DEF ScripterTick
<1>. HIDE DEF p
<1>4. Thinks(p, ended)
  BY <1>1, <1>2, Zenon DEF Thinks
<1> DEFINE r == Emit(p, Lifts)
<1>5. Answered(pod, r, ended)
  BY <1>1, <1>2, <1>4, EmitAnswers, Zenon
<1>6. Offer(r)
  BY <1>3, Zenon
<1>. HIDE DEF r
<1>7. /\ UpInv' /\ pod' = r.pod /\ pod' \in Pods /\ slot' \in Scripts /\ sent' \in Scripts
      /\ behind' \in Nat /\ attempts' \in Nat /\ UNCHANGED <<attempts, ppc, daemon, torn>>
  BY <1>5, <1>6, OfferPreserves, Zenon DEF IInv, Answered
<1>8. TypeOK'
  BY <1>3, <1>7, Zenon DEF IInv, TypeOK
<1>9. ThinkInv'
  BY <1>1, <1>3, <1>5, <1>7 DEF IInv, TypeOK, ThinkInv, Answered, NoTurn
<1>. QED  BY <1>7, <1>8, <1>9, Zenon DEF IInv

(* The pod stands still while the publisher works. *)
LEMMA PublishPreserves == ASSUME IInv, Publish PROVE IInv'
<1>1. UNCHANGED <<pod, turns, ended, torn>>
  BY Zenon DEF Publish, TakeLatest, LoopEnds, PublishOk, PublishVanishes, PublishRefused, Retry, outside
<1>2. ThinkInv'
  BY <1>1, Zenon DEF IInv, ThinkInv
<1>3. NoScript \in Scripts
  BY NoneTypes, Zenon
<1>4. \A s \in Scripts : Lasts(s) \in Int
  BY LastsType, Zenon
<1> USE DEF IInv, TypeOK, UpInv
<1>5. CASE TakeLatest
  <2>1. /\ slot # NoScript /\ sent' = slot /\ slot' = NoScript /\ attempts' = 0
        /\ ppc' = "publishing" /\ UNCHANGED <<daemon, behind>>
    BY <1>5, Zenon DEF TakeLatest
  <2>. QED  BY <1>1, <1>2, <1>3, <2>1, Zenon
<1>6. CASE LoopEnds
  <2>1. ppc' = "ended" /\ UNCHANGED <<slot, sent, attempts, daemon, behind>>
    BY <1>6, Zenon DEF LoopEnds
  <2>. QED  BY <1>1, <1>2, <2>1, Zenon
<1>7. CASE PublishOk
  <2>1. /\ ppc = "publishing" /\ sent' = NoScript /\ attempts' = 0 /\ ppc' = "idle" /\ slot' = slot
        /\ \/ UNCHANGED <<daemon, behind>>
           \/ behind' = sent.newer /\ daemon' = Lasts(sent)
    BY <1>7, Zenon DEF PublishOk, Done, Execute
  <2>2. behind' \in Nat /\ daemon' \in Int
    BY <1>4, <2>1, Zenon DEF Scripts
  <2>. QED  BY <1>1, <1>2, <1>3, <2>1, <2>2, Zenon
<1>8. CASE PublishVanishes
  <2>1. /\ sent' = NoScript /\ attempts' = 0 /\ ppc' = "idle"
        /\ UNCHANGED <<slot, daemon, behind>>
    BY <1>8, Zenon DEF PublishVanishes, Done
  <2>. QED  BY <1>1, <1>2, <1>3, <2>1, Zenon
<1>9. CASE PublishRefused
  <2>1. ppc = "publishing" /\ slot' = slot
    BY <1>9, Zenon DEF PublishRefused
  <2>2. PICK landed \in BOOLEAN :
          /\ IF landed THEN Execute(sent) ELSE UNCHANGED <<daemon, ending, behind>>
          /\ IF attempts + 1 < Attempts
             THEN /\ sent' = [sent EXCEPT !.landed = @ \/ landed]
                  /\ attempts' = attempts + 1 /\ ppc' = "backoff"
             ELSE Done
    BY <1>9, Zenon DEF PublishRefused
  <2>3. UNCHANGED <<daemon, behind>> \/ (behind' = sent.newer /\ daemon' = Lasts(sent))
    BY <2>2, Zenon DEF Execute
  <2>4. behind' \in Nat /\ daemon' \in Int
    BY <1>4, <2>3, Zenon DEF Scripts
  <2>5. CASE sent' = [sent EXCEPT !.landed = @ \/ landed] /\ attempts' = attempts + 1 /\ ppc' = "backoff"
    <3>1. /\ sent' \in Scripts /\ sent'.newer = sent.newer /\ sent'.landed = (sent.landed \/ landed)
          /\ sent'.up = sent.up /\ sent'.stow = sent.stow /\ sent'.timeout = sent.timeout
      BY <2>5, Zenon DEF Scripts
    <3>2. Lasts(sent') = Lasts(sent)
      BY <3>1, Zenon DEF Lasts
    <3>3. sent' # NoScript
      BY <2>1, <3>1 DEF NoScript, Scripts
    <3>. QED  BY <1>1, <1>2, <2>1, <2>3, <2>4, <2>5, <3>1, <3>2, <3>3
  <2>6. CASE Done
    BY <1>1, <1>2, <1>3, <2>1, <2>3, <2>4, <2>6, Zenon DEF Done
  <2>. QED  BY <2>2, <2>5, <2>6, Zenon
<1>10. CASE Retry
  <2>1. /\ ppc = "backoff" /\ UNCHANGED <<slot, daemon, behind>>
        /\ \/ sent' = NoScript /\ attempts' = 0 /\ ppc' = "idle"
           \/ ppc' = "publishing" /\ UNCHANGED <<sent, attempts>>
    BY <1>10, Zenon DEF Retry, Done
  <2>. QED  BY <1>1, <1>2, <1>3, <2>1
<1>. QED  BY <1>5, <1>6, <1>7, <1>8, <1>9, <1>10, Zenon DEF Publish

LEMMA TeardownPreserves == ASSUME IInv, Teardown PROVE IInv'
<1>1. /\ torn' = TRUE
      /\ UNCHANGED <<pod, slot, sent, attempts, ppc, daemon, behind, turns, ended>>
  BY Zenon DEF Teardown
<1>. QED  BY <1>1, Zenon DEF IInv, TypeOK, UpInv, ThinkInv

(* A unit of time: the refresh is still to come, and so is the daemon's. *)
LEMMA ElapsePreserves == ASSUME IInv, Elapse PROVE IInv'
<1>1. pod \in Pods /\ pod.want \in Wants /\ pod.audio \in Facts
  BY Zenon DEF IInv, TypeOK, Pods
<1>2. \A t \in Int : /\ Earlier(t) \in Int
                     /\ t > 0 => Earlier(t) = t - 1
                     /\ t <= 0 => Earlier(t) <= 0
  <2>1. TAKE t \in Int
  <2>2. t - 1 \in Int /\ Past \in Int
    BY Constants
  <2>3. Max({t - 1, Past}) \in {t - 1, Past} /\ Max({t - 1, Past}) \in Int /\ Max({t - 1, Past}) >= t - 1
    BY <2>2, MaxOfTwo, Zenon
  <2>. QED  BY <2>2, <2>3, Constants DEF Earlier
<1>3. pod.want.stow_at \in Int /\ pod.running \in Int /\ pod.refresh \in Int /\ pod.audio.horizon \in Int
  BY <1>1, Zenon DEF Pods, Wants, Facts
<1>4. /\ pod' \in Pods /\ pod'.turn = pod.turn /\ pod'.end = pod.end
      /\ pod'.want.kind = pod.want.kind
      /\ pod'.want.stow_at = Earlier(pod.want.stow_at)
      /\ pod'.refresh = Earlier(pod.refresh)
  BY <1>1, <1>2, <1>3, Zenon DEF Elapse, Pods, Wants, Facts
<1>5. UNCHANGED <<slot, sent, attempts, ppc, behind, turns, ended, torn>>
  BY Zenon DEF Elapse, publisher
<1>6. daemon' = IF daemon = Rest THEN Rest ELSE daemon - 1
  BY Zenon DEF Elapse
<1>7. TypeOK'
  BY <1>4, <1>5, <1>6 DEF IInv, TypeOK, Rest
<1>8. ThinkInv'
  BY <1>4, <1>5, Zenon DEF IInv, ThinkInv, Thinks
<1>9. UpInv'
  <2>1. SUFFICES ASSUME ~torn, Engaged(pod), Engaged(pod')
                 PROVE  /\ pod'.refresh >= 0
                        /\ slot # NoScript => Enough(pod', Lasts(slot))
                        /\ sent # NoScript /\ sent.newer = 0 => Enough(pod', Lasts(sent))
                        /\ behind = 0 => Enough(pod', daemon')
    BY <1>4, <1>5, Zenon DEF IInv, UpInv, Engaged
  <2>2. pod.refresh > 0 /\ pod'.refresh = pod.refresh - 1
    <3>1. pod.refresh >= 0
      BY <2>1, Zenon DEF IInv, UpInv
    <3>2. pod.refresh > 0
      BY <2>1, <3>1, <1>3, Constants DEF Elapse, TickDue
    <3>. QED  BY <1>2, <1>3, <1>4, <3>2, Zenon
  <2>3. pod'.want.stow_at > 0 => pod.want.stow_at > 0 /\ pod'.want.stow_at = pod.want.stow_at - 1
    BY <1>2, <1>3, <1>4
  <2>4. \A d \in Int : Enough(pod, d) => Enough(pod', d) /\ Enough(pod', IF d = Rest THEN Rest ELSE d - 1)
    BY <1>3, <1>4, <2>1, <2>2, <2>3 DEF Enough, Rest, Engaged
  <2>5. Lasts(slot) \in Int /\ Lasts(sent) \in Int
    BY LastsType, Zenon DEF IInv, TypeOK
  <2>6. daemon \in Int
    BY Zenon DEF IInv, TypeOK
  <2>7. /\ slot # NoScript => Enough(pod, Lasts(slot))
        /\ sent # NoScript /\ sent.newer = 0 => Enough(pod, Lasts(sent))
        /\ behind = 0 => Enough(pod, daemon)
    BY <2>1, Zenon DEF IInv, UpInv
  <2>8. behind = 0 => Enough(pod', daemon')
    BY <1>6, <2>4, <2>6, <2>7, Zenon
  <2>9. pod'.refresh >= 0
    BY <1>3, <2>2
  <2>. QED  BY <2>4, <2>5, <2>7, <2>8, <2>9, Zenon
<1>. QED  BY <1>7, <1>8, <1>9, Zenon DEF IInv

(* Every reachable state of the scripter, its publisher and the daemon is    *)
(* typed, has each script last until the next refresh or its own stow, and   *)
(* knows an ending only of a turn the brain has finished (apply, tick, emit  *)
(* and publish_loop).                                                        *)
THEOREM ScripterInvariance == Spec => []IInv
<1>1. Init => IInv
  <2>1. SUFFICES ASSUME Init PROVE IInv
    OBVIOUS
  <2>2. pod \in Pods /\ slot \in Scripts /\ sent \in Scripts /\ ~Engaged(pod)
    BY <2>1, NoneTypes, Zenon DEF Init
  <2>3. TypeOK
    <3>1. torn \in BOOLEAN
      BY <2>1, Zenon DEF Init
    <3>2. ended \subseteq 1..turns /\ turns \in Nat /\ daemon \in Int
      BY <2>1 DEF Init, Rest
    <3>. QED  BY <2>1, <2>2, <3>1, <3>2, Zenon DEF Init, TypeOK
  <2>4. UpInv
    BY <2>1, <2>2, Zenon DEF Init, UpInv
  <2>5. ThinkInv
    BY <2>1 DEF Init, ThinkInv, Thinks, NoPod, NoTurn
  <2>. QED  BY <2>3, <2>4, <2>5, Zenon DEF IInv
<1>2. IInv /\ [Next]_vars => IInv'
  <2>1. SUFFICES ASSUME IInv, [Next]_vars PROVE IInv'
    OBVIOUS
  <2>2. CASE UNCHANGED vars
    BY <2>1, <2>2, Zenon DEF vars, publisher, IInv, TypeOK, UpInv, ThinkInv
  <2>. QED  BY <2>1, <2>2, InputPreserves, TickPreserves, TeardownPreserves, PublishPreserves,
               ElapsePreserves, Zenon DEF Next
<1>. QED  BY <1>1, <1>2, PTL DEF Spec

(* A daemon that has the newest script has the head up while it is held and  *)
(* until its stow, whatever the timing, as long as a refresh comes before    *)
(* the bounds the scripts carry.                                             *)
THEOREM HeadStaysUp == Spec => []UpUntilTheStow
<1>1. IInv => UpUntilTheStow
  <2>1. SUFFICES ASSUME IInv, Delivered, behind = 0, ~torn, ~TickDue,
                        pod.want.kind = "Hold" \/ (pod.want.kind = "Closing" /\ pod.want.stow_at > 0)
                 PROVE  daemon > Rest
    BY Zenon DEF UpUntilTheStow
  <2>2. Engaged(pod)
    BY <2>1, Zenon DEF Engaged
  <2>3. pod.refresh >= 0 /\ Enough(pod, daemon) /\ daemon \in Int
    BY <2>1, <2>2, Zenon DEF IInv, UpInv, TypeOK
  <2>4. pod.refresh \in Int /\ pod.want.stow_at \in Int
    BY <2>1, Zenon DEF IInv, TypeOK, Pods, Wants
  <2>5. pod.refresh > 0
    BY <2>1, <2>3, <2>4, Constants DEF TickDue
  <2>. QED  BY <2>1, <2>3, <2>4, <2>5 DEF Enough, Rest
<1>. QED  BY <1>1, ScripterInvariance, PTL

(* No ending is scheduled while the brain has the current turn, for any      *)
(* number of turns, inputs and inputs lost.                                  *)
THEOREM ThinksAreNotCut == Spec => []ThinkIsNotCut
<1>1. IInv => ThinkIsNotCut
  BY Zenon DEF IInv, ThinkInv, Thinks, ThinkIsNotCut
<1>. QED  BY <1>1, ScripterInvariance, PTL

=============================================================================
