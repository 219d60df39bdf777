---------------------------- MODULE DriveProofs ----------------------------
(***************************************************************************)
(* Safety of runners, procedures and participants together, for every set  *)
(* of workflows and drivers, every plan, every verdict of the participants *)
(* and every bound on attempts, late PUTs and faults.                      *)
(*                                                                         *)
(* A step of the system writes the store or a participant, never both, so  *)
(* what one of them says is compared with a state the other one stays in.  *)
(* The argument follows the evidence: what a participant has recorded is   *)
(* final (DoneOp, Refuted), a driver carries only answers that the         *)
(* participant still gives (Truthful), and the store records only what a   *)
(* driver carries (Caused).  In the other direction nothing is executed    *)
(* that the store has not recorded as requested (Bound).                   *)
(***************************************************************************)
EXTENDS Drive, WorkflowProofs

(* The evidence at the participant. *)
DoneOp(q) == item[q].state = "done" /\ effects[q] = 1 /\ verdict[q] = "result"
Refuted(q) == verdict[q] = "refused" \/ (verdict[q] = "malformed" /\ item[q].state = "done")

(* The store has recorded the request. *)
Sent(q) == IF q[3] = "op" THEN op[q[1]][q[2]] # "none"
                          ELSE cp[q[1]][q[2]] \notin {"none", "active"}

AllDone(w) == \A s \in Plan(w) : op[w][s] = "succeeded"

(* A participant's item, its handlers and its effects fit together. *)
Sound(q) ==
    /\ item[q].state = "none" =>
           /\ item[q].attempt = 0 /\ item[q].winner = 0
           /\ effects[q] = 0
           /\ \A a \in P!Attempts : handler[q][a] = "none"
    /\ item[q].state = "working" => item[q].attempt >= 1 /\ item[q].winner = 0
    /\ item[q].state = "done" => effects[q] = 1
    /\ effects[q] \in {0, 1}
    /\ \A a \in P!Attempts : handler[q][a] = "applied" => effects[q] = 1
    /\ verdict[q] = "refused" => item[q].state = "none"

SInv == P!TypeOK /\ \A q \in Ops : Sound(q)

(* Nothing is done about an operation before its request is durable. *)
Bound(q) == item[q].state # "none" \/ orphans[q] > 0 => Sent(q)

(* What the store has recorded, the participant has confirmed. *)
Caused(w) ==
    /\ \A s \in Steps :
          /\ op[w][s] = "succeeded" => DoneOp(<<w, s, "op">>)
          /\ cp[w][s] = "reversed" => DoneOp(<<w, s, "cp">>)
          /\ cp[w][s] = "unresolved" =>
                 missed[w][s]["cp"] >= MinAttempts \/ Refuted(<<w, s, "cp">>)
          /\ wf[w].trigger = s => Refuted(<<w, s, "op">>)
    /\ wf[w].trigger = FailNode => AllDone(w)

(* A trigger is recorded exactly when the workflow has turned round, and no *)
(* compensation is bound before.                                            *)
Turned(w) ==
    /\ wf[w].trigger = NoTrigger => \A s \in Steps : cp[w][s] \in {"none", "active"}
    /\ wf[w].state \in {"reversing", "reversed", "failed"} => wf[w].trigger # NoTrigger
    /\ wf[w].state = "completed" => wf[w].trigger = NoTrigger

(* A driver under way, and what its stage says of the world. *)
Busy == [at: {"choose", "bind", "wait", "get", "poll", "act", "fail"},
         w: Workflows, dir: {"forward", "reverse"}, s: Steps,
         again: BOOLEAN, resend: BOOLEAN, by: 0 .. MaxAttempts,
         got: {"none", "done", "pending", "rejected", "unknown"}]

Truthful(d) ==
    /\ \A q \in Ops : q = OpOf(d) =>
          /\ d.at \in {"wait", "get", "poll"} => Sent(q)
          /\ d.at = "act" /\ d.got = "done" => DoneOp(q)
          /\ d.at = "act" /\ d.got = "rejected" => Refuted(q)
    /\ d.at = "fail" => \A w \in Workflows : w = d.w => AllDone(w)

DriversTyped == drv \in [Executors -> Busy \cup {Idle}]
DriversTruthful == \A x \in Executors, d \in Busy : drv[x] = d => Truthful(d)
OrphansTyped == orphans \in [Ops -> 0 .. MaxOrphans]

DInv ==
    /\ IInv
    /\ \A w \in Workflows : Turned(w)
    /\ SInv
    /\ \A w \in Workflows : Caused(w)
    /\ \A q \in Ops : Bound(q)
    /\ OrphansTyped
    /\ DriversTyped
    /\ DriversTruthful

-----------------------------------------------------------------------------
(* Operations and drivers *)

LEMMA OpsFacts ==
    /\ \A w \in Workflows, s \in Steps : <<w, s, "op">> \in Ops /\ <<w, s, "cp">> \in Ops
    /\ \A q \in Ops : /\ q[1] \in Workflows /\ q[2] \in Steps /\ q[3] \in {"op", "cp"}
                      /\ q = <<q[1], q[2], q[3]>>
BY DEF Ops

LEMMA OpOfFacts ==
    ASSUME NEW d \in Busy
    PROVE  /\ OpOf(d) \in Ops
           /\ d.dir = "forward" => OpOf(d) = <<d.w, d.s, "op">>
           /\ d.dir = "reverse" => OpOf(d) = <<d.w, d.s, "cp">>
BY DEF Busy, OpOf, Ops

LEMMA SentFacts ==
    ASSUME NEW w \in Workflows, NEW s \in Steps
    PROVE  /\ Sent(<<w, s, "op">>) <=> op[w][s] # "none"
           /\ Sent(<<w, s, "cp">>) <=> cp[w][s] \notin {"none", "active"}
BY DEF Sent

(* A driver that is not idle is under way. *)
LEMMA BusyDriver ==
    ASSUME DriversTyped, DriversTruthful, NEW x \in Executors, drv[x].at # "idle"
    PROVE  drv[x] \in Busy /\ Truthful(drv[x])
<1>1. drv[x] \in Busy
  BY DEF DriversTyped, Idle
<1>2. \E d \in Busy : drv[x] = d /\ Truthful(d)
  BY <1>1 DEF DriversTruthful
<1> QED
  BY <1>1, <1>2

-----------------------------------------------------------------------------
(* Evidence lasts *)

Stable ==
    /\ \A q \in Ops : /\ Sent(q) => Sent(q)'
                      /\ DoneOp(q) => DoneOp(q)'
                      /\ Refuted(q) => Refuted(q)'
    /\ \A w \in Workflows : AllDone(w) => AllDone(w)'

(* The drivers that do not move stay truthful, for what they know lasts. *)
LEMMA TruthLasts ==
    ASSUME Stable, NEW d \in Busy, Truthful(d)
    PROVE  Truthful(d)'
<1>1. ASSUME NEW q \in Ops, q = OpOf(d)
      PROVE  /\ d.at \in {"wait", "get", "poll"} => Sent(q)'
             /\ d.at = "act" /\ d.got = "done" => DoneOp(q)'
             /\ d.at = "act" /\ d.got = "rejected" => Refuted(q)'
  BY <1>1 DEF Stable, Truthful
<1>2. ASSUME NEW w \in Workflows, w = d.w, d.at = "fail"
      PROVE  AllDone(w)'
  BY <1>2 DEF Stable, Truthful
<1> QED
  BY <1>1, <1>2 DEF Truthful

LEMMA OneDriverMoves ==
    ASSUME DriversTyped, DriversTruthful, Stable, NEW x \in Executors, NEW e \in Busy \cup {Idle},
           Goes(x, e), e \in Busy => Truthful(e)'
    PROVE  DriversTyped' /\ DriversTruthful'
<1>1. DriversTyped'
  BY DEF DriversTyped, Goes
<1>2. ASSUME NEW y \in Executors, NEW d \in Busy, drv'[y] = d
      PROVE  Truthful(d)'
  <2>1. CASE y = x
    BY <1>2, <2>1 DEF DriversTyped, Goes
  <2>2. CASE y # x
    <3>1. drv[y] = d
      BY <1>2, <2>2 DEF DriversTyped, Goes
    <3> QED
      BY <3>1, TruthLasts DEF DriversTruthful
  <2> QED
    BY <2>1, <2>2
<1> QED
  BY <1>1, <1>2 DEF DriversTruthful

LEMMA NoDriverMoves ==
    ASSUME DriversTyped, DriversTruthful, Stable, UNCHANGED drv
    PROVE  DriversTyped' /\ DriversTruthful'
<1>1. DriversTyped'
  BY DEF DriversTyped
<1>2. ASSUME NEW y \in Executors, NEW d \in Busy, drv'[y] = d
      PROVE  Truthful(d)'
  BY <1>2, TruthLasts DEF DriversTruthful
<1> QED
  BY <1>1, <1>2 DEF DriversTruthful

LEMMA StillStable ==
    ASSUME UNCHANGED <<engine, service>>
    PROVE  Stable
BY DEF engine, service, vars, Stable, Sent, DoneOp, Refuted, AllDone

-----------------------------------------------------------------------------
(* A step of the store *)

LEMMA EngineStable ==
    ASSUME IInv, NEW w \in Workflows, Shape(w), UNCHANGED service
    PROVE  Stable
<1>1. \A q \in Ops : /\ DoneOp(q) => DoneOp(q)'
                     /\ Refuted(q) => Refuted(q)'
  BY DEF service, DoneOp, Refuted
<1>2. ASSUME NEW v \in Workflows, NEW s \in Steps
      PROVE  /\ op[v][s] # "none" => op'[v][s] # "none"
             /\ op[v][s] = "succeeded" => op'[v][s] = "succeeded"
             /\ cp[v][s] \notin {"none", "active"} => cp'[v][s] \notin {"none", "active"}
  <2>1. CASE v # w
    BY <2>1 DEF Shape, Same
  <2>2. CASE v = w
    <3>0. TypeOK /\ LInv(w)
      BY DEF IInv
    <3>1. CASE op'[w] = op[w] /\ cp'[w] = cp[w]
      BY <2>2, <3>1
    <3>2. CASE \E r \in Steps : RequestMove(w, r)
      BY <2>2, <3>0, <3>2 DEF RequestMove, TypeOK
    <3>3. CASE \E r \in Steps : SettleMove(w, r)
      <4>1. PICK r \in Steps : SettleMove(w, r)
        BY <3>3
      <4>2. cp[w][r] = "none" /\ op[w][r] = "requested"
        BY <3>0, <4>1 DEF SettleMove, LInv, FollowsPlan
      <4> QED
        BY <2>2, <3>0, <4>1, <4>2 DEF SettleMove, TypeOK
    <3>4. CASE \E r \in Steps : BindMove(w, r) \/ UndoMove(w, r) \/ StickMove(w, r)
      <4>1. PICK r \in Steps, c \in {"dispatched", "reversed", "unresolved"} :
               op'[w] = op[w] /\ cp'[w] = [cp[w] EXCEPT ![r] = c]
        BY <3>4 DEF BindMove, UndoMove, StickMove
      <4> QED
        BY <2>2, <3>0, <4>1 DEF TypeOK
    <3> QED
      BY <3>1, <3>2, <3>3, <3>4 DEF Shape, Move, LeaseMove, CreateMove, ParkMove, GiveUpMove, SameRows
  <2> QED
    BY <2>1, <2>2
<1>3. \A q \in Ops : Sent(q) => Sent(q)'
  BY <1>2, OpsFacts DEF Sent
<1>4. \A v \in Workflows : AllDone(v) => AllDone(v)'
  <2>1. \A v \in Workflows : Plan(v) \subseteq Steps
    BY StepFacts DEF Plan, Steps
  <2> QED
    BY <1>2, <2>1 DEF AllDone
<1> QED
  BY <1>1, <1>3, <1>4 DEF Stable

LEMMA EngineTurns ==
    ASSUME IInv, NEW w \in Workflows, Shape(w), \A v \in Workflows : Turned(v)
    PROVE  \A v \in Workflows : Turned(v)'
<1> SUFFICES ASSUME NEW v \in Workflows
             PROVE  Turned(v)'
  OBVIOUS
<1>1. CASE v # w
  BY <1>1 DEF Shape, Same, Turned
<1>2. CASE v = w
  <2>0. TypeOK /\ LInv(w) /\ Turned(w)
    BY DEF IInv
  <2>1. CASE LeaseMove(w) \/ CreateMove(w) \/ ParkMove(w)
    BY <1>2, <2>0, <2>1
    DEF LeaseMove, CreateMove, ParkMove, SameLife, Becomes, SameRows, Turned, LInv, NotUnwinding
  <2>2. CASE GiveUpMove(w)
    <3>1. PICK t \in {FailNode} \cup Steps : wf'[w].trigger = t /\ wf'[w].state \in {"failed", "reversing"}
      BY <2>2 DEF GiveUpMove, Becomes
    <3>2. t # NoTrigger
      BY StepFacts DEF FailNode, NoTrigger
    <3> QED
      BY <1>2, <3>1, <3>2 DEF Turned
  <2>3. CASE \E s \in Steps : RequestMove(w, s)
    BY <1>2, <2>0, <2>3 DEF RequestMove, SameLife, Turned
  <2>4. CASE \E s \in Steps : SettleMove(w, s)
    BY <1>2, <2>0, <2>4 DEF SettleMove, SameLife, Becomes, Turned, LInv, NotUnwinding, TypeOK
  <2>5. CASE \E s \in Steps : BindMove(w, s) \/ UndoMove(w, s) \/ StickMove(w, s)
    BY <1>2, <2>0, <2>5 DEF BindMove, UndoMove, StickMove, SameLife, Becomes, Turned, TypeOK
  <2> QED
    BY <2>1, <2>2, <2>3, <2>4, <2>5 DEF Shape, Move
<1> QED
  BY <1>1, <1>2

(* What the step adds to the rows of w is what the participant confirms. *)
Justified(w) ==
    /\ \A s \in Steps :
          /\ op'[w][s] = "succeeded" => op[w][s] = "succeeded" \/ DoneOp(<<w, s, "op">>)
          /\ cp'[w][s] = "reversed" => cp[w][s] = "reversed" \/ DoneOp(<<w, s, "cp">>)
          /\ cp'[w][s] = "unresolved" =>
                 \/ cp[w][s] = "unresolved"
                 \/ missed'[w][s]["cp"] >= MinAttempts
                 \/ Refuted(<<w, s, "cp">>)
          /\ missed[w][s]["cp"] >= MinAttempts => missed'[w][s]["cp"] >= MinAttempts
          /\ wf'[w].trigger = s => wf[w].trigger = s \/ Refuted(<<w, s, "op">>)
    /\ wf'[w].trigger = FailNode => wf[w].trigger = FailNode \/ AllDone(w)

EngineStep(w) == Shape(w) /\ Justified(w) /\ UNCHANGED service

LEMMA EngineCauses ==
    ASSUME IInv, NEW w \in Workflows, EngineStep(w), \A v \in Workflows : Caused(v)
    PROVE  \A v \in Workflows : Caused(v)'
<1> SUFFICES ASSUME NEW v \in Workflows
             PROVE  Caused(v)'
  OBVIOUS
<1>0. Stable /\ Shape(w) /\ UNCHANGED service
  BY EngineStable DEF EngineStep
<1>1. \A q \in Ops : DoneOp(q)' = DoneOp(q) /\ Refuted(q)' = Refuted(q)
  BY <1>0 DEF service, DoneOp, Refuted
<1>2. \A s \in Steps : <<v, s, "op">> \in Ops /\ <<v, s, "cp">> \in Ops
  BY OpsFacts
<1>3. CASE v # w
  <2>1. Same(v)
    BY <1>0, <1>3 DEF Shape
  <2>2. AllDone(v)' = AllDone(v)
    BY <2>1 DEF Same, AllDone
  <2> QED
    BY <1>1, <1>2, <2>1, <2>2 DEF Same, Caused
<1>4. CASE v = w
  <2>1. Justified(w) /\ Caused(w)
    BY DEF EngineStep
  <2>2. wf'[w].trigger = FailNode => AllDone(w)'
    BY <1>0, <2>1 DEF Justified, Caused, Stable
  <2>3. ASSUME NEW s \in Steps
        PROVE  /\ op'[w][s] = "succeeded" => DoneOp(<<w, s, "op">>)
               /\ cp'[w][s] = "reversed" => DoneOp(<<w, s, "cp">>)
               /\ cp'[w][s] = "unresolved" =>
                     missed'[w][s]["cp"] >= MinAttempts \/ Refuted(<<w, s, "cp">>)
               /\ wf'[w].trigger = s => Refuted(<<w, s, "op">>)
    BY <2>1 DEF Justified, Caused
  <2> QED
    BY <1>1, <1>2, <1>4, <2>2, <2>3 DEF Caused
<1> QED
  BY <1>3, <1>4

LEMMA EngineKeeps ==
    ASSUME DInv, NEW w \in Workflows, EngineStep(w), UNCHANGED orphans, DriversTyped', DriversTruthful'
    PROVE  DInv'
<1>1. IInv' /\ Stable /\ Shape(w) /\ UNCHANGED service
  BY MoveKeeps, EngineStable DEF DInv, EngineStep
<1>2. \A v \in Workflows : Turned(v)'
  BY <1>1, EngineTurns DEF DInv
<1>3. SInv'
  BY <1>1 DEF DInv, SInv, Sound, service, P!TypeOK, P!Attempts
<1>4. \A v \in Workflows : Caused(v)'
  BY EngineCauses DEF DInv
<1>5. \A q \in Ops : Bound(q)'
  BY <1>1 DEF DInv, Bound, Stable, service
<1>6. OrphansTyped'
  BY DEF DInv, OrphansTyped
<1> QED
  BY <1>1, <1>2, <1>3, <1>4, <1>5, <1>6 DEF DInv

LEMMA NothingHappens ==
    ASSUME DInv, UNCHANGED <<engine, service>>, OrphansTyped', DriversTyped', DriversTruthful',
           \A q \in Ops : orphans'[q] > 0 => orphans[q] > 0 \/ Sent(q)
    PROVE  DInv'
<1>1. Stable
  BY StillStable
<1>2. IInv'
  BY UnchangedKeeps DEF DInv, engine
<1>3. \A v \in Workflows : Turned(v)'
  BY DEF DInv, Turned, engine, vars
<1>4. SInv'
  BY DEF DInv, SInv, Sound, service, P!TypeOK, P!Attempts
<1>5. \A v \in Workflows : Caused(v)'
  BY DEF DInv, Caused, AllDone, DoneOp, Refuted, engine, vars, service
<1>6. \A q \in Ops : Bound(q)'
  BY <1>1 DEF DInv, Bound, Stable, service
<1> QED
  BY <1>2, <1>3, <1>4, <1>5, <1>6 DEF DInv

-----------------------------------------------------------------------------
(* What a driver concludes from an answer *)

Answers == {"result", "malformed", "refused", "pending", "unknown", "error"}

LEMMA ChoosingFacts ==
    ASSUME NEW w \in Workflows, NEW dir \in {"forward", "reverse"}
    PROVE  /\ Choosing(w, dir) \in Busy
           /\ Choosing(w, dir).at = "choose"
<1>1. Steps # {} /\ 1 \in Steps /\ 0 \in 0 .. MaxAttempts
  BY WorkflowAssumption, DriveAssumption DEF Steps
<1> QED
  BY <1>1 DEF Choosing, Idle, Busy

(* A driver that claims nothing. *)
LEMMA SilentIsTruthful ==
    ASSUME NEW e \in Busy,
           e.at \in {"choose", "bind"} \/ (e.at = "act" /\ e.got \in {"pending", "unknown"})
    PROVE  Truthful(e)'
BY DEF Truthful

LEMMA SendingFacts ==
    ASSUME NEW d \in Busy, NEW b \in BOOLEAN
    PROVE  /\ Sending(d, b) \in Busy
           /\ Sending(d, b).at = "wait"
           /\ OpOf(Sending(d, b)) = OpOf(d)
<1>1. 0 \in 0 .. MaxAttempts
  BY DriveAssumption
<1> QED
  BY <1>1 DEF Sending, Busy, OpOf

LEMMA ActingFacts ==
    ASSUME NEW d \in Busy, NEW got \in {"done", "pending", "rejected", "unknown"}
    PROVE  /\ Acting(d, got) \in Busy
           /\ Acting(d, got).at = "act" /\ Acting(d, got).got = got
           /\ OpOf(Acting(d, got)) = OpOf(d)
<1>1. 0 \in 0 .. MaxAttempts
  BY DriveAssumption
<1> QED
  BY <1>1 DEF Acting, Busy, OpOf

(* A driver that asks for its operation. *)
LEMMA SentIsTruthful ==
    ASSUME NEW e \in Busy, NEW q \in Ops, OpOf(e) = q, e.at \in {"wait", "get", "poll"}, Sent(q)'
    PROVE  Truthful(e)'
BY DEF Truthful

Concludes(d, e, st) ==
    /\ e \in Busy
    /\ OpOf(e) = OpOf(d)
    /\ e.at \in {"wait", "get", "poll", "act"}
    /\ e.at = "act" /\ e.got = "done" => st = "result"
    /\ e.at = "act" /\ e.got = "rejected" => st \in {"malformed", "refused"}

LEMMA ObservedConcludes ==
    ASSUME NEW d \in Busy, NEW st \in {"result", "malformed", "refused", "pending"}
    PROVE  Concludes(d, Observed(d, st), st)
<1>1. CASE st = "result"
  BY <1>1, ActingFacts DEF Observed, Concludes
<1>2. CASE st \in {"malformed", "refused"}
  BY <1>2, ActingFacts DEF Observed, Concludes
<1>3. CASE st = "pending" /\ d.again
  <2> DEFINE e == [d EXCEPT !.at = "poll", !.resend = FALSE, !.by = 0]
  <2>1. Observed(d, st) = e
    BY <1>3 DEF Observed
  <2>2. 0 \in 0 .. MaxAttempts
    BY DriveAssumption
  <2>3. e \in Busy /\ OpOf(e) = OpOf(d) /\ e.at = "poll"
    BY <2>2 DEF Busy, OpOf
  <2> QED
    BY <2>1, <2>3 DEF Concludes
<1>4. CASE st = "pending" /\ ~ d.again
  BY <1>4, ActingFacts DEF Observed, Concludes
<1> QED
  BY <1>1, <1>2, <1>3, <1>4

LEMMA PutConcludes ==
    ASSUME NEW d \in Busy, NEW st \in Answers
    PROVE  Concludes(d, PutAnswered(d, st), st)
<1>1. CASE st \in {"result", "malformed", "refused", "pending"}
  BY <1>1, ObservedConcludes DEF PutAnswered
<1>2. CASE st = "unknown" /\ d.resend
  BY <1>2, ActingFacts DEF PutAnswered, Concludes
<1>3. CASE st = "error" \/ (st = "unknown" /\ ~ d.resend)
  <2> DEFINE e == [d EXCEPT !.at = "get", !.by = 0]
  <2>1. PutAnswered(d, st) = e
    BY <1>3 DEF PutAnswered
  <2>2. 0 \in 0 .. MaxAttempts
    BY DriveAssumption
  <2>3. e \in Busy /\ OpOf(e) = OpOf(d) /\ e.at = "get"
    BY <2>2 DEF Busy, OpOf
  <2> QED
    BY <2>1, <2>3 DEF Concludes
<1> QED
  BY <1>1, <1>2, <1>3 DEF Answers

LEMMA GetConcludes ==
    ASSUME NEW d \in Busy, NEW st \in Answers \ {"refused"}
    PROVE  Concludes(d, GetAnswered(d, st), st)
<1>1. CASE st \in {"result", "malformed", "pending"}
  BY <1>1, ObservedConcludes DEF GetAnswered
<1>2. CASE st = "unknown" /\ ~ d.resend
  BY <1>2, SendingFacts DEF GetAnswered, Concludes
<1>3. CASE st = "unknown" /\ d.resend
  BY <1>3, ActingFacts DEF GetAnswered, Concludes
<1>4. CASE st = "error"
  BY <1>4, ActingFacts DEF GetAnswered, Concludes
<1> QED
  BY <1>1, <1>2, <1>3, <1>4 DEF Answers

LEMMA ConcludesTruthful ==
    ASSUME NEW d \in Busy, NEW e \in Busy, NEW st, NEW q \in Ops, q = OpOf(d), Concludes(d, e, st),
           Sent(q)', st = "result" => DoneOp(q)', st \in {"malformed", "refused"} => Refuted(q)'
    PROVE  Truthful(e)'
BY DEF Concludes, Truthful

(* The participant answers the truth. *)
LEMMA PutReplyIsTrue ==
    ASSUME SInv, NEW q \in Ops, NEW st \in P!PutReplies(q)
    PROVE  /\ st \in Answers
           /\ st = "result" => DoneOp(q)
           /\ st \in {"malformed", "refused"} => Refuted(q)
<1>1. Sound(q) /\ verdict[q] \in {"result", "malformed", "refused"}
  BY DEF SInv, P!TypeOK, P!Verdicts
<1> QED
  BY <1>1 DEF P!PutReplies, P!Terminal, Sound, DoneOp, Refuted, Answers

LEMMA GetReplyIsTrue ==
    ASSUME SInv, NEW q \in Ops
    PROVE  /\ P!GetReply(q) \in Answers \ {"refused"}
           /\ P!GetReply(q) = "result" => DoneOp(q)
           /\ P!GetReply(q) \in {"malformed", "refused"} => Refuted(q)
<1>1. /\ Sound(q) /\ verdict[q] \in {"result", "malformed", "refused"}
      /\ item[q].state \in {"none", "working", "done"}
  BY DEF SInv, P!TypeOK, P!Verdicts, P!Item
<1> QED
  BY <1>1 DEF P!GetReply, P!Terminal, Sound, DoneOp, Refuted, Answers

-----------------------------------------------------------------------------
(* The steps of a driver that change nothing but the driver *)

LEMMA DriverMoves ==
    ASSUME DInv, UNCHANGED <<engine, service, orphans>>, NEW x \in Executors,
           NEW e \in Busy \cup {Idle}, Goes(x, e), e \in Busy => Truthful(e)'
    PROVE  DInv'
<1>1. DriversTyped' /\ DriversTruthful'
  BY StillStable, OneDriverMoves DEF DInv
<1> QED
  BY <1>1, NothingHappens DEF DInv, OrphansTyped

LEMMA DriverStops ==
    ASSUME DInv, UNCHANGED <<engine, service, orphans>>, NEW x \in Executors, Stops(x)
    PROVE  DInv'
BY DriverMoves DEF Stops, Idle, Busy

LEMMA ChooseForwardKeeps ==
    ASSUME DInv, NEW x \in Executors, ChooseForward(x)
    PROVE  DInv'
<1>1. PICK d \in Busy : d = drv[x] /\ UNCHANGED <<engine, service, orphans>>
  BY BusyDriver DEF ChooseForward, DInv, world
<1>2. CASE \E s \in NextStep(d.w) :
              Goes(x, [d EXCEPT !.at = "bind", !.s = s, !.again = (op[d.w][s] = "requested")])
  <2>1. PICK s \in NextStep(d.w) :
              Goes(x, [d EXCEPT !.at = "bind", !.s = s, !.again = (op[d.w][s] = "requested")])
    BY <1>2
  <2>2. s \in Steps
    BY <1>1, StepFacts DEF NextStep, Unsettled, Plan, Steps, Busy
  <2> DEFINE e == [d EXCEPT !.at = "bind", !.s = s, !.again = (op[d.w][s] = "requested")]
  <2>3. e \in Busy /\ e.at = "bind"
    BY <1>1, <2>2 DEF Busy
  <2> QED
    BY <1>1, <2>1, <2>3, SilentIsTruthful, DriverMoves
<1>3. CASE Unsettled(d.w) = {} /\ Goes(x, [d EXCEPT !.at = "fail"])
  <2> DEFINE e == [d EXCEPT !.at = "fail"]
  <2>1. e \in Busy /\ e.at = "fail" /\ e.w = d.w
    BY <1>1 DEF Busy
  <2>2. ASSUME NEW w \in Workflows, w = d.w
        PROVE  AllDone(w)'
    <3>1. AllDone(w)
      BY <1>3, <2>2 DEF Unsettled, AllDone
    <3> QED
      BY <1>1, <3>1 DEF AllDone, engine, vars
  <2>3. Truthful(e)'
    BY <2>1, <2>2 DEF Truthful
  <2> QED
    BY <1>1, <1>3, <2>1, <2>3, DriverMoves
<1>4. CASE Goes(x, Idle)
  BY <1>1, <1>4, DriverStops DEF Stops
<1> QED
  BY <1>1, <1>2, <1>3, <1>4 DEF ChooseForward

LEMMA ChooseReverseKeeps ==
    ASSUME DInv, NEW x \in Executors, ChooseReverse(x)
    PROVE  DInv'
<1>1. PICK d \in Busy : d = drv[x] /\ d.dir = "reverse" /\ UNCHANGED <<engine, service, orphans>>
  BY BusyDriver DEF ChooseReverse, DInv, world
<1>2. CASE Goes(x, Acting(d, "pending"))
  BY <1>1, <1>2, ActingFacts, SilentIsTruthful, DriverMoves
<1>3. ASSUME NEW s \in ReverseHead(d.w),
             Goes(x, IF cp[d.w][s] = "active" THEN [d EXCEPT !.at = "bind", !.s = s]
                     ELSE [d EXCEPT !.at = "get", !.s = s, !.again = TRUE])
      PROVE  DInv'
  <2>1. s \in Steps /\ d.w \in Workflows /\ cp[d.w][s] \in {"active", "dispatched"}
    BY <1>1 DEF ReverseHead, IsTop, Active, Busy
  <2>2. CASE cp[d.w][s] = "active"
    <3> DEFINE e == [d EXCEPT !.at = "bind", !.s = s]
    <3>1. e \in Busy /\ e.at = "bind"
      BY <1>1, <2>1 DEF Busy
    <3> QED
      BY <1>1, <1>3, <2>2, <3>1, SilentIsTruthful, DriverMoves
  <2>3. CASE cp[d.w][s] = "dispatched"
    <3> DEFINE e == [d EXCEPT !.at = "get", !.s = s, !.again = TRUE]
    <3>1. e \in Busy /\ e.at = "get" /\ e.dir = "reverse" /\ e.w = d.w /\ e.s = s
      BY <1>1, <2>1 DEF Busy
    <3>2. OpOf(e) = <<d.w, s, "cp">> /\ OpOf(e) \in Ops
      BY <3>1, OpOfFacts
    <3>3. Sent(<<d.w, s, "cp">>)
      BY <2>1, <2>3, SentFacts
    <3>4. Truthful(e)'
      BY <1>1, <3>1, <3>2, <3>3, StillStable, SentIsTruthful DEF Stable
    <3> QED
      BY <1>1, <1>3, <2>3, <3>1, <3>4, DriverMoves
  <2> QED
    BY <2>1, <2>2, <2>3
<1> QED
  BY <1>1, <1>2, <1>3 DEF ChooseReverse

LEMMA FindBindingKeeps ==
    ASSUME DInv, NEW x \in Executors, FindBinding(x)
    PROVE  DInv'
<1>1. PICK d \in Busy : d = drv[x] /\ d.dir = "reverse" /\ UNCHANGED <<engine, service, orphans>>
  BY BusyDriver DEF FindBinding, DInv, world
<1>2. CASE cp[d.w][d.s] = "dispatched" /\ Goes(x, Sending(d, FALSE))
  <2>1. d.w \in Workflows /\ d.s \in Steps
    BY <1>1 DEF Busy
  <2>2. PICK q \in Ops : q = OpOf(d) /\ Sent(q)
    BY <1>1, <1>2, <2>1, OpOfFacts, SentFacts
  <2>3. PICK e \in Busy : e = Sending(d, FALSE) /\ e.at = "wait" /\ OpOf(e) = q
    BY <2>2, SendingFacts
  <2>4. Sent(q)'
    BY <1>1, <2>2, StillStable DEF Stable
  <2>5. Truthful(e)'
    BY <2>3, <2>4, SentIsTruthful
  <2> QED
    BY <1>1, <1>2, <2>3, <2>5, DriverMoves
<1>3. CASE Goes(x, Choosing(d.w, "reverse"))
  <2>1. d.w \in Workflows
    BY <1>1 DEF Busy
  <2> QED
    BY <1>1, <1>3, <2>1, ChoosingFacts, SilentIsTruthful, DriverMoves
<1> QED
  BY <1>1, <1>2, <1>3 DEF FindBinding

(* A driver takes an answer that is true. *)
LEMMA AnswerTaken ==
    ASSUME DInv, UNCHANGED <<engine, service, orphans>>, NEW x \in Executors,
           NEW d \in Busy, drv[x] = d, d.at \in {"wait", "get", "poll"},
           NEW st, NEW e, Concludes(d, e, st), Goes(x, e),
           st = "result" => DoneOp(OpOf(d)), st \in {"malformed", "refused"} => Refuted(OpOf(d))
    PROVE  DInv'
<1> DEFINE q == OpOf(d)
<1>1. e \in Busy /\ q \in Ops
  BY OpOfFacts DEF Concludes
<1>2. Stable
  BY StillStable
<1>3. Sent(q)
  <2>1. Truthful(d)
    BY DEF DInv, DriversTruthful
  <2> QED
    BY <1>1, <2>1 DEF Truthful
<1>4. PICK r \in Ops : r = OpOf(d)
  BY <1>1
<1>5. /\ Sent(r)'
      /\ st = "result" => DoneOp(r)'
      /\ st \in {"malformed", "refused"} => Refuted(r)'
  BY <1>2, <1>3, <1>4 DEF Stable
<1>6. Truthful(e)'
  BY <1>1, <1>4, <1>5, ConcludesTruthful
<1> QED
  BY <1>1, <1>6, DriverMoves

LEMMA GetKeeps ==
    ASSUME DInv, NEW x \in Executors, Get(x)
    PROVE  DInv'
<1>1. PICK d \in Busy : d = drv[x] /\ d.at = "get" /\ UNCHANGED <<engine, service, orphans>>
  BY BusyDriver DEF Get, DInv, world
<1>2. SInv /\ OpOf(d) \in Ops
  BY OpOfFacts DEF DInv
<1>3. PICK st \in Answers \ {"refused"} :
        /\ st = IF routed THEN P!GetReply(OpOf(d)) ELSE "unknown"
        /\ st = "result" => DoneOp(OpOf(d))
        /\ st \in {"malformed", "refused"} => Refuted(OpOf(d))
  BY <1>2, GetReplyIsTrue DEF Answers
<1>4. Goes(x, GetAnswered(d, st))
  BY <1>1, <1>3 DEF Get
<1>5. Concludes(d, GetAnswered(d, st), st)
  BY GetConcludes
<1> QED
  BY <1>1, <1>3, <1>4, <1>5, AnswerTaken

LEMMA HangUpKeeps ==
    ASSUME DInv, NEW x \in Executors, HangUp(x)
    PROVE  DInv'
<1>1. PICK d \in Busy : d = drv[x] /\ d.at = "wait" /\ UNCHANGED <<engine, service, orphans>>
  BY BusyDriver DEF HangUp, DInv, world
<1>2. Goes(x, PutAnswered(d, "error")) /\ Concludes(d, PutAnswered(d, "error"), "error")
  BY <1>1, PutConcludes DEF HangUp, Answers
<1> QED
  BY <1>1, <1>2, AnswerTaken

LEMMA FenceLostKeeps ==
    ASSUME DInv, NEW x \in Executors, FenceLost(x)
    PROVE  DInv'
BY DriverStops DEF FenceLost, world

-----------------------------------------------------------------------------
(* Drivers that die or lose patience *)

LEMMA PutsLeftBehind ==
    ASSUME DInv, NEW d \in Busy, NEW x \in Executors, drv[x] = d, LeavesBehind(d)
    PROVE  OrphansTyped' /\ \A q \in Ops : orphans'[q] > 0 => orphans[q] > 0 \/ Sent(q)
<1>1. CASE UNCHANGED orphans
  BY <1>1 DEF DInv, OrphansTyped
<1>2. CASE /\ d.at = "wait" /\ orphans[OpOf(d)] < MaxOrphans
           /\ orphans' = [orphans EXCEPT ![OpOf(d)] = @ + 1]
  <2>1. OpOf(d) \in Ops /\ Truthful(d)
    BY OpOfFacts DEF DInv, DriversTruthful
  <2>2. Sent(OpOf(d))
    BY <1>2, <2>1 DEF Truthful
  <2>3. orphans[OpOf(d)] + 1 \in 0 .. MaxOrphans
    BY <1>2, <2>1, DriveAssumption DEF DInv, OrphansTyped
  <2> QED
    BY <1>2, <2>1, <2>2, <2>3 DEF DInv, OrphansTyped
<1> QED
  BY <1>1, <1>2 DEF LeavesBehind

LEMMA CrashKeeps ==
    ASSUME DInv, NEW x \in Executors, Crash(x)
    PROVE  DInv'
<1>1. drv[x] \in Busy /\ UNCHANGED <<engine, service>>
  BY BusyDriver DEF Crash, DInv
<1>2. DriversTyped' /\ DriversTruthful'
  BY <1>1, StillStable, OneDriverMoves DEF Crash, DInv, Stops, Idle, Busy
<1>3. OrphansTyped' /\ \A q \in Ops : orphans'[q] > 0 => orphans[q] > 0 \/ Sent(q)
  BY <1>1, PutsLeftBehind DEF Crash
<1> QED
  BY <1>1, <1>2, <1>3, NothingHappens

LEMMA TimeOutKeeps ==
    ASSUME DInv, NEW x \in Executors, TimeOut(x)
    PROVE  DInv'
<1>1. PICK d \in Busy : d = drv[x] /\ Truthful(d) /\ d.at \in {"wait", "get"}
  BY BusyDriver DEF TimeOut, DInv
<1>2. UNCHANGED <<engine, service>>
  BY DEF TimeOut
<1>3. PICK e : e = IF d.at = "wait" THEN PutAnswered(d, "error") ELSE GetAnswered(d, "error")
  OBVIOUS
<1>4. Concludes(d, e, "error") /\ e \in Busy
  BY <1>3, PutConcludes, GetConcludes DEF Answers, Concludes
<1>5. PICK q \in Ops : q = OpOf(d)
  BY OpOfFacts
<1>6. Stable /\ Sent(q)'
  BY <1>1, <1>2, <1>5, StillStable DEF Truthful, Stable
<1>7. Truthful(e)'
  BY <1>4, <1>5, <1>6, ConcludesTruthful
<1>8. Goes(x, e)
  BY <1>1, <1>3 DEF TimeOut
<1>9. DriversTyped' /\ DriversTruthful'
  BY <1>4, <1>6, <1>7, <1>8, OneDriverMoves DEF DInv
<1>10. OrphansTyped' /\ \A p \in Ops : orphans'[p] > 0 => orphans[p] > 0 \/ Sent(p)
  BY <1>1, PutsLeftBehind DEF TimeOut
<1> QED
  BY <1>2, <1>9, <1>10, NothingHappens

-----------------------------------------------------------------------------
(* Steps of the participant *)

(* What is done stays done, what is executed was asked for, and nothing is  *)
(* executed twice.                                                          *)
ServiceStep ==
    /\ SInv'
    /\ UNCHANGED verdict
    /\ \A q \in Ops :
          /\ item[q].state = "done" => item'[q].state = "done"
          /\ item'[q].state # "none" => item[q].state # "none" \/ Sent(q)
          /\ effects'[q] = effects[q] \/ (item[q].state = "working" /\ effects[q] = 0)

LEMMA ServiceStable ==
    ASSUME SInv, ServiceStep, UNCHANGED engine
    PROVE  Stable
<1>1. ASSUME NEW q \in Ops
      PROVE  /\ DoneOp(q) => DoneOp(q)'
             /\ Refuted(q) => Refuted(q)'
  <2>1. /\ verdict' = verdict
        /\ item[q].state = "done" => item'[q].state = "done"
        /\ effects'[q] = effects[q] \/ effects[q] = 0
    BY DEF ServiceStep
  <2> QED
    BY <2>1 DEF DoneOp, Refuted
<1>2. \A q \in Ops : Sent(q) => Sent(q)'
  BY DEF Sent, engine, vars
<1>3. \A w \in Workflows : AllDone(w) => AllDone(w)'
  BY DEF AllDone, engine, vars
<1> QED
  BY <1>1, <1>2, <1>3 DEF Stable

LEMMA ServiceKeeps ==
    ASSUME DInv, ServiceStep, UNCHANGED engine, OrphansTyped', \A q \in Ops : orphans'[q] <= orphans[q],
           DriversTyped', DriversTruthful'
    PROVE  DInv'
<1>1. Stable
  BY ServiceStable DEF DInv
<1>2. IInv'
  BY UnchangedKeeps DEF DInv, engine
<1>3. \A v \in Workflows : Turned(v)'
  BY DEF DInv, Turned, engine, vars
<1>4. ASSUME NEW v \in Workflows
      PROVE  Caused(v)'
  <2>1. \A s \in Steps : <<v, s, "op">> \in Ops /\ <<v, s, "cp">> \in Ops
    BY OpsFacts
  <2>2. Caused(v) /\ AllDone(v)' = AllDone(v)
    BY DEF DInv, AllDone, engine, vars
  <2>3. \A s \in Steps :
           /\ DoneOp(<<v, s, "op">>) => DoneOp(<<v, s, "op">>)'
           /\ DoneOp(<<v, s, "cp">>) => DoneOp(<<v, s, "cp">>)'
           /\ Refuted(<<v, s, "op">>) => Refuted(<<v, s, "op">>)'
           /\ Refuted(<<v, s, "cp">>) => Refuted(<<v, s, "cp">>)'
    BY <1>1, <2>1 DEF Stable
  <2> QED
    BY <2>2, <2>3 DEF Caused, engine, vars
<1>5. ASSUME NEW q \in Ops
      PROVE  Bound(q)'
  <2>1. orphans'[q] > 0 => orphans[q] > 0
    BY DEF DInv, OrphansTyped
  <2> QED
    BY <1>1, <2>1 DEF DInv, Bound, Stable, ServiceStep
<1>6. SInv'
  BY DEF ServiceStep
<1> QED
  BY <1>2, <1>3, <1>4, <1>5, <1>6 DEF DInv

LEMMA AcceptIsService ==
    ASSUME SInv, NEW o \in Ops, Sent(o), P!Accept(o)
    PROVE  ServiceStep /\ item'[o].attempt \in 0 .. MaxAttempts
<1>1. Sound(o) /\ item[o] \in P!Item /\ verdict \in [Ops -> P!Verdicts]
  BY DEF SInv, P!TypeOK
<1> DEFINE n == item[o].attempt + 1
           r == [state |-> "working", attempt |-> n, winner |-> 0, expired |-> FALSE]
<1>2. /\ item[o].attempt \in Nat /\ item[o].state # "done"
      /\ n \in P!Attempts /\ n \in 0 .. MaxAttempts /\ 0 \in 0 .. MaxAttempts
  BY <1>1, DriveAssumption DEF P!Accept, P!MayReclaim, P!Item, P!Attempts
<1>3. r \in P!Item
  BY <1>2 DEF P!Item
<1>4. item' = [item EXCEPT ![o] = r] /\ handler' = [handler EXCEPT ![o][n] = "granted"]
  BY DEF P!Accept, P!Reach
<1> HIDE DEF r, n
<1>5. P!TypeOK'
  <2>1. "granted" \in P!Stages
    BY DEF P!Stages
  <2> QED
    BY <1>2, <1>3, <1>4, <2>1 DEF SInv, P!TypeOK, P!Accept
<1>6. item'[o] = r /\ r.state = "working" /\ r.attempt = n /\ r.winner = 0
  BY <1>4 DEF SInv, P!TypeOK, r
<1>7. ASSUME NEW q \in Ops
      PROVE  /\ Sound(q)'
             /\ item[q].state = "done" => item'[q].state = "done"
             /\ item'[q].state # "none" => item[q].state # "none" \/ Sent(q)
  <2>0. Sound(q) /\ effects'[q] = effects[q] /\ verdict'[q] = verdict[q]
    BY DEF SInv, P!Accept
  <2>1. CASE q = o
    <3>1. n >= 1
      BY <1>2 DEF P!Attempts
    <3>2. \A a \in P!Attempts : handler'[q][a] = "applied" => handler[q][a] = "applied"
      BY <1>2, <1>4, <2>1 DEF SInv, P!TypeOK
    <3>3. verdict[q] # "refused"
      BY <2>1 DEF P!Accept
    <3> QED
      BY <1>2, <1>6, <2>0, <2>1, <3>1, <3>2, <3>3 DEF Sound, P!Attempts
  <2>2. CASE q # o
    <3>1. item'[q] = item[q] /\ handler'[q] = handler[q]
      BY <1>4, <2>2 DEF SInv, P!TypeOK
    <3> QED
      BY <2>0, <3>1 DEF Sound, P!Attempts
  <2> QED
    BY <2>1, <2>2
<1> QED
  BY <1>2, <1>5, <1>6, <1>7 DEF ServiceStep, SInv, P!Accept

(* A handler moves on: it is granted, applies the body, or is gone. *)
LEMMA ReachFacts ==
    ASSUME SInv, NEW o \in Ops, NEW a \in P!Attempts, NEW stage \in {"applied", "gone"},
           P!Reach(o, a, stage)
    PROVE  /\ handler' \in [Ops -> [P!Attempts -> P!Stages]]
           /\ handler'[o][a] = stage
           /\ \A b \in P!Attempts : b # a => handler'[o][b] = handler[o][b]
           /\ \A q \in Ops : q # o => handler'[q] = handler[q]
<1>1. stage \in P!Stages
  BY DEF P!Stages
<1> QED
  BY <1>1 DEF SInv, P!TypeOK, P!Reach

LEMMA ApplyIsService ==
    ASSUME SInv, NEW o \in Ops, NEW a \in P!Attempts, P!Apply(o, a)
    PROVE  ServiceStep
<1>1. /\ Sound(o) /\ effects[o] \in {0, 1} /\ item[o].state \in {"none", "working", "done"}
      /\ P!RunIdempotent(o) = 1 /\ handler[o][a] = "granted"
  BY DEF SInv, Sound, P!TypeOK, P!Item, P!Apply, P!RunIdempotent, P!At
<1>2. /\ handler' \in [Ops -> [P!Attempts -> P!Stages]]
      /\ \A q \in Ops : q # o => handler'[q] = handler[q]
  BY ReachFacts DEF P!Apply
<1>3. effects' = [effects EXCEPT ![o] = 1] /\ UNCHANGED <<verdict, item>>
  BY <1>1 DEF P!Apply
<1>4. effects'[o] = 1 /\ \A q \in Ops : q # o => effects'[q] = effects[q]
  BY <1>3 DEF SInv, P!TypeOK
<1>5. P!TypeOK'
  <2>1. 1 \in 0 .. MaxAttempts
    BY DriveAssumption
  <2> QED
    BY <1>2, <1>3, <2>1 DEF SInv, P!TypeOK
<1>6. item[o].state # "none" /\ (item[o].state = "done" => effects[o] = 1)
  BY <1>1 DEF Sound
<1>7. ASSUME NEW q \in Ops
      PROVE  Sound(q)'
  <2>1. CASE q = o
    BY <1>1, <1>3, <1>4, <1>6, <2>1 DEF Sound, P!Attempts
  <2>2. CASE q # o
    BY <1>2, <1>3, <1>4, <2>2 DEF SInv, Sound, P!Attempts
  <2> QED
    BY <2>1, <2>2
<1> QED
  BY <1>1, <1>3, <1>4, <1>5, <1>6, <1>7 DEF ServiceStep, SInv

(* A handler that is gone did nothing more. *)
LEMMA GoneIsService ==
    ASSUME SInv, NEW o \in Ops, NEW a \in P!Attempts, P!Reach(o, a, "gone"),
           handler[o][a] # "none", UNCHANGED <<verdict, item, effects>>
    PROVE  ServiceStep
<1>1. /\ handler' \in [Ops -> [P!Attempts -> P!Stages]]
      /\ handler'[o][a] = "gone"
      /\ \A b \in P!Attempts : b # a => handler'[o][b] = handler[o][b]
      /\ \A q \in Ops : q # o => handler'[q] = handler[q]
  BY ReachFacts
<1>2. P!TypeOK'
  BY <1>1 DEF SInv, P!TypeOK
<1>3. ASSUME NEW q \in Ops
      PROVE  Sound(q)'
  <2>1. CASE q = o
    BY <1>1, <2>1 DEF SInv, Sound, P!Attempts
  <2>2. CASE q # o
    BY <1>1, <2>2 DEF SInv, Sound, P!Attempts
  <2> QED
    BY <2>1, <2>2
<1> QED
  BY <1>2, <1>3 DEF ServiceStep, SInv

LEMMA CompleteIsService ==
    ASSUME SInv, NEW o \in Ops, NEW a \in P!Attempts, P!Complete(o, a)
    PROVE  /\ ServiceStep
           /\ P!Terminal(o) \in {"result", "malformed"}
           /\ P!Terminal(o) = "result" => DoneOp(o)'
           /\ P!Terminal(o) = "malformed" => Refuted(o)'
<1>1. /\ Sound(o) /\ handler[o][a] = "applied" /\ item[o].state = "working" /\ effects[o] = 1
      /\ UNCHANGED <<verdict, effects>>
  BY DEF SInv, Sound, P!Complete, P!At, P!HoldsItem
<1>2. /\ handler' \in [Ops -> [P!Attempts -> P!Stages]]
      /\ handler'[o][a] = "gone"
      /\ \A b \in P!Attempts : b # a => handler'[o][b] = handler[o][b]
      /\ \A q \in Ops : q # o => handler'[q] = handler[q]
  BY ReachFacts DEF P!Complete
<1>3. a \in 0 .. MaxAttempts /\ item[o] \in P!Item
  BY DEF P!Attempts, SInv, P!TypeOK
<1> DEFINE r == [item[o] EXCEPT !.state = "done", !.winner = a]
<1>4. r \in P!Item /\ r.state = "done"
  BY <1>3 DEF P!Item
<1>5. item' = [item EXCEPT ![o] = r]
  BY DEF P!Complete
<1>6. item' \in [Ops -> P!Item] /\ item'[o].state = "done" /\ \A q \in Ops : q # o => item'[q] = item[q]
  BY <1>4, <1>5 DEF SInv, P!TypeOK
<1>7. P!TypeOK'
  BY <1>1, <1>2, <1>6 DEF SInv, P!TypeOK
<1>8. verdict[o] \in {"result", "malformed"}
  BY <1>1 DEF SInv, Sound, P!TypeOK, P!Verdicts
<1>9. ASSUME NEW q \in Ops
      PROVE  Sound(q)'
  <2>1. CASE q = o
    BY <1>1, <1>2, <1>6, <1>8, <2>1 DEF Sound, P!Attempts
  <2>2. CASE q # o
    BY <1>1, <1>2, <1>6, <2>2 DEF SInv, Sound, P!Attempts
  <2> QED
    BY <2>1, <2>2
<1>10. ServiceStep
  BY <1>1, <1>6, <1>7, <1>9 DEF ServiceStep, SInv
<1> QED
  BY <1>1, <1>6, <1>8, <1>10 DEF P!Terminal, DoneOp, Refuted

LEMMA LeaseExpiresIsService ==
    ASSUME SInv, NEW o \in Ops, P!LeaseExpires(o)
    PROVE  ServiceStep
<1> DEFINE r == [item[o] EXCEPT !.expired = TRUE]
<1>1. item[o] \in P!Item
  BY DEF SInv, P!TypeOK
<1>2. r \in P!Item /\ r.state = item[o].state /\ r.attempt = item[o].attempt /\ r.winner = item[o].winner
  BY <1>1 DEF P!Item
<1>3. item' = [item EXCEPT ![o] = r] /\ UNCHANGED <<verdict, handler, effects>>
  BY DEF P!LeaseExpires
<1> HIDE DEF r
<1>4. P!TypeOK'
  BY <1>2, <1>3 DEF SInv, P!TypeOK
<1>5. ASSUME NEW q \in Ops
      PROVE  /\ item'[q].state = item[q].state /\ item'[q].attempt = item[q].attempt
             /\ item'[q].winner = item[q].winner
  BY <1>2, <1>3 DEF SInv, P!TypeOK
<1>6. \A q \in Ops : Sound(q)'
  BY <1>3, <1>5 DEF SInv, Sound, P!Attempts
<1> QED
  BY <1>3, <1>4, <1>5, <1>6 DEF ServiceStep, SInv

LEMMA AllAnswered ==
    ASSUME DriversTyped, DriversTruthful, Stable, NEW o \in Ops, NEW a \in P!Attempts,
           NEW st \in Answers, Answer(o, a, st),
           st = "result" => DoneOp(o)', st \in {"malformed", "refused"} => Refuted(o)'
    PROVE  DriversTyped' /\ DriversTruthful'
<1>1. ASSUME NEW y \in Executors
      PROVE  \/ drv'[y] = drv[y]
             \/ \E d \in Busy : /\ drv[y] = d /\ OpOf(d) = o /\ d.at = "wait"
                                /\ drv'[y] = PutAnswered(d, st)
  <2>1. CASE Reached(y, a) /\ OpOf(drv[y]) = o
    <3>1. drv[y] \in Busy /\ drv[y].at = "wait"
      BY <2>1, BusyDriver DEF Reached
    <3> QED
      BY <2>1, <3>1 DEF Answer
  <2>2. CASE ~ (Reached(y, a) /\ OpOf(drv[y]) = o)
    BY <2>2 DEF Answer
  <2> QED
    BY <2>1, <2>2
<1>2. \A d \in Busy : PutAnswered(d, st) \in Busy
  BY PutConcludes DEF Concludes
<1>3. DriversTyped'
  <2>1. \A y \in Executors : drv'[y] \in Busy \cup {Idle}
    BY <1>1, <1>2 DEF DriversTyped
  <2> QED
    BY <2>1 DEF DriversTyped, Answer
<1>4. ASSUME NEW y \in Executors, NEW e \in Busy, drv'[y] = e
      PROVE  Truthful(e)'
  <2>1. CASE drv'[y] = drv[y]
    BY <1>4, <2>1, TruthLasts DEF DriversTruthful
  <2>2. CASE drv'[y] # drv[y]
    <3>1. PICK d \in Busy : /\ drv[y] = d /\ OpOf(d) = o /\ d.at = "wait"
                            /\ e = PutAnswered(d, st)
      BY <1>1, <1>4, <2>2
    <3>2. Sent(o)'
      BY <3>1 DEF DriversTruthful, Truthful, Stable
    <3>3. Concludes(d, e, st)
      BY <3>1, PutConcludes
    <3> QED
      BY <3>1, <3>2, <3>3, ConcludesTruthful
  <2> QED
    BY <2>1, <2>2
<1> QED
  BY <1>3, <1>4 DEF DriversTruthful

LEMMA ArriveKeeps ==
    ASSUME DInv, NEW x \in Executors, Arrive(x)
    PROVE  DInv'
<1>1. PICK d \in Busy : d = drv[x] /\ d.at = "wait" /\ Truthful(d)
  BY BusyDriver DEF Arrive, InFlight, DInv
<1>2. UNCHANGED <<engine, orphans>>
  BY DEF Arrive, world
<1>3. SInv /\ OpOf(d) \in Ops
  BY OpOfFacts DEF DInv
<1>4. CASE UNCHANGED service /\ Goes(x, PutAnswered(d, "unknown"))
  <2>1. Concludes(d, PutAnswered(d, "unknown"), "unknown")
    BY PutConcludes DEF Answers
  <2> QED
    BY <1>1, <1>2, <1>4, <2>1, AnswerTaken
<1>5. CASE UNCHANGED service /\ \E st \in P!PutReplies(OpOf(d)) : Goes(x, PutAnswered(d, st))
  <2>1. PICK st \in P!PutReplies(OpOf(d)) : Goes(x, PutAnswered(d, st))
    BY <1>5
  <2>2. /\ st \in Answers
        /\ st = "result" => DoneOp(OpOf(d))
        /\ st \in {"malformed", "refused"} => Refuted(OpOf(d))
    BY <1>3, PutReplyIsTrue
  <2>3. Concludes(d, PutAnswered(d, st), st)
    BY <2>2, PutConcludes
  <2> QED
    BY <1>1, <1>2, <1>5, <2>1, <2>2, <2>3, AnswerTaken
<1>6. CASE P!Accept(OpOf(d)) /\ Goes(x, [d EXCEPT !.by = item'[OpOf(d)].attempt])
  <2>1. PICK o \in Ops : o = OpOf(d) /\ Sent(o)
    BY <1>1, <1>3 DEF Truthful
  <2>2. ServiceStep /\ item'[o].attempt \in 0 .. MaxAttempts
    BY <1>3, <1>6, <2>1, AcceptIsService
  <2>3. PICK n \in 0 .. MaxAttempts : n = item'[o].attempt
    BY <2>2
  <2>4. PICK e : e = [d EXCEPT !.by = n]
    OBVIOUS
  <2>5. e \in Busy /\ e.at = "wait" /\ OpOf(e) = o
    BY <1>1, <2>1, <2>4 DEF Busy, OpOf
  <2>6. Stable
    BY <1>2, <1>3, <2>2, ServiceStable
  <2>7. Truthful(e)'
    BY <2>1, <2>5, <2>6, SentIsTruthful DEF Stable
  <2>8. Goes(x, e)
    BY <1>6, <2>1, <2>3, <2>4
  <2>9. DriversTyped' /\ DriversTruthful'
    BY <2>5, <2>6, <2>7, <2>8, OneDriverMoves DEF DInv
  <2>10. OrphansTyped' /\ \A q \in Ops : orphans'[q] <= orphans[q]
    BY <1>2 DEF DInv, OrphansTyped
  <2> QED
    BY <1>2, <2>2, <2>9, <2>10, ServiceKeeps
<1> QED
  BY <1>1, <1>4, <1>5, <1>6 DEF Arrive

LEMMA OrphanArrivesKeeps ==
    ASSUME DInv, NEW o \in Ops, OrphanArrives(o)
    PROVE  DInv'
<1>1. Sent(o) /\ SInv
  BY DEF OrphanArrives, DInv, Bound
<1>2. OrphansTyped' /\ \A q \in Ops : orphans'[q] <= orphans[q]
  <2>1. orphans[o] - 1 \in 0 .. MaxOrphans
    BY DriveAssumption DEF DInv, OrphansTyped, OrphanArrives
  <2>2. orphans' = [orphans EXCEPT ![o] = orphans[o] - 1]
    BY DEF OrphanArrives
  <2> QED
    BY <2>1, <2>2, DriveAssumption DEF DInv, OrphansTyped
<1>3. UNCHANGED engine /\ UNCHANGED drv
  BY DEF OrphanArrives
<1>4. CASE P!Accept(o)
  <2>1. ServiceStep
    BY <1>1, <1>4, AcceptIsService
  <2>2. Stable
    BY <1>1, <1>3, <2>1, ServiceStable
  <2>3. DriversTyped' /\ DriversTruthful'
    BY <1>3, <2>2, NoDriverMoves DEF DInv
  <2> QED
    BY <1>2, <1>3, <2>1, <2>3, ServiceKeeps
<1>5. CASE UNCHANGED service
  <2>1. DriversTyped' /\ DriversTruthful'
    BY <1>3, <1>5, StillStable, NoDriverMoves DEF DInv
  <2>2. \A q \in Ops : orphans'[q] > 0 => orphans[q] > 0
    BY <1>2 DEF DInv, OrphansTyped
  <2> QED
    BY <1>2, <1>3, <1>5, <2>1, <2>2, NothingHappens
<1> QED
  BY <1>4, <1>5 DEF OrphanArrives

(* A participant's step nobody is told of. *)
LEMMA SilentServiceKeeps ==
    ASSUME DInv, ServiceStep, UNCHANGED <<engine, drv, orphans>>
    PROVE  DInv'
<1>1. Stable
  BY ServiceStable DEF DInv
<1>2. DriversTyped' /\ DriversTruthful'
  BY <1>1, NoDriverMoves DEF DInv
<1>3. OrphansTyped' /\ \A q \in Ops : orphans'[q] <= orphans[q]
  BY DEF DInv, OrphansTyped
<1> QED
  BY <1>2, <1>3, ServiceKeeps

LEMMA ServesKeeps ==
    ASSUME DInv, NEW o \in Ops, NEW a \in P!Attempts, Serves(o, a) \/ Die(o, a) \/ ItemLapses(o)
    PROVE  DInv'
<1>0. SInv
  BY DEF DInv
<1>1. CASE Apply(o, a)
  BY <1>0, <1>1, ApplyIsService, SilentServiceKeeps DEF Apply, world
<1>2. CASE Complete(o, a)
  <2>1. P!Complete(o, a) /\ Answer(o, a, P!Terminal(o)) /\ UNCHANGED <<engine, orphans>>
    BY <1>2 DEF Complete, world
  <2>2. PICK st \in {"result", "malformed"} :
           st = P!Terminal(o) /\ (st = "result" => DoneOp(o)') /\ (st = "malformed" => Refuted(o)')
    BY <1>0, <2>1, CompleteIsService
  <2>3. ServiceStep /\ Stable
    BY <1>0, <2>1, CompleteIsService, ServiceStable
  <2>4. DriversTyped' /\ DriversTruthful'
    BY <2>1, <2>2, <2>3, AllAnswered DEF DInv, Answers
  <2>5. OrphansTyped' /\ \A q \in Ops : orphans'[q] <= orphans[q]
    BY <2>1 DEF DInv, OrphansTyped
  <2> QED
    BY <2>1, <2>3, <2>4, <2>5, ServiceKeeps
<1>3. CASE CompleteStale(o, a)
  <2>1. P!CompleteStale(o, a) /\ Answer(o, a, "error") /\ UNCHANGED <<engine, orphans>>
    BY <1>3 DEF CompleteStale, world
  <2>2. ServiceStep
    BY <1>0, <2>1, GoneIsService DEF P!CompleteStale, P!At
  <2>3. Stable
    BY <1>0, <2>1, <2>2, ServiceStable
  <2>4. DriversTyped' /\ DriversTruthful'
    BY <2>1, <2>3, AllAnswered DEF DInv, Answers
  <2>5. OrphansTyped' /\ \A q \in Ops : orphans'[q] <= orphans[q]
    BY <2>1 DEF DInv, OrphansTyped
  <2> QED
    BY <2>1, <2>2, <2>4, <2>5, ServiceKeeps
<1>4. CASE Die(o, a)
  <2>1. ServiceStep
    BY <1>0, <1>4, GoneIsService DEF Die, P!Die, P!Alive
  <2> QED
    BY <1>4, <2>1, SilentServiceKeeps DEF Die
<1>5. CASE ItemLapses(o)
  <2>1. ServiceStep
    BY <1>0, <1>5, LeaseExpiresIsService DEF ItemLapses
  <2> QED
    BY <1>5, <2>1, SilentServiceKeeps DEF ItemLapses
<1> QED
  BY <1>1, <1>2, <1>3, <1>4, <1>5 DEF Serves

-----------------------------------------------------------------------------
(* What the procedures write is justified *)

LEMMA CurrentFence ==
    ASSUME IInv, NEW w \in Workflows
    PROVE  wf[w].fence \in 0 .. wf[w].fence
BY WorkflowAssumption DEF IInv, TypeOK, Row

(* Nothing new is recorded about any step. *)
LEMMA QuietIsJustified ==
    ASSUME NEW w \in Workflows, op'[w] = op[w], cp'[w] = cp[w], missed'[w] = missed[w],
           wf'[w].trigger \in {NoTrigger, wf[w].trigger}
    PROVE  Justified(w)
<1>1. NoTrigger # FailNode
  BY StepFacts DEF FailNode, NoTrigger
<1> QED
  BY <1>1, StepFacts DEF Justified

LEMMA LeaseStep ==
    ASSUME IInv, NEW w \in Workflows, Shape(w), UNCHANGED service, UNCHANGED rows,
           wf'[w].trigger = wf[w].trigger
    PROVE  EngineStep(w)
BY QuietIsJustified DEF EngineStep, rows

LEMMA StartDriveStep ==
    ASSUME IInv, NEW w \in Workflows, NEW x \in Executors, StartDrive(x, w)
    PROVE  EngineStep(w)
<1> DEFINE r == [wf[w] EXCEPT !.owner = x, !.lapsed = FALSE]
<1>1. TypeOK /\ wf[w] \in Row /\ wf[w].state \in Claimable
  BY DEF IInv, TypeOK, StartDrive, MayClaim
<1>2. r \in Row /\ r.state = wf[w].state /\ r.direction = wf[w].direction
                /\ r.disposition = wf[w].disposition /\ r.trigger = wf[w].trigger
  BY <1>1 DEF Row
<1>3. wf' = [wf EXCEPT ![w] = r]
  BY DEF StartDrive
<1> HIDE DEF r
<1>4. wf' \in [Workflows -> Row] /\ wf'[w] = r /\ \A v \in Workflows \ {w} : wf'[v] = wf[v]
  BY <1>1, <1>2, <1>3, WriteRow
<1>5. UNCHANGED rows /\ UNCHANGED published /\ UNCHANGED service
  BY DEF StartDrive
<1>6. LeaseMove(w)
  BY <1>1, <1>2, <1>4, <1>5 DEF rows, LeaseMove, SameLife, SameRows
<1>7. Shape(w)
  BY <1>1, <1>4, <1>5, <1>6 DEF rows, TypeOK, Shape, Same, Move
<1> QED
  BY <1>2, <1>4, <1>5, <1>7, LeaseStep

LEMMA ReleaseStep ==
    ASSUME IInv, NEW w \in Workflows, NEW x \in Executors, NEW due \in BOOLEAN,
           Release(w, x, wf[w].fence, due), UNCHANGED service
    PROVE  EngineStep(w)
<1>1. TypeOK /\ wf[w].fence \in 0 .. wf[w].fence
  BY CurrentFence DEF IInv
<1>2. Shape(w)
  BY <1>1, ReleaseShape
<1>3. wf'[w].trigger = wf[w].trigger
  BY <1>1, UnleaseFacts DEF Release, SameLife
<1> QED
  BY <1>2, <1>3, LeaseStep DEF Release

LEMMA OperationRequestStep ==
    ASSUME IInv, NEW w \in Workflows, NEW x \in Executors, NEW s \in Steps,
           OperationRequest(w, x, wf[w].fence, s), UNCHANGED service
    PROVE  EngineStep(w) /\ op'[w][s] = "requested"
<1>1. TypeOK /\ wf[w].fence \in 0 .. wf[w].fence
  BY CurrentFence DEF IInv
<1>2. Shape(w)
  BY <1>1, OperationRequestShape
<1>3. op'[w] = [op[w] EXCEPT ![s] = "requested"] /\ op[w] \in [Steps -> {"none", "requested", "succeeded"}]
  BY <1>1, SetOperationFacts DEF OperationRequest, TypeOK
<1>4. UNCHANGED <<wf, cp, missed>>
  BY DEF OperationRequest
<1>5. \A r \in Steps : op'[w][r] = "succeeded" => op[w][r] = "succeeded"
  BY <1>3
<1>6. Justified(w)
  BY <1>4, <1>5 DEF Justified
<1> QED
  BY <1>2, <1>3, <1>6 DEF EngineStep

LEMMA OperationSettleStep ==
    ASSUME IInv, NEW w \in Workflows, NEW x \in Executors, NEW s \in Steps, NEW final \in BOOLEAN,
           OperationSettle(w, x, wf[w].fence, s, final), UNCHANGED service, DoneOp(<<w, s, "op">>)
    PROVE  EngineStep(w)
<1>1. TypeOK /\ wf[w].fence \in 0 .. wf[w].fence
  BY CurrentFence DEF IInv
<1>2. Shape(w)
  BY <1>1, OperationSettleShape
<1>3. op'[w] = [op[w] EXCEPT ![s] = "succeeded"] /\ op[w] \in [Steps -> {"none", "requested", "succeeded"}]
  BY <1>1, SetOperationFacts DEF OperationSettle, Settled, TypeOK
<1>4. cp'[w] = [cp[w] EXCEPT ![s] = "active"] /\ cp[w] \in [Steps -> CheckpointStates]
  BY <1>1, SetCheckpointFacts DEF OperationSettle, Settled, TypeOK, CheckpointStates
<1>5. UNCHANGED missed
  BY DEF OperationSettle
<1>6. wf'[w].trigger = wf[w].trigger
  <2>1. CASE final
    <3> DEFINE r == [ClearLease(wf[w]) EXCEPT !.state = "completed", !.disposition = "completed"]
    <3>1. wf[w] \in Row
      BY <1>1 DEF TypeOK
    <3>2. r.trigger = wf[w].trigger
      BY <3>1 DEF Row, ClearLease
    <3>3. wf' = [wf EXCEPT ![w] = r]
      BY <2>1 DEF OperationSettle, Settled
    <3> QED
      BY <1>1, <3>2, <3>3 DEF TypeOK
  <2>2. CASE ~ final
    BY <2>2 DEF OperationSettle, Settled
  <2> QED
    BY <2>1, <2>2
<1>7. ASSUME NEW r \in Steps
      PROVE  /\ op'[w][r] = "succeeded" => op[w][r] = "succeeded" \/ DoneOp(<<w, r, "op">>)
             /\ cp'[w][r] = "reversed" => cp[w][r] = "reversed"
             /\ cp'[w][r] = "unresolved" => cp[w][r] = "unresolved"
  BY <1>3, <1>4
<1>8. Justified(w)
  BY <1>5, <1>6, <1>7 DEF Justified
<1> QED
  BY <1>2, <1>8 DEF EngineStep

LEMMA BeginReversalStep ==
    ASSUME IInv, NEW w \in Workflows, NEW x \in Executors, NEW s \in Steps,
           BeginReversal(w, x, wf[w].fence, s), UNCHANGED service, Refuted(<<w, s, "op">>)
    PROVE  EngineStep(w)
<1>1. TypeOK /\ wf[w].fence \in 0 .. wf[w].fence
  BY CurrentFence DEF IInv
<1>2. Shape(w)
  BY <1>1, BeginReversalShape
<1>3. wf'[w].trigger = s
  BY <1>1, StartUnwindFacts DEF BeginReversal, Becomes
<1>4. Justified(w)
  BY <1>3, StepFacts DEF BeginReversal, rows, Justified
<1> QED
  BY <1>2, <1>4 DEF EngineStep

LEMMA AuthoredFailStep ==
    ASSUME IInv, NEW w \in Workflows, NEW x \in Executors,
           AuthoredFail(w, x, wf[w].fence), UNCHANGED service, AllDone(w)
    PROVE  EngineStep(w)
<1>1. TypeOK /\ wf[w].fence \in 0 .. wf[w].fence
  BY CurrentFence DEF IInv
<1>2. Shape(w)
  BY <1>1, AuthoredFailShape
<1>3. wf'[w].trigger = FailNode
  BY <1>1, StartUnwindFacts DEF AuthoredFail, Becomes
<1>4. Justified(w)
  BY <1>3, StepFacts DEF AuthoredFail, rows, Justified
<1> QED
  BY <1>2, <1>4 DEF EngineStep

LEMMA ReverseRequestStep ==
    ASSUME IInv, NEW w \in Workflows, NEW x \in Executors, NEW s \in Steps,
           ReverseRequest(w, x, wf[w].fence, s), UNCHANGED service
    PROVE  EngineStep(w) /\ cp'[w][s] = "dispatched"
<1>1. TypeOK /\ wf[w].fence \in 0 .. wf[w].fence
  BY CurrentFence DEF IInv
<1>2. Shape(w)
  BY <1>1, ReverseRequestShape
<1>3. cp'[w] = [cp[w] EXCEPT ![s] = "dispatched"] /\ cp[w] \in [Steps -> CheckpointStates]
  BY <1>1, SetCheckpointFacts DEF ReverseRequest, TypeOK, CheckpointStates
<1>4. UNCHANGED <<wf, op, missed>>
  BY DEF ReverseRequest
<1>5. \A r \in Steps : cp'[w][r] \in {"reversed", "unresolved"} => cp'[w][r] = cp[w][r]
  BY <1>3
<1>6. Justified(w)
  BY <1>4, <1>5 DEF Justified
<1> QED
  BY <1>2, <1>3, <1>6 DEF EngineStep

LEMMA ReverseSettleStep ==
    ASSUME IInv, NEW w \in Workflows, NEW x \in Executors, NEW s \in Steps,
           ReverseSettle(w, x, wf[w].fence, s), UNCHANGED service, DoneOp(<<w, s, "cp">>)
    PROVE  EngineStep(w)
<1>1. TypeOK /\ wf[w].fence \in 0 .. wf[w].fence
  BY CurrentFence DEF IInv
<1>2. Shape(w)
  BY <1>1, ReverseSettleShape
<1>3. cp'[w] = [cp[w] EXCEPT ![s] = "reversed"] /\ cp[w] \in [Steps -> CheckpointStates]
  BY <1>1, SetCheckpointFacts DEF ReverseSettle, TypeOK, CheckpointStates
<1>4. UNCHANGED <<op, missed>>
  BY DEF ReverseSettle
<1>5. wf'[w].trigger = wf[w].trigger
  <2>1. CASE IsLastActive(w, s)
    <3> DEFINE r == [ClearLease(wf[w]) EXCEPT !.state = "reversed"]
    <3>1. wf[w] \in Row
      BY <1>1 DEF TypeOK
    <3>2. r.trigger = wf[w].trigger
      BY <3>1 DEF Row, ClearLease
    <3>3. wf' = [wf EXCEPT ![w] = r]
      BY <2>1 DEF ReverseSettle
    <3> QED
      BY <1>1, <3>2, <3>3 DEF TypeOK
  <2>2. CASE ~ IsLastActive(w, s)
    BY <2>2 DEF ReverseSettle
  <2> QED
    BY <2>1, <2>2
<1>6. ASSUME NEW r \in Steps
      PROVE  /\ cp'[w][r] = "reversed" => cp[w][r] = "reversed" \/ DoneOp(<<w, r, "cp">>)
             /\ cp'[w][r] = "unresolved" => cp[w][r] = "unresolved"
  BY <1>3
<1>7. Justified(w)
  BY <1>4, <1>5, <1>6 DEF Justified
<1> QED
  BY <1>2, <1>7 DEF EngineStep

LEMMA ReverseBlockStep ==
    ASSUME IInv, NEW w \in Workflows, NEW x \in Executors, NEW s \in Steps,
           ReverseBlock(w, x, wf[w].fence, s, "failed"), UNCHANGED service, Refuted(<<w, s, "cp">>)
    PROVE  EngineStep(w)
<1>1. TypeOK /\ wf[w].fence \in 0 .. wf[w].fence /\ wf[w].direction \in {"forward", "reverse"}
  BY CurrentFence DEF IInv, TypeOK, Row
<1>2. Shape(w)
  BY <1>1, ReverseBlockShape
<1>3. cp'[w] = [cp[w] EXCEPT ![s] = "unresolved"] /\ cp[w] \in [Steps -> CheckpointStates]
  BY <1>1, SetCheckpointFacts DEF ReverseBlock, TypeOK, CheckpointStates
<1>4. UNCHANGED <<op, missed>>
  BY DEF ReverseBlock
<1>5. wf'[w].trigger = wf[w].trigger
  BY <1>1, BlockFacts DEF ReverseBlock, Becomes
<1>6. ASSUME NEW r \in Steps
      PROVE  /\ cp'[w][r] = "reversed" => cp[w][r] = "reversed"
             /\ cp'[w][r] = "unresolved" => cp[w][r] = "unresolved" \/ Refuted(<<w, r, "cp">>)
  BY <1>3
<1>7. Justified(w)
  BY <1>4, <1>5, <1>6 DEF Justified
<1> QED
  BY <1>2, <1>7 DEF EngineStep

LEMMA PendingDeferStep ==
    ASSUME IInv, NEW w \in Workflows, NEW x \in Executors, NEW s \in Steps, UNCHANGED service,
           \/ OperationPendingDefer(w, x, wf[w].fence, s)
           \/ CheckpointPendingDefer(w, x, wf[w].fence, s)
    PROVE  EngineStep(w)
<1>1. TypeOK /\ wf[w].fence \in 0 .. wf[w].fence
  BY CurrentFence DEF IInv
<1>2. Shape(w)
  BY <1>1, OperationPendingDeferShape, CheckpointPendingDeferShape
<1>3. UNCHANGED rows /\ (Unlease(w, FALSE) \/ UNCHANGED wf)
  BY DEF OperationPendingDefer, CheckpointPendingDefer
<1>4. wf'[w].trigger = wf[w].trigger
  BY <1>1, <1>3, UnleaseFacts DEF SameLife
<1> QED
  BY <1>2, <1>3, <1>4, LeaseStep

(* A miss counted makes the count no smaller, and it is at the floor when   *)
(* the checkpoint is given up.                                              *)
LEMMA ReconcileDeferStep ==
    ASSUME IInv, NEW w \in Workflows, NEW x \in Executors, NEW s \in Steps, UNCHANGED service,
           \/ WorkflowReconcileDefer(w, x, wf[w].fence, s)
           \/ CheckpointReconcileDefer(w, x, wf[w].fence, s)
    PROVE  EngineStep(w)
<1>1. /\ TypeOK /\ wf[w].fence \in 0 .. wf[w].fence
      /\ wf[w].direction \in {"forward", "reverse"}
  BY CurrentFence DEF IInv, TypeOK, Row
<1>2. Shape(w)
  BY <1>1, WorkflowReconcileDeferShape, CheckpointReconcileDeferShape
<1>3. wf'[w].trigger = wf[w].trigger
  BY <1>1, UnleaseFacts, BlockFacts
  DEF WorkflowReconcileDefer, CheckpointReconcileDefer, SameLife, Becomes
<1>4. UNCHANGED op
  BY DEF WorkflowReconcileDefer, CheckpointReconcileDefer
<1>5. \A r \in Steps : missed[w][r]["cp"] >= MinAttempts => missed'[w][r]["cp"] >= MinAttempts
  <2>1. PICK what \in {"op", "cp"} : CountMiss(w, s, what)
    BY DEF WorkflowReconcileDefer, CheckpointReconcileDefer
  <2> DEFINE m == OneMore(missed[w][s][what])
  <2>2. missed' = [missed EXCEPT ![w][s][what] = m]
    BY <2>1 DEF CountMiss
  <2>3. missed[w][s][what] \in Nat /\ (missed[w][s][what] >= MinAttempts => m >= MinAttempts)
    BY <1>1, StepFacts DEF OneMore, TypeOK
  <2> HIDE DEF m
  <2> QED
    BY <1>1, <2>2, <2>3 DEF TypeOK
<1>6. ASSUME NEW r \in Steps
      PROVE  /\ cp'[w][r] = "reversed" => cp[w][r] = "reversed"
             /\ cp'[w][r] = "unresolved" =>
                    cp[w][r] = "unresolved" \/ missed'[w][r]["cp"] >= MinAttempts
  <2>1. CASE UNCHANGED cp
    BY <2>1
  <2>2. CASE SetCheckpoint(w, s, "unresolved") /\ BudgetSpent(w, s, "cp") /\ CountMiss(w, s, "cp")
    <3>1. cp'[w] = [cp[w] EXCEPT ![s] = "unresolved"] /\ cp[w] \in [Steps -> CheckpointStates]
      BY <1>1, <2>2, SetCheckpointFacts DEF TypeOK, CheckpointStates
    <3>2. missed'[w][s]["cp"] >= MinAttempts
      BY <1>1, <2>2, CountMissFacts DEF BudgetSpent
    <3> QED
      BY <3>1, <3>2
  <2> QED
    BY <2>1, <2>2 DEF WorkflowReconcileDefer, CheckpointReconcileDefer
<1>7. Justified(w)
  BY <1>3, <1>4, <1>5, <1>6 DEF Justified
<1> QED
  BY <1>2, <1>7 DEF EngineStep

-----------------------------------------------------------------------------
(* The steps of a driver that call a procedure *)

LEMMA ProcedureCalled ==
    ASSUME DInv, NEW w \in Workflows, EngineStep(w), UNCHANGED orphans, NEW x \in Executors,
           NEW e \in Busy \cup {Idle}, Goes(x, e), e \in Busy => Truthful(e)'
    PROVE  DInv'
<1>1. Stable
  BY EngineStable DEF DInv, EngineStep
<1>2. DriversTyped' /\ DriversTruthful'
  BY <1>1, OneDriverMoves DEF DInv
<1> QED
  BY <1>2, EngineKeeps

LEMMA CalledAndStops ==
    ASSUME DInv, NEW w \in Workflows, EngineStep(w), UNCHANGED orphans, NEW x \in Executors, Stops(x)
    PROVE  DInv'
BY ProcedureCalled DEF Stops, Idle, Busy

LEMMA CalledAndChooses ==
    ASSUME DInv, NEW w \in Workflows, EngineStep(w), UNCHANGED orphans, NEW x \in Executors,
           NEW dir \in {"forward", "reverse"}, Goes(x, Choosing(w, dir))
    PROVE  DInv'
BY ChoosingFacts, SilentIsTruthful, ProcedureCalled

LEMMA OnlyChooses ==
    ASSUME DInv, NEW w \in Workflows, UNCHANGED <<engine, service, orphans>>, NEW x \in Executors,
           NEW dir \in {"forward", "reverse"}, Goes(x, Choosing(w, dir))
    PROVE  DInv'
BY ChoosingFacts, SilentIsTruthful, DriverMoves

(* A driver whose request is durable asks for its operation. *)
LEMMA CalledAndAsks ==
    ASSUME DInv, NEW w \in Workflows, EngineStep(w) \/ UNCHANGED <<engine, service>>,
           UNCHANGED orphans, NEW x \in Executors, NEW q \in Ops, Sent(q)',
           NEW e \in Busy, OpOf(e) = q, e.at \in {"wait", "get", "poll"}, Goes(x, e)
    PROVE  DInv'
<1>1. Truthful(e)'
  BY SentIsTruthful
<1> QED
  BY <1>1, ProcedureCalled, DriverMoves

LEMMA StartDriveKeeps ==
    ASSUME DInv, NEW x \in Executors, NEW w \in Workflows, StartDrive(x, w)
    PROVE  DInv'
<1>1. EngineStep(w) /\ UNCHANGED orphans
  BY StartDriveStep DEF DInv, StartDrive, world
<1>2. PICK dir \in {"forward", "reverse"} : Goes(x, Choosing(w, dir))
  BY DEF StartDrive
<1> QED
  BY <1>1, <1>2, CalledAndChooses

LEMMA BindOperationKeeps ==
    ASSUME DInv, NEW x \in Executors, BindOperation(x)
    PROVE  DInv'
<1>1. PICK d \in Busy : d = drv[x] /\ d.dir = "forward"
  BY BusyDriver DEF BindOperation, DInv
<1>2. IInv /\ d.w \in Workflows /\ d.s \in Steps /\ UNCHANGED service /\ UNCHANGED orphans
  BY DEF DInv, Busy, BindOperation, world
<1>3. PICK q \in Ops : q = OpOf(d) /\ q = <<d.w, d.s, "op">>
  BY <1>1, <1>2, OpOfFacts
<1>4. (EngineStep(d.w) \/ UNCHANGED <<engine, service>>) /\ Sent(q)'
  <2>1. CASE OperationRequest(d.w, x, wf[d.w].fence, d.s)
    <3>1. EngineStep(d.w) /\ op'[d.w][d.s] = "requested"
      BY <1>2, <2>1, OperationRequestStep
    <3> QED
      BY <1>3, <3>1 DEF Sent
  <2>2. CASE op[d.w][d.s] # "none" /\ UNCHANGED engine
    BY <1>2, <1>3, <2>2 DEF Sent, engine, vars
  <2> QED
    BY <1>1, <2>1, <2>2 DEF BindOperation
<1>5. PICK e \in Busy : e.at \in {"wait", "get"} /\ OpOf(e) = q /\ Goes(x, e)
  <2>1. CASE d.again
    <3> DEFINE e == [d EXCEPT !.at = "get"]
    <3>1. e \in Busy /\ e.at = "get" /\ OpOf(e) = q
      BY <1>3 DEF Busy, OpOf
    <3> QED
      BY <1>1, <2>1, <3>1 DEF BindOperation
  <2>2. CASE ~ d.again
    BY <1>1, <1>3, <2>2, SendingFacts DEF BindOperation
  <2> QED
    BY <2>1, <2>2
<1> QED
  BY <1>2, <1>4, <1>5, CalledAndAsks

LEMMA BindCompensationKeeps ==
    ASSUME DInv, NEW x \in Executors, BindCompensation(x)
    PROVE  DInv'
<1>1. PICK d \in Busy : d = drv[x] /\ d.dir = "reverse"
  BY BusyDriver DEF BindCompensation, DInv
<1>2. IInv /\ d.w \in Workflows /\ d.s \in Steps /\ UNCHANGED service /\ UNCHANGED orphans
  BY DEF DInv, Busy, BindCompensation, world
<1>3. PICK q \in Ops : q = OpOf(d) /\ q = <<d.w, d.s, "cp">>
  BY <1>1, <1>2, OpOfFacts
<1>4. EngineStep(d.w) /\ cp'[d.w][d.s] = "dispatched"
  BY <1>1, <1>2, ReverseRequestStep DEF BindCompensation
<1>5. Sent(q)'
  BY <1>3, <1>4 DEF Sent
<1>6. PICK e \in Busy : e.at = "wait" /\ OpOf(e) = q /\ Goes(x, e)
  BY <1>1, <1>3, SendingFacts DEF BindCompensation
<1> QED
  BY <1>2, <1>4, <1>5, <1>6, CalledAndAsks

(* A driver that acts has the participant's word for it. *)
LEMMA ActingDriver ==
    ASSUME DInv, NEW x \in Executors, NEW dir \in {"forward", "reverse"},
           NEW got \in {"done", "rejected"}, Acts(x, dir, got)
    PROVE  \E d \in Busy :
              /\ d = drv[x] /\ d.dir = dir /\ d.w \in Workflows /\ d.s \in Steps
              /\ got = "done" => DoneOp(OpOf(d))
              /\ got = "rejected" => Refuted(OpOf(d))
              /\ OpOf(d) = <<d.w, d.s, IF dir = "forward" THEN "op" ELSE "cp">>
<1>1. PICK d \in Busy : d = drv[x] /\ Truthful(d) /\ d.at = "act" /\ d.dir = dir /\ d.got = got
  BY BusyDriver DEF Acts, DInv
<1>2. OpOf(d) \in Ops
  BY OpOfFacts
<1>3. d.w \in Workflows /\ d.s \in Steps
  BY DEF Busy
<1> QED
  BY <1>1, <1>2, <1>3, OpOfFacts DEF Truthful

LEMMA SettleKept ==
    ASSUME DInv, NEW x \in Executors, Settle(x)
    PROVE  DInv'
<1>1. PICK d \in Busy : /\ d = drv[x] /\ d.w \in Workflows /\ d.s \in Steps
                        /\ DoneOp(<<d.w, d.s, "op">>)
  BY ActingDriver DEF Settle
<1>2. IInv /\ UNCHANGED service /\ UNCHANGED orphans /\ Goes(x, Choosing(d.w, "forward"))
  BY <1>1 DEF DInv, Settle, world
<1>3. CASE \E final \in BOOLEAN : OperationSettle(d.w, x, wf[d.w].fence, d.s, final)
  BY <1>1, <1>2, <1>3, OperationSettleStep, CalledAndChooses
<1>4. CASE UNCHANGED engine
  BY <1>1, <1>2, <1>4, OnlyChooses
<1> QED
  BY <1>1, <1>3, <1>4 DEF Settle

LEMMA UnwindBegan ==
    ASSUME DInv, NEW w \in Workflows, EngineStep(w) \/ UNCHANGED <<engine, service>>,
           UNCHANGED orphans, NEW x \in Executors, AfterUnwindBegan(x, w)
    PROVE  DInv'
<1>1. Goes(x, Choosing(w, "reverse")) \/ Stops(x)
  BY DEF AfterUnwindBegan
<1> QED
  BY <1>1, CalledAndChooses, OnlyChooses, CalledAndStops, DriverStops

LEMMA RejectKeeps ==
    ASSUME DInv, NEW x \in Executors, Reject(x)
    PROVE  DInv'
<1>1. PICK d \in Busy : /\ d = drv[x] /\ d.w \in Workflows /\ d.s \in Steps
                        /\ Refuted(<<d.w, d.s, "op">>)
  BY ActingDriver DEF Reject
<1>2. IInv /\ UNCHANGED service /\ UNCHANGED orphans /\ AfterUnwindBegan(x, d.w)
  BY <1>1 DEF DInv, Reject, world
<1>3. CASE BeginReversal(d.w, x, wf[d.w].fence, d.s)
  BY <1>1, <1>2, <1>3, BeginReversalStep, UnwindBegan
<1>4. CASE UNCHANGED engine
  BY <1>1, <1>2, <1>4, UnwindBegan
<1> QED
  BY <1>1, <1>3, <1>4 DEF Reject

LEMMA FailStepKeeps ==
    ASSUME DInv, NEW x \in Executors, FailStep(x)
    PROVE  DInv'
<1>1. PICK d \in Busy : d = drv[x] /\ d.w \in Workflows /\ AllDone(d.w)
  <2>1. drv[x] \in Busy /\ Truthful(drv[x]) /\ drv[x].at = "fail"
    BY BusyDriver DEF FailStep, DInv
  <2> QED
    BY <2>1 DEF Truthful, Busy
<1>2. IInv /\ UNCHANGED service /\ UNCHANGED orphans /\ AfterUnwindBegan(x, d.w)
  BY <1>1 DEF DInv, FailStep, world
<1>3. CASE AuthoredFail(d.w, x, wf[d.w].fence)
  BY <1>1, <1>2, <1>3, AuthoredFailStep, UnwindBegan
<1>4. CASE UNCHANGED engine
  BY <1>1, <1>2, <1>4, UnwindBegan
<1> QED
  BY <1>1, <1>3, <1>4 DEF FailStep

LEMMA SettleCompensationKeeps ==
    ASSUME DInv, NEW x \in Executors, SettleCompensation(x)
    PROVE  DInv'
<1>1. PICK d \in Busy : /\ d = drv[x] /\ d.w \in Workflows /\ d.s \in Steps
                        /\ DoneOp(<<d.w, d.s, "cp">>)
  BY ActingDriver DEF SettleCompensation
<1>2. /\ IInv /\ UNCHANGED service /\ UNCHANGED orphans
      /\ Stops(x) \/ Goes(x, Choosing(d.w, "reverse"))
  BY <1>1 DEF DInv, SettleCompensation, world
<1>3. CASE ReverseSettle(d.w, x, wf[d.w].fence, d.s)
  <2>1. EngineStep(d.w)
    BY <1>1, <1>2, <1>3, ReverseSettleStep
  <2> QED
    BY <1>1, <1>2, <2>1, CalledAndStops, CalledAndChooses
<1>4. CASE UNCHANGED engine
  BY <1>1, <1>2, <1>4, DriverStops, OnlyChooses
<1> QED
  BY <1>1, <1>3, <1>4 DEF SettleCompensation

LEMMA BlockStepKeeps ==
    ASSUME DInv, NEW x \in Executors, BlockStep(x)
    PROVE  DInv'
<1>1. PICK d \in Busy : /\ d = drv[x] /\ d.w \in Workflows /\ d.s \in Steps
                        /\ Refuted(<<d.w, d.s, "cp">>)
  BY ActingDriver DEF BlockStep
<1>2. IInv /\ UNCHANGED service /\ UNCHANGED orphans /\ Stops(x)
  BY DEF DInv, BlockStep, world
<1>3. EngineStep(d.w)
  BY <1>1, <1>2, ReverseBlockStep DEF BlockStep
<1> QED
  BY <1>1, <1>2, <1>3, CalledAndStops

(* The drive is put off: the lease is given up. *)
LEMMA ReleaseKeeps ==
    ASSUME DInv, NEW x \in Executors, Defer(x) \/ PollDrained(x) \/ PutOff(x)
    PROVE  DInv'
<1>1. PICK d \in Busy : d = drv[x] /\ d.w \in Workflows
  BY BusyDriver DEF Defer, PollDrained, PutOff, DInv, Busy
<1>2. PICK due \in BOOLEAN : Release(d.w, x, wf[d.w].fence, due)
  BY <1>1 DEF Defer, PollDrained, PutOff
<1>3. IInv /\ UNCHANGED service /\ UNCHANGED orphans /\ Stops(x)
  BY DEF DInv, Defer, PollDrained, PutOff, world
<1>4. EngineStep(d.w)
  BY <1>1, <1>2, <1>3, ReleaseStep
<1> QED
  BY <1>1, <1>3, <1>4, CalledAndStops

LEMMA MissKeeps ==
    ASSUME DInv, NEW x \in Executors, Miss(x)
    PROVE  DInv'
<1>1. PICK d \in Busy : d = drv[x] /\ d.w \in Workflows /\ d.s \in Steps
  BY BusyDriver DEF Miss, DInv, Busy
<1>2. IInv /\ UNCHANGED service /\ UNCHANGED orphans /\ Stops(x)
  BY DEF DInv, Miss, world
<1>3. EngineStep(d.w)
  BY <1>1, <1>2, ReconcileDeferStep DEF Miss
<1> QED
  BY <1>1, <1>2, <1>3, CalledAndStops

LEMMA PollKeeps ==
    ASSUME DInv, NEW x \in Executors, Redispatch(x) \/ PollLater(x)
    PROVE  DInv'
<1>1. PICK d \in Busy : d = drv[x] /\ d.w \in Workflows /\ d.s \in Steps /\ d.at = "poll" /\ Truthful(d)
  BY BusyDriver DEF Redispatch, PollLater, PendingDefer, DInv, Busy
<1>2. IInv /\ UNCHANGED service /\ UNCHANGED orphans
  BY DEF DInv, Redispatch, PollLater, PendingDefer, world
<1>3. EngineStep(d.w)
  BY <1>1, <1>2, PendingDeferStep DEF Redispatch, PollLater, PendingDefer
<1>4. CASE PollLater(x)
  BY <1>1, <1>2, <1>3, <1>4, CalledAndStops DEF PollLater
<1>5. CASE Redispatch(x)
  <2> DEFINE c == [d EXCEPT !.again = FALSE]
  <2>1. c \in Busy /\ OpOf(c) = OpOf(d)
    BY DEF Busy, OpOf
  <2>2. Goes(x, Sending(c, FALSE))
    BY <1>1, <1>5 DEF Redispatch, SendAgain
  <2>3. PICK e \in Busy : e.at = "wait" /\ OpOf(e) = OpOf(d) /\ Goes(x, e)
    BY <2>1, <2>2, SendingFacts
  <2>4. PICK q \in Ops : q = OpOf(d) /\ Sent(q)
    BY <1>1, OpOfFacts DEF Truthful
  <2>5. Sent(q)'
    BY <1>1, <1>2, <1>3, <2>4, EngineStable DEF EngineStep, Stable
  <2> QED
    BY <1>1, <1>2, <1>3, <2>3, <2>4, <2>5, CalledAndAsks
<1> QED
  BY <1>4, <1>5

-----------------------------------------------------------------------------
(* Submission and the clock *)

LEMMA StoreAloneKeeps ==
    ASSUME DInv, NEW w \in Workflows, Submit(w) \/ BackOffEnds(w) \/ Lapses(w)
    PROVE  DInv'
<1>1. IInv /\ UNCHANGED service /\ UNCHANGED orphans /\ UNCHANGED drv /\ TypeOK /\ wf[w] \in Row
  BY DEF DInv, IInv, TypeOK, Submit, BackOffEnds, Lapses, world
<1>2. EngineStep(w)
  <2>1. CASE Submit(w)
    <3>1. Shape(w) /\ UNCHANGED rows
      BY <1>1, <2>1, CreateShape DEF Submit, Create
    <3>2. wf'[w].trigger = NoTrigger
      BY <1>1, <2>1 DEF Submit, Create, NoRow, TypeOK
    <3> QED
      BY <1>1, <3>1, <3>2, QuietIsJustified DEF EngineStep, rows
  <2>2. CASE BackOffEnds(w)
    <3>1. Shape(w) /\ UNCHANGED rows
      BY <1>1, <2>2, DueShape DEF BackOffEnds, ComesDue
    <3>2. wf'[w].trigger = wf[w].trigger
      BY <1>1, <2>2 DEF BackOffEnds, ComesDue, TypeOK, Row
    <3> QED
      BY <1>1, <3>1, <3>2, LeaseStep
  <2>3. CASE Lapses(w)
    <3>1. Shape(w) /\ UNCHANGED rows
      BY <1>1, <2>3, LapseShape DEF Lapses, LeaseLapses
    <3>2. wf'[w].trigger = wf[w].trigger
      BY <1>1, <2>3 DEF Lapses, LeaseLapses, TypeOK, Row
    <3> QED
      BY <1>1, <3>1, <3>2, LeaseStep
  <2> QED
    BY <2>1, <2>2, <2>3
<1>3. DriversTyped' /\ DriversTruthful'
  BY <1>1, <1>2, EngineStable, NoDriverMoves DEF DInv, EngineStep
<1> QED
  BY <1>1, <1>2, <1>3, EngineKeeps

LEMMA QuietKeeps ==
    ASSUME DInv, UNCHANGED <<engine, drv, orphans, service>>
    PROVE  DInv'
<1>1. DriversTyped' /\ DriversTruthful'
  BY StillStable, NoDriverMoves DEF DInv
<1> QED
  BY <1>1, NothingHappens DEF DInv, OrphansTyped

-----------------------------------------------------------------------------
LEMMA DriveInitInv == DriveInit => DInv
<1> SUFFICES ASSUME DriveInit PROVE DInv
  OBVIOUS
<1>1. IInv
  BY InitInv DEF DriveInit
<1>2. \A w \in Workflows, s \in Steps : /\ op[w][s] = "none" /\ cp[w][s] = "none"
                                        /\ wf[w] = NoRow
  BY DEF DriveInit, Init
<1>3. \A w \in Workflows : Turned(w)
  BY <1>2 DEF DriveInit, Init, Turned, NoRow
<1>4. \A w \in Workflows : Caused(w)
  BY <1>2, StepFacts DEF DriveInit, Init, Caused, NoRow, FailNode, NoTrigger
<1>5. 0 \in 0 .. MaxAttempts /\ 0 \in 0 .. MaxOrphans
  BY DriveAssumption
<1>6. SInv
  <2>1. verdict \in [Ops -> P!Verdicts]
    BY ScenarioAssumption DEF DriveInit
  <2>2. P!TypeOK
    BY <1>5, <2>1 DEF DriveInit, P!Init, P!TypeOK, P!Item, P!Stages
  <2>3. \A q \in Ops : Sound(q)
    BY DEF DriveInit, P!Init, Sound, P!Attempts
  <2> QED
    BY <2>2, <2>3 DEF SInv
<1>7. \A q \in Ops : Bound(q)
  BY DEF DriveInit, P!Init, Bound
<1>8. OrphansTyped /\ DriversTyped
  BY <1>5 DEF DriveInit, OrphansTyped, DriversTyped
<1>9. DriversTruthful
  BY DEF DriveInit, DriversTruthful, Busy, Idle
<1> QED
  BY <1>1, <1>3, <1>4, <1>6, <1>7, <1>8, <1>9 DEF DInv

LEMMA DriveStep == DInv /\ [DriveNext]_everything => DInv'
<1> SUFFICES ASSUME DInv, [DriveNext]_everything PROVE DInv'
  OBVIOUS
<1>1. CASE \E w \in Workflows : Submit(w) \/ BackOffEnds(w) \/ Lapses(w)
  BY <1>1, StoreAloneKeeps
<1>2. CASE \E x \in Executors, w \in Workflows : StartDrive(x, w)
  BY <1>2, StartDriveKeeps
<1>3. ASSUME NEW x \in Executors, Drives(x) \/ Crash(x) \/ TimeOut(x) \/ PutOff(x)
      PROVE  DInv'
  BY <1>3, ChooseForwardKeeps, ChooseReverseKeeps, BindOperationKeeps, BindCompensationKeeps,
     FindBindingKeeps, ArriveKeeps, GetKeeps, HangUpKeeps, SettleKept, RejectKeeps, FailStepKeeps,
     SettleCompensationKeeps, BlockStepKeeps, ReleaseKeeps, MissKeeps, PollKeeps, FenceLostKeeps,
     CrashKeeps, TimeOutKeeps
  DEF Drives
<1>4. ASSUME NEW o \in Ops,
             \/ OrphanArrives(o) \/ ItemLapses(o)
             \/ \E a \in P!Attempts : Serves(o, a) \/ Die(o, a)
      PROVE  DInv'
  <2>1. 1 \in P!Attempts
    BY DriveAssumption DEF P!Attempts
  <2> QED
    BY <1>4, <2>1, OrphanArrivesKeeps, ServesKeeps
<1>5. CASE RouteLost \/ RouteBack
  BY <1>5, QuietKeeps DEF RouteLost, RouteBack
<1>6. CASE UNCHANGED everything
  BY <1>6, QuietKeeps DEF everything, world
<1> QED
  BY <1>1, <1>2, <1>3, <1>4, <1>5, <1>6 DEF DriveNext

(* The strengthened invariant holds in every reachable state. *)
THEOREM DriveInvariance == DriveSpec => []DInv
BY DriveInitInv, DriveStep, PTL DEF DriveSpec

-----------------------------------------------------------------------------
(* What follows for the effects *)

(* Once a workflow has turned round, a request still open is the one the    *)
(* unwind is blamed on: the plan is followed one step at a time.            *)
LEMMA OpenIsTrigger ==
    ASSUME DInv, NEW w \in Workflows, NEW s \in Steps,
           op[w][s] = "requested", wf[w].trigger # NoTrigger
    PROVE  wf[w].trigger = s /\ Refuted(<<w, s, "op">>)
<1>1. LInv(w) /\ Caused(w) /\ wf[w].trigger \in {FailNode} \cup Steps
  BY DEF DInv, IInv, TypeOK, Row
<1>2. s \in Plan(w)
  BY <1>1, StepFacts DEF LInv, FollowsPlan, Plan, Steps
<1>3. wf[w].trigger # FailNode
  BY <1>1, <1>2 DEF Caused, AllDone
<1>4. PICK t \in Steps : wf[w].trigger = t
  BY <1>1, <1>3
<1>5. op[w][t] = "requested"
  BY <1>1, <1>4 DEF LInv, TriggerFailed
<1>6. ~ (t < s) /\ ~ (s < t)
  BY <1>1, <1>5 DEF LInv, FollowsPlan
<1>7. t = s
  BY <1>6, StepFacts
<1> QED
  BY <1>1, <1>4, <1>7 DEF Caused

(* How often a body was executed, by what the store says of its operation. *)
LEMMA EffectsOf ==
    ASSUME DInv, NEW w \in Workflows, NEW s \in Steps
    PROVE  /\ op[w][s] = "none" => OpEffects(w, s) = 0
           /\ op[w][s] = "succeeded" => OpEffects(w, s) = 1
           /\ op[w][s] = "requested" /\ wf[w].trigger # NoTrigger /\ ~ Stranded(w, s) =>
                  OpEffects(w, s) = 0
           /\ cp[w][s] \in {"none", "active"} => CpEffects(w, s) = 0
           /\ cp[w][s] = "reversed" => CpEffects(w, s) = 1
<1>1. <<w, s, "op">> \in Ops /\ <<w, s, "cp">> \in Ops
  BY OpsFacts
<1>2. /\ Sound(<<w, s, "op">>) /\ Bound(<<w, s, "op">>)
      /\ Sound(<<w, s, "cp">>) /\ Bound(<<w, s, "cp">>)
      /\ Caused(w)
  BY <1>1 DEF DInv, SInv
<1>3. /\ item[<<w, s, "op">>].state = "none" => OpEffects(w, s) = 0
      /\ item[<<w, s, "cp">>].state = "none" => CpEffects(w, s) = 0
  BY <1>2 DEF Sound, OpEffects, CpEffects
<1>4. op[w][s] = "none" => OpEffects(w, s) = 0
  BY <1>2, <1>3, SentFacts DEF Bound
<1>5. cp[w][s] \in {"none", "active"} => CpEffects(w, s) = 0
  BY <1>2, <1>3, SentFacts DEF Bound
<1>6. /\ op[w][s] = "succeeded" => OpEffects(w, s) = 1
      /\ cp[w][s] = "reversed" => CpEffects(w, s) = 1
  BY <1>2 DEF Caused, DoneOp, OpEffects, CpEffects
<1>7. ASSUME op[w][s] = "requested", wf[w].trigger # NoTrigger, ~ Stranded(w, s)
      PROVE  OpEffects(w, s) = 0
  <2>1. wf[w].trigger = s /\ Refuted(<<w, s, "op">>)
    BY <1>7, OpenIsTrigger
  <2>2. verdict[<<w, s, "op">>] = "refused"
    BY <1>7, <2>1 DEF Refuted, Stranded, Gives
  <2> QED
    BY <1>2, <1>3, <2>2 DEF Sound
<1> QED
  BY <1>4, <1>5, <1>6, <1>7

LEMMA BackedByInv == DInv => CheckpointIsBacked
<1> SUFFICES ASSUME DInv, NEW w \in Workflows, NEW s \in Steps
             PROVE  /\ op[w][s] = "succeeded" => DoneBy(w, s, "op")
                    /\ cp[w][s] = "reversed" => DoneBy(w, s, "cp")
  BY DEF CheckpointIsBacked
<1>1. Caused(w)
  BY DEF DInv
<1> QED
  BY <1>1 DEF Caused, DoneOp, DoneBy, Gives

LEMMA OutcomeByInv == DInv => OutcomeIsTrue
<1> SUFFICES ASSUME DInv, NEW w \in Workflows, NEW s \in Steps
             PROVE  /\ wf[w].state = "completed" /\ s \in Plan(w) =>
                           OpEffects(w, s) = 1 /\ CpEffects(w, s) = 0
                    /\ wf[w].state \in {"reversed", "failed"} /\ ~ Stranded(w, s) =>
                           OpEffects(w, s) = CpEffects(w, s)
  BY DEF OutcomeIsTrue
<1>1. TypeOK /\ LInv(w) /\ Turned(w)
  BY DEF DInv, IInv
<1>2. ASSUME wf[w].state = "completed", s \in Plan(w)
      PROVE  OpEffects(w, s) = 1 /\ CpEffects(w, s) = 0
  <2>1. s \in Active(w) /\ cp[w][s] \in {"none", "active"}
    BY <1>1, <1>2 DEF LInv, MeansItsState, Turned
  <2>2. op[w][s] = "succeeded"
    BY <1>1, <2>1 DEF Active, LInv, FollowsPlan
  <2> QED
    BY <2>1, <2>2, EffectsOf
<1>3. ASSUME wf[w].state \in {"reversed", "failed"}, ~ Stranded(w, s)
      PROVE  OpEffects(w, s) = CpEffects(w, s)
  <2>1. wf[w].trigger # NoTrigger /\ s \notin Standing(w)
    BY <1>1, <1>3 DEF LInv, MeansItsState, Turned
  <2>2. CASE op[w][s] = "succeeded"
    <3>1. cp[w][s] = "reversed"
      BY <1>1, <2>1, <2>2, CheckpointIsOne DEF Standing, LInv, FollowsPlan, CheckpointStates
    <3> QED
      BY <2>2, <3>1, EffectsOf
  <2>3. CASE op[w][s] # "succeeded"
    <3>1. cp[w][s] = "none" /\ op[w][s] \in {"none", "requested"}
      BY <1>1, <2>3, CheckpointIsOne DEF LInv, FollowsPlan
    <3> QED
      BY <1>3, <2>1, <3>1, EffectsOf
  <2> QED
    BY <2>2, <2>3
<1> QED
  BY <1>2, <1>3

LEMMA ReverseOrderByInv == DInv => CompensatedInReverse
<1> SUFFICES ASSUME DInv, NEW w \in Workflows, NEW r \in Steps, NEW s \in Steps,
                    r < s, CpEffects(w, r) > 0, ~ Stranded(w, s)
             PROVE  OpEffects(w, s) = CpEffects(w, s)
  BY DEF CompensatedInReverse
<1>1. TypeOK /\ LInv(w) /\ Turned(w)
  BY DEF DInv, IInv
<1>2. cp[w][r] \in {"dispatched", "reversed", "unresolved"}
  BY <1>1, EffectsOf, CheckpointIsOne DEF CheckpointStates
<1>3. wf[w].trigger # NoTrigger
  BY <1>1, <1>2 DEF Turned
<1>4. CASE cp[w][s] = "none"
  <2>1. op[w][s] \in {"none", "requested"}
    BY <1>1, <1>4, CheckpointIsOne DEF LInv, FollowsPlan
  <2> QED
    BY <1>3, <1>4, <2>1, EffectsOf
<1>5. CASE cp[w][s] # "none"
  <2>1. cp[w][s] = "reversed" /\ op[w][s] = "succeeded"
    BY <1>1, <1>2, <1>5 DEF LInv, FollowsPlan, UnwindsInOrder
  <2> QED
    BY <2>1, EffectsOf
<1> QED
  BY <1>4, <1>5

LEMMA CauseByInv == DInv => FailedForCause
<1> SUFFICES ASSUME DInv, NEW w \in Workflows, NEW s \in Steps
             PROVE  /\ wf[w].trigger = s => ~ Gives(w, s, "op", "result")
                    /\ cp[w][s] = "unresolved" =>
                           missed[w][s]["cp"] >= MinAttempts \/ ~ Gives(w, s, "cp", "result")
  BY DEF FailedForCause
<1>1. Caused(w)
  BY DEF DInv
<1> QED
  BY <1>1 DEF Caused, Refuted, Gives

(* Only a step of the participant executes anything, and only of an item    *)
(* that is still open.                                                      *)
LEMMA OnlyOpenItemsAreExecuted ==
    ASSUME DInv, DriveNext, NEW q \in Ops, effects'[q] # effects[q]
    PROVE  item[q].state = "working" /\ effects[q] = 0
<1>1. CASE UNCHANGED effects
  BY <1>1
<1>2. ASSUME NEW o \in Ops, NEW a \in P!Attempts, Apply(o, a)
      PROVE  item[q].state = "working" /\ effects[q] = 0
  <2>1. ServiceStep
    BY <1>2, ApplyIsService DEF Apply, DInv
  <2> QED
    BY <2>1 DEF ServiceStep
<1>3. CASE \E w \in Workflows : Submit(w) \/ BackOffEnds(w) \/ Lapses(w)
  BY <1>1, <1>3 DEF Submit, BackOffEnds, Lapses, service
<1>4. CASE \E x \in Executors : \/ \E w \in Workflows : StartDrive(x, w)
                                \/ Drives(x) \/ Crash(x) \/ TimeOut(x) \/ PutOff(x)
  <2>1. UNCHANGED effects
    BY <1>4
    DEF StartDrive, Drives, Crash, TimeOut, PutOff, ChooseForward, ChooseReverse, BindOperation,
        BindCompensation, FindBinding, Arrive, P!Accept, Get, HangUp, Settle, Reject, FailStep,
        SettleCompensation, BlockStep, Defer, Miss, PollLater, PollDrained, Redispatch, PendingDefer,
        FenceLost, service
  <2> QED
    BY <1>1, <2>1
<1>5. CASE \E o \in Ops : OrphanArrives(o) \/ ItemLapses(o)
  <2>1. UNCHANGED effects
    BY <1>5 DEF OrphanArrives, P!Accept, ItemLapses, P!LeaseExpires, service
  <2> QED
    BY <1>1, <2>1
<1>6. CASE \E o \in Ops, a \in P!Attempts : Complete(o, a) \/ CompleteStale(o, a) \/ Die(o, a)
  <2>1. UNCHANGED effects
    BY <1>6 DEF Complete, CompleteStale, Die, P!Complete, P!CompleteStale, P!Die
  <2> QED
    BY <1>1, <2>1
<1>7. CASE RouteLost \/ RouteBack
  BY <1>1, <1>7 DEF RouteLost, RouteBack, service
<1> QED
  BY <1>2, <1>3, <1>4, <1>5, <1>6, <1>7 DEF DriveNext, Serves

LEMMA NothingLate ==
    ASSUME DInv, DriveNext, NEW w \in Workflows, NEW s \in Steps,
           wf[w].state \in {"reversing", "reversed", "failed", "completed"}
    PROVE  OpEffects(w, s)' = OpEffects(w, s)
<1> DEFINE q == <<w, s, "op">>
<1> SUFFICES ASSUME effects'[q] # effects[q] PROVE FALSE
  BY DEF OpEffects
<1>1. q \in Ops
  BY OpsFacts
<1>2. item[q].state = "working" /\ effects[q] = 0
  BY <1>1, OnlyOpenItemsAreExecuted
<1>3. TypeOK /\ LInv(w) /\ Turned(w) /\ Caused(w) /\ Sound(q) /\ Bound(q)
  BY <1>1 DEF DInv, IInv, SInv
<1>4. op[w][s] # "none"
  BY <1>2, <1>3, SentFacts DEF Bound
<1>5. op[w][s] # "succeeded"
  BY <1>2, <1>3 DEF Caused, DoneOp
<1>6. op[w][s] = "requested"
  BY <1>3, <1>4, <1>5, CheckpointIsOne
<1>7. wf[w].state # "completed"
  <2>1. s \in Plan(w)
    BY <1>3, <1>4, StepFacts DEF LInv, FollowsPlan, Plan, Steps
  <2> QED
    BY <1>3, <1>6, <2>1 DEF LInv, MeansItsState, Active, FollowsPlan
<1>8. Refuted(q)
  BY <1>3, <1>6, <1>7, OpenIsTrigger DEF Turned
<1> QED
  BY <1>2, <1>3, <1>8 DEF Refuted, Sound

-----------------------------------------------------------------------------
(* The store never runs ahead of the participant: what it records as        *)
(* succeeded or reversed was carried out exactly once.                      *)
THEOREM StoreIsBacked == DriveSpec => []CheckpointIsBacked
BY BackedByInv, DriveInvariance, PTL

(* What the client is told is what happened to the effects. *)
THEOREM OutcomesAreTrue == DriveSpec => []OutcomeIsTrue
BY OutcomeByInv, DriveInvariance, PTL

(* No compensation is executed while a later effect still stands. *)
THEOREM CompensationIsInReverse == DriveSpec => []CompensatedInReverse
BY ReverseOrderByInv, DriveInvariance, PTL

(* No fault is taken for a rejection. *)
THEOREM FailuresHaveCause == DriveSpec => []FailedForCause
BY CauseByInv, DriveInvariance, PTL

(* Nothing is executed late: no forward operation of a workflow that has    *)
(* turned round or ended.                                                   *)
THEOREM NothingIsLate == DriveSpec => NoLateEffect
<1>1. DInv /\ [DriveNext]_everything =>
         [\A w \in Workflows, s \in Steps :
             wf[w].state \in {"reversing", "reversed", "failed", "completed"} =>
                 OpEffects(w, s)' = OpEffects(w, s)]_everything
  BY NothingLate
<1> QED
  BY <1>1, DriveInvariance, PTL DEF DriveSpec, NoLateEffect

-----------------------------------------------------------------------------
(* A participant's item is a register: granting the item to a handler       *)
(* admits an attempt, completing it decides, and nothing else shows.        *)

LEMMA RegisterInit == DriveInit => P!Register!Init
<1> SUFFICES ASSUME DriveInit PROVE P!Register!Init
  OBVIOUS
<1>1. \A o \in Ops : item[o].state = "none" /\ item[o].attempt = 0 /\ item[o].winner = 0
  BY DEF DriveInit, P!Init
<1> QED
  BY <1>1 DEF P!Register!Init, P!Done

LEMMA RegisterStutters ==
    ASSUME \A o \in Ops : /\ item'[o].state = item[o].state
                          /\ item'[o].attempt = item[o].attempt
                          /\ item'[o].winner = item[o].winner
    PROVE  UNCHANGED P!Register!vars
BY DEF P!Register!vars, P!Done

LEMMA AcceptAdmits ==
    ASSUME SInv, NEW o \in Ops, P!Accept(o)
    PROVE  P!Register!Next
<1>1. /\ item[o] \in P!Item /\ Sound(o) /\ item[o].state \in {"none", "working"}
      /\ item[o].attempt < MaxAttempts
  BY DEF SInv, P!TypeOK, P!Accept, P!MayReclaim
<1>2. item[o].attempt \in Nat /\ item[o].winner = 0
  BY <1>1 DEF P!Item, Sound
<1>3. PICK n \in P!Attempts : n = item[o].attempt + 1
  BY <1>1, <1>2, DriveAssumption DEF P!Attempts
<1>4. /\ item'[o].state = "working" /\ item'[o].attempt = n /\ item'[o].winner = 0
      /\ \A q \in Ops : q # o => item'[q] = item[q]
  BY <1>3 DEF P!Accept, SInv, P!TypeOK
<1>5. 1 .. n = (1 .. item[o].attempt) \cup {n} /\ n \notin 1 .. item[o].attempt
  BY <1>2, <1>3
<1>6. P!Register!Admit(o, n)
  <2>1. P!Done(o) = {} /\ \A q \in Ops : P!Done(q)' = P!Done(q)
    BY <1>1, <1>4 DEF P!Done
  <2>2. \A q \in Ops : item'[q].winner = item[q].winner
    BY <1>2, <1>4
  <2> QED
    BY <1>4, <1>5, <2>1, <2>2 DEF P!Register!Admit
<1> QED
  BY <1>2, <1>6 DEF P!Register!Next

LEMMA CompleteDecides ==
    ASSUME SInv, NEW o \in Ops, NEW a \in P!Attempts, P!Complete(o, a)
    PROVE  P!Register!Next
<1>1. item[o] \in P!Item /\ Sound(o) /\ item[o].state = "working" /\ item[o].attempt = a
  BY DEF SInv, P!TypeOK, P!Complete, P!HoldsItem
<1>2. a \in 1 .. a
  BY DEF P!Attempts
<1> DEFINE r == [item[o] EXCEPT !.state = "done", !.winner = a]
<1>3. r.state = "done" /\ r.winner = a /\ r.attempt = item[o].attempt
  BY <1>1 DEF P!Item
<1>4. item' = [item EXCEPT ![o] = r]
  BY DEF P!Complete
<1>5. /\ item'[o].state = "done" /\ item'[o].attempt = a /\ item'[o].winner = a
      /\ \A q \in Ops : q # o => item'[q] = item[q]
  BY <1>1, <1>3, <1>4 DEF SInv, P!TypeOK
<1>6. /\ P!Done(o) = {} /\ P!Done(o)' = {"done"}
      /\ \A q \in Ops : q # o => P!Done(q)' = P!Done(q)
  BY <1>1, <1>5 DEF P!Done
<1>7. P!Register!Decide(o, "done")
  BY <1>1, <1>2, <1>5, <1>6 DEF P!Register!Decide
<1> QED
  BY <1>7 DEF P!Register!Next

LEMMA RegisterStep == DInv /\ [DriveNext]_everything => [P!Register!Next]_(P!Register!vars)
<1> SUFFICES ASSUME DInv, [DriveNext]_everything
             PROVE  P!Register!Next \/ UNCHANGED P!Register!vars
  OBVIOUS
<1>0. SInv
  BY DEF DInv
<1>1. CASE UNCHANGED item
  BY <1>1, RegisterStutters
<1>2. CASE \E w \in Workflows : Submit(w) \/ BackOffEnds(w) \/ Lapses(w)
  BY <1>1, <1>2 DEF Submit, BackOffEnds, Lapses, service
<1>3. ASSUME NEW x \in Executors, Arrive(x)
      PROVE  P!Register!Next \/ UNCHANGED item
  <2>1. CASE P!Accept(OpOf(drv[x]))
    <3>1. OpOf(drv[x]) \in Ops
      BY <1>3, BusyDriver, OpOfFacts DEF Arrive, InFlight, DInv
    <3> QED
      BY <1>0, <2>1, <3>1, AcceptAdmits
  <2>2. CASE UNCHANGED service
    BY <2>2 DEF service
  <2> QED
    BY <1>3, <2>1, <2>2 DEF Arrive
<1>4. ASSUME NEW x \in Executors,
             \/ \E w \in Workflows : StartDrive(x, w)
             \/ Drives(x) \/ Crash(x) \/ TimeOut(x) \/ PutOff(x),
             ~ Arrive(x)
      PROVE  UNCHANGED item
  BY <1>4
  DEF StartDrive, Drives, Crash, TimeOut, PutOff, ChooseForward, ChooseReverse, BindOperation,
      BindCompensation, FindBinding, Get, HangUp, Settle, Reject, FailStep, SettleCompensation,
      BlockStep, Defer, Miss, PollLater, PollDrained, Redispatch, PendingDefer, FenceLost, service
<1>5. ASSUME NEW o \in Ops, OrphanArrives(o)
      PROVE  P!Register!Next \/ UNCHANGED item
  BY <1>0, <1>5, AcceptAdmits DEF OrphanArrives, service
<1>6. ASSUME NEW o \in Ops, ItemLapses(o)
      PROVE  UNCHANGED P!Register!vars
  <2> DEFINE r == [item[o] EXCEPT !.expired = TRUE]
  <2>1. item[o] \in P!Item
    BY <1>0 DEF SInv, P!TypeOK
  <2>2. r.state = item[o].state /\ r.attempt = item[o].attempt /\ r.winner = item[o].winner
    BY <2>1 DEF P!Item
  <2>3. item' = [item EXCEPT ![o] = r]
    BY <1>6 DEF ItemLapses, P!LeaseExpires
  <2> HIDE DEF r
  <2> QED
    BY <1>0, <2>2, <2>3, RegisterStutters DEF SInv, P!TypeOK
<1>7. ASSUME NEW o \in Ops, NEW a \in P!Attempts, Serves(o, a) \/ Die(o, a)
      PROVE  P!Register!Next \/ UNCHANGED item
  BY <1>0, <1>7, CompleteDecides
  DEF Serves, Apply, Complete, CompleteStale, Die, P!Apply, P!CompleteStale, P!Die
<1>8. CASE RouteLost \/ RouteBack \/ UNCHANGED everything
  BY <1>1, <1>8 DEF RouteLost, RouteBack, everything, service
<1> QED
  BY <1>1, <1>2, <1>3, <1>4, <1>5, <1>6, <1>7, <1>8 DEF DriveNext

(* A participant's item keeps the promise of Singular's register. *)
THEOREM ServiceRefinesRegister == DriveSpec => ServiceIsARegister
BY RegisterInit, RegisterStep, DriveInvariance, PTL
DEF DriveSpec, ServiceIsARegister, P!ImplementsRegister, P!Register!Spec
=============================================================================
