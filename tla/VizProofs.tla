------------------------------ MODULE VizProofs ------------------------------
(***************************************************************************)
(* What an answer of the observer is worth, for every tree of calls and    *)
(* every request, however many steps the engine takes between two reads.   *)
(*                                                                         *)
(* Nothing read is still true when the answer is given, but for what no    *)
(* step takes back: that a workflow exists, that a call was made, that a   *)
(* workflow is blocked, that a submitted one has ended.  The invariant     *)
(* keeps of each read just that.                                           *)
(***************************************************************************)
EXTENDS Viz, WorkflowCallProofs, SequenceTheorems

(* Two more things the engine keeps: a call that is recorded has its child, *)
(* and no workflow was ever created that is called from below itself.       *)
ChildrenExist ==
    \A p \in Calls : op[p[1]][p[2]] # "none" => wf[Callee[p[1]][p[2]]].state # "absent"
NoCircles ==
    \A p \in Calls : Callee[p[1]][p[2]] \in Line[p[1]] => wf[p[1]].state = "absent"
EngineInv == CInv /\ ChildrenExist /\ NoCircles

-----------------------------------------------------------------------------
(* What is kept of the reads.  The rows of the workflows are a parameter,   *)
(* for the same is said of them at several moments.                         *)

Exists(now, w) == w \in Workflows /\ now[w].state # "absent"
Entry == Workflows \X {"lower"}
Tip(line) == line[Len(line)][1]

(* A line of calls that starts at what was asked for. *)
Leads(k, line) ==
    /\ line \in Seq(Entry) /\ line # <<>> /\ line[1] = k
    /\ \A i \in 1 .. Len(line) : line[i][1] \in Line[Tip(line)]
    /\ \A i \in 1 .. Len(line) - 1 :
          \E p \in Calls : p[1] = line[i][1] /\ Callee[p[1]][p[2]] = line[i + 1][1]
Reached(now, k, line) == Leads(k, line) /\ Exists(now, Tip(line))

(* Of a state that was read: that w exists, and the state if it is for good. *)
Lasts(now, w, state) ==
    /\ Exists(now, w)
    /\ state \in States \ {"absent"}
    /\ state = "blocked" \/ (w \in Roots /\ state \in Ended) => now[w].state = state

(* Of a call that was read: it was made. *)
MadeCalls(now, w) ==
    {c \in Viewer!CallRow :
        \E p \in Calls : p[1] = w /\ Callee[p[1]][p[2]] = c.child /\ Exists(now, c.child)}

(* Reads of a walk after its first. *)
WalkTask(now, k) ==
    {t \in [what: {"plan", "args", "operations", "calls", "checkpoints", "events",
                   "merged events", "children"},
            line: Seq(Entry), left: SUBSET Viewer!CallRow] :
        t.what \in {"calls", "children"} =>
            Reached(now, k, t.line) /\ t.left \subseteq MadeCalls(now, Tip(t.line))}

(* What a walk may have shown. *)
Told(now, k) ==
    {s \in [line: Seq(Entry), state: (States \ {"absent"}) \cup {"truncated"}] :
        /\ Reached(now, k, s.line)
        /\ s.state # "truncated" => Lasts(now, Tip(s.line), s.state)}

(* Beside the state of the submitted workflow, what fits it. *)
OneStory(k, shown) ==
    \A s, t \in shown :
        k[1] \in Roots /\ Tip(s.line) = k[1] /\ t.state # "truncated" =>
            /\ s.state = "completed" => t.state = "completed"
            /\ s.state \in {"reversed", "failed"} => t.state \in {"reversed", "failed"}

(* The tables that are read after the calls are still to be read. *)
WalkTasks(now, k, view) ==
    {todo \in Seq(WalkTask(now, k)) :
        \A i \in 1 .. Len(todo) :
            todo[i].what = "calls" => i + Viewer!AfterCalls(view) <= Len(todo)}

WalkGoesWell(d, now) ==
    /\ d.shown \subseteq Told(now, d.q.key)
    /\ OneStory(d.q.key, d.shown)
    /\ \/ d.todo \in WalkTasks(now, d.q.key, d.q.view)
       \/ /\ d.shown = {} /\ d.todo # <<>> /\ Head(d.todo) = Viewer!Read("row", <<d.q.key>>)
          /\ Tail(d.todo) \in WalkTasks(now, d.q.key, d.q.view)

(* The blocked workflows that a verdict has to find. *)
Concerned(k, blocked) == {b \in blocked : k[1] \in Line[b]}
AllBelow(k, blocked, line) == \A b \in Concerned(k, blocked) : Tip(line) \in Line[b]

(* Where a descent has read a node. *)
AtNode(d, now, blocked) ==
    LET k == d.q.key  line == d.node.line  state == d.node.state
    IN  /\ Reached(now, k, line)
        /\ Lasts(now, Tip(line), state)
        /\ AllBelow(k, blocked, line)
        /\ \A b \in Concerned(k, blocked) :
              IF Tip(line) = b THEN state = "blocked" ELSE state \in {"forward", "reversing"}

(* Where it has found no answer there and goes on to the children. *)
GoesBelow(d, now, blocked) ==
    /\ AtNode(d, now, blocked)
    /\ d.node.state \notin Viewer!Terminal \cup {"blocked"}

Left(todo) == IF todo = <<>> THEN {} ELSE Head(todo).left
Descends(d, now, blocked) ==
    \/ LET line == Head(d.todo).line
       IN  /\ d.todo # <<>> /\ d.todo = <<Viewer!Read("row", line)>>
           /\ Leads(d.q.key, line)
           /\ AllBelow(d.q.key, blocked, line)
    \/ /\ AtNode(d, now, blocked)
       /\ LET clock == Viewer!Read("clock", d.node.line)
              operations == Viewer!Read("operations", d.node.line)
              checkpoints == Viewer!Read("checkpoints", d.node.line)
          IN  d.todo \in {<<clock, operations, checkpoints>>, <<operations, checkpoints>>, <<checkpoints>>}
    \/ GoesBelow(d, now, blocked) /\ d.todo = <<Viewer!Read("called", d.node.line)>>
    \/ /\ GoesBelow(d, now, blocked)
       /\ d.todo = Viewer!ToVisit(d.node.line, Left(d.todo))
       /\ Left(d.todo) \subseteq MadeCalls(now, Tip(d.node.line))
       /\ \A b \in Concerned(d.q.key, blocked) : \E c \in Left(d.todo) : c.child \in Line[b]

VerdictHolds(d, now, blocked) ==
    LET k == d.q.key  line == d.answer.line  verdict == d.answer.verdict
    IN  /\ Leads(k, line)
        /\ AllBelow(k, blocked, line)
        /\ \A b \in Concerned(k, blocked) :
              IF Tip(line) = b THEN verdict = "blocked_resolution" ELSE verdict = "running_under_lease"
        /\ verdict = "terminal" /\ Tip(line) \in Roots => now[Tip(line)].state \in Ended
        /\ verdict = "blocked_resolution" => now[Tip(line)].state = "blocked"

HandlerFields == {"at", "q", "connection", "todo", "node", "shown", "answer", "status"}
NodeFields == {"line", "state", "leased", "lapsed", "due", "carriers"}
IsHandler(d) == d = [x \in HandlerFields |-> d[x]] /\ d.node = [x \in NodeFields |-> d.node[x]]

Walks(d) == d.q.view \in {"inspect", "tree", "timeline"}
AsksVerdict(d) == d.q.view = "stuck"

HandlerInv(d, now, blocked) ==
    /\ IsHandler(d)
    /\ d.at \in {"waiting", "asked", "read", "respond", "answered"}
    /\ \A b \in blocked : b \in Workflows /\ now[b].state = "blocked"
    /\ d.at \in {"asked", "read"} /\ (Walks(d) \/ AsksVerdict(d)) => d.q.key \in Entry
    /\ d.at = "asked" => d.shown = {}
    /\ d.at = "read" /\ Walks(d) => WalkGoesWell(d, now)
    /\ d.at = "read" /\ AsksVerdict(d) => Descends(d, now, blocked)
    /\ d.at \in {"respond", "answered"} /\ d.status = 200 /\ Walks(d) =>
           d.shown \subseteq Told(now, d.q.key) /\ OneStory(d.q.key, d.shown)
    /\ d.at \in {"respond", "answered"} /\ d.status = 200 /\ AsksVerdict(d) =>
           VerdictHolds(d, now, blocked)

VInv == EngineInv /\ HandlerInv(h, wf, blockedThen)

-----------------------------------------------------------------------------
(* The engine *)

(* What no step takes back. *)
Keeps(w) ==
    /\ wf[w].state # "absent" => wf'[w].state # "absent"
    /\ wf[w].state = "blocked" => wf'[w].state = "blocked"

LEMMA MovesKeep ==
    ASSUME NEW w \in Workflows, 
           GoesOn(w) \/ CreateMove(w) \/ (wf[w].state = "completed" /\ wf'[w].state = "reversing")
    PROVE  Keeps(w)
BY DEF GoesOn, CreateMove, Becomes, Keeps

LEMMA StepKeeps ==
    ASSUME StoreStep, NEW w \in Workflows
    PROVE  Keeps(w)
<1>1. CASE Idles
  BY <1>1, RestsGoesOn, MovesKeep DEF Idles
<1>2. ASSUME NEW v \in Workflows, Alone(v) \/ Born(v)
      PROVE  Keeps(w)
  <2>1. CASE w = v
    BY <1>2, <2>1, AloneGoesOn, MovesKeep DEF Born
  <2>2. CASE w # v
    BY <1>2, <2>2, SameIsSameRecord, MovesKeep DEF Alone, Born, Shape
  <2> QED
    BY <2>1, <2>2
<1>3. ASSUME NEW p \in Calls, Called(p[1], p[2])
      PROVE  Keeps(w)
  <2>1. CASE w = p[1]
    BY <1>3, <2>1 DEF Called, RequestMove, SameLife, Keeps
  <2>2. CASE w = Callee[p[1]][p[2]]
    BY <1>3, <2>2, MovesKeep DEF Called
  <2>3. CASE w # p[1] /\ w # Callee[p[1]][p[2]]
    BY <1>3, <2>3, SameIsSameRecord, MovesKeep DEF Called
  <2> QED
    BY <2>1, <2>2, <2>3
<1>4. ASSUME NEW p \in Calls, Reopened(p[1], p[2])
      PROVE  Keeps(w)
  <2>1. CASE w = Callee[p[1]][p[2]]
    BY <1>4, <2>1, MovesKeep DEF Reopened, Becomes
  <2>2. CASE w # Callee[p[1]][p[2]]
    BY <1>4, <2>2, SameIsSameRecord, MovesKeep DEF Reopened
  <2> QED
    BY <2>1, <2>2
<1> QED
  BY <1>1, <1>2, <1>3, <1>4 DEF StoreStep

LEMMA RootKeepsItsEnd ==
    ASSUME CInv, StoreStep, NEW r \in Roots, wf[r].state \in Ended
    PROVE  wf'[r].state = wf[r].state
BY EndedTreeStays, TreeFacts DEF SameRecord, SameLife, Ended, Final

(* A call is recorded in the step that creates the child. *)
LEMMA StoreKeepsChildren ==
    ASSUME CInv, ChildrenExist, StoreStep
    PROVE  ChildrenExist'
<1> SUFFICES ASSUME NEW p \in Calls, op'[p[1]][p[2]] # "none"
             PROVE  wf'[Callee[p[1]][p[2]]].state # "absent"
  BY DEF ChildrenExist
<1> DEFINE v == p[1]  s == p[2]  c == Callee[v][s]
<1>1. v \in Workflows /\ s \in Steps /\ c \in Workflows /\ p = <<v, s>>
  BY CallFacts
<1>2. op[v][s] # "none" => wf'[c].state # "absent"
  BY <1>1, StepKeeps DEF ChildrenExist, Keeps
<1>3. CASE Idles
  BY <1>1, <1>2, <1>3 DEF Idles, Rests, SameRows
<1>4. ASSUME NEW w \in Workflows, Alone(w) \/ Born(w)
      PROVE  op[v][s] # "none" \/ wf'[c].state # "absent"
  <2>1. CASE v # w
    BY <1>1, <1>4, <2>1 DEF Alone, Born, Shape, Same
  <2>2. CASE v = w /\ Born(w)
    BY <2>2 DEF Born, CreateMove, SameRows
  <2>3. CASE v = w /\ Alone(w)
    <3>1. op'[v][s] # op[v][s] => wf[c].state = "completed"
      BY <1>1, <2>3 DEF Alone, Awaits
    <3> QED
      BY <1>1, <3>1, StepKeeps DEF Keeps
  <2> QED
    BY <1>4, <2>1, <2>2, <2>3
<1>5. ASSUME NEW q \in Calls, Called(q[1], q[2])
      PROVE  op[v][s] # "none" \/ wf'[c].state # "absent"
  <2>1. CASE q = p
    BY <1>5, <2>1 DEF Called, CreateMove, Becomes
  <2>2. CASE q # p
    <3>1. v = q[1] => s # q[2]
      BY <1>1, <2>2, CallFacts
    <3>2. v = q[1] => op'[v][s] = op[v][s]
      BY <1>1, <1>5, <3>1 DEF Called, RequestMove, CInv, IInv, TypeOK
    <3>3. v = Callee[q[1]][q[2]] => op'[v][s] = op[v][s]
      BY <1>5 DEF Called, CreateMove, SameRows
    <3>4. v # q[1] /\ v # Callee[q[1]][q[2]] => op'[v][s] = op[v][s]
      BY <1>1, <1>5 DEF Called, Same
    <3> QED
      BY <3>2, <3>3, <3>4
  <2> QED
    BY <2>1, <2>2
<1>6. ASSUME NEW q \in Calls, Reopened(q[1], q[2])
      PROVE  op'[v][s] = op[v][s]
  BY <1>1, <1>6 DEF Reopened, SameRows, Same
<1> QED
  BY <1>2, <1>3, <1>4, <1>5, <1>6 DEF StoreStep

(* Only a call from a workflow that exists, or a client, creates one. *)
LEMMA Creation ==
    ASSUME StoreStep, NEW w \in Workflows, wf[w].state = "absent", wf'[w].state # "absent"
    PROVE  \/ w \in Roots
           \/ \E q \in Calls : Callee[q[1]][q[2]] = w /\ wf[q[1]].state # "absent"
<1>1. CASE Idles
  BY <1>1 DEF Idles, Rests, SameLife
<1>2. ASSUME NEW v \in Workflows, Alone(v) \/ Born(v)
      PROVE  w \in Roots
  <2>1. v = w
    BY <1>2 DEF Alone, Born, Shape, Same
  <2> QED
    BY <1>2, <2>1 DEF Alone, Born
<1>3. ASSUME NEW q \in Calls, Called(q[1], q[2])
      PROVE  Callee[q[1]][q[2]] = w /\ wf[q[1]].state # "absent"
  BY <1>3 DEF Called, Same, RequestMove, SameLife
<1>4. ASSUME NEW q \in Calls, Reopened(q[1], q[2])
      PROVE  FALSE
  BY <1>4 DEF Reopened, Same, Becomes
<1> QED
  BY <1>1, <1>2, <1>3, <1>4 DEF StoreStep

LEMMA StoreKeepsNoCircles ==
    ASSUME NoCircles, StoreStep
    PROVE  NoCircles'
<1> SUFFICES ASSUME NEW p \in Calls, Callee[p[1]][p[2]] \in Line[p[1]], wf'[p[1]].state # "absent"
             PROVE  FALSE
  BY DEF NoCircles
<1> DEFINE w == p[1]  c == Callee[w][p[2]]
<1>1. w \in Workflows /\ c \in Workflows \ {w} /\ wf[w].state = "absent"
  BY CallFacts DEF NoCircles
<1>2. w \notin Roots
  BY <1>1, LineOfRoot
<1>3. PICK q \in Calls : Callee[q[1]][q[2]] = w /\ wf[q[1]].state # "absent"
  BY <1>1, <1>2, Creation
<1>4. c \in Line[q[1]] /\ q[1] \in Workflows
  BY <1>1, <1>3, LineOfChild, CallFacts
<1>5. w \in Line[c]
  BY <1>1, LineStarts, LineUp
<1>6. w \in Line[q[1]]
  BY <1>4, <1>5, LineTrans
<1> QED
  BY <1>3, <1>6 DEF NoCircles

LEMMA EngineStepKeeps == EngineInv /\ [CallNext]_everything => EngineInv'
BY CallStepKeeps, CallStepStores, StoreKeepsChildren, StoreKeepsNoCircles DEF EngineInv

LEMMA EngineInit == CallInit => EngineInv
<1> SUFFICES ASSUME CallInit PROVE EngineInv
  OBVIOUS
<1>1. \A w \in Workflows : wf[w].state = "absent" /\ \A s \in Steps : op[w][s] = "none"
  BY DEF CallInit, Init, NoRow
<1> QED
  BY <1>1, CallInitInv, CallFacts DEF EngineInv, ChildrenExist, NoCircles

-----------------------------------------------------------------------------
(* Lines of calls *)

LEMMA LineFacts ==
    ASSUME NEW k, NEW line, Leads(k, line)
    PROVE  /\ line \in Seq(Entry) /\ Len(line) \in Nat \ {0}
           /\ \A i \in 1 .. Len(line) : line[i] \in Entry
           /\ k \in Entry /\ k[1] \in Workflows /\ Tip(line) \in Workflows
           /\ k[1] \in Line[Tip(line)]
<1>1. line \in Seq(Entry) /\ line # <<>> /\ line[1] = k
  BY DEF Leads
<1>2. Len(line) \in Nat \ {0}
  BY <1>1, EmptySeq
<1>3. \A i \in 1 .. Len(line) : line[i] \in Entry
  BY <1>1, ElementOfSeq
<1>4. line[1] \in Entry /\ line[Len(line)] \in Entry
  BY <1>2, <1>3
<1> QED
  BY <1>1, <1>2, <1>3, <1>4 DEF Leads, Entry, Tip

LEMMA LineBegins ==
    ASSUME NEW k \in Entry
    PROVE  Leads(k, <<k>>) /\ Tip(<<k>>) = k[1] /\ Len(<<k>>) = 1
<1>1. <<k>> \in Seq(Entry) /\ Len(<<k>>) = 1 /\ <<k>>[1] = k
  OBVIOUS
<1>2. k[1] \in Line[k[1]]
  BY LineStarts DEF Entry
<1> QED
  BY <1>1, <1>2 DEF Leads, Tip

LEMMA LineGoesOn ==
    ASSUME NEW k, NEW line, Leads(k, line), NEW p \in Calls, p[1] = Tip(line)
    PROVE  LET child == Callee[p[1]][p[2]]
               longer == Append(line, Viewer!Lower(child))
           IN  Leads(k, longer) /\ Tip(longer) = child /\ Len(longer) = Len(line) + 1
<1> DEFINE child == Callee[p[1]][p[2]]
           e == Viewer!Lower(child)
           longer == Append(line, e)
<1>1. child \in Workflows /\ e \in Entry /\ e[1] = child
  BY CallFacts DEF Entry, Viewer!Lower, Viewer!Key
<1>2. line \in Seq(Entry) /\ Len(line) \in Nat \ {0} /\ \A i \in 1 .. Len(line) : line[i] \in Entry
  BY LineFacts
<1> HIDE DEF e, child
<1>3. /\ longer \in Seq(Entry) /\ longer # <<>> /\ Len(longer) = Len(line) + 1
      /\ \A i \in 1 .. Len(line) : longer[i] = line[i]
      /\ longer[Len(line) + 1] = e
  BY <1>1, <1>2, AppendProperties
<1> HIDE DEF longer
<1>4. Tip(longer) = child /\ longer[1] = k
  BY <1>1, <1>2, <1>3 DEF Tip, Leads
<1>5. Tip(line) \in Line[child]
  BY LineStarts, LineUp, CallFacts DEF child
<1>6. ASSUME NEW i \in 1 .. Len(longer)
      PROVE  longer[i][1] \in Line[child]
  <2>1. CASE i = Len(line) + 1
    BY <1>1, <1>3, <2>1, LineStarts
  <2>2. CASE i \in 1 .. Len(line)
    <3>1. longer[i][1] \in Line[Tip(line)]
      BY <1>3, <2>2 DEF Leads
    <3> QED
      BY <1>1, <1>5, <3>1, LineTrans
  <2> QED
    BY <1>2, <1>3, <2>1, <2>2
<1>7. ASSUME NEW i \in 1 .. Len(longer) - 1
      PROVE  \E q \in Calls : q[1] = longer[i][1] /\ Callee[q[1]][q[2]] = longer[i + 1][1]
  <2>1. CASE i = Len(line)
    <3>1. longer[i] = line[Len(line)] /\ longer[i + 1] = e
      BY <1>2, <1>3, <2>1
    <3> QED
      BY <1>1, <3>1 DEF Tip, child
  <2>2. CASE i \in 1 .. Len(line) - 1
    <3>1. longer[i] = line[i] /\ longer[i + 1] = line[i + 1]
      BY <1>2, <1>3, <2>2
    <3> QED
      BY <2>2, <3>1 DEF Leads
  <2> QED
    BY <1>2, <1>3, <2>1, <2>2
<1> QED
  BY <1>3, <1>4, <1>6, <1>7 DEF Leads, longer, e, child

(* No walk comes to a workflow that is above itself. *)
LEMMA NoCircleComes ==
    ASSUME NoCircles, NEW k, NEW line, Reached(wf, k, line), NEW p \in Calls, p[1] = Tip(line)
    PROVE  ~ Viewer!IsCircle(Append(line, Viewer!Lower(Callee[p[1]][p[2]])))
<1> DEFINE child == Callee[p[1]][p[2]]
           e == Viewer!Lower(child)
           longer == Append(line, e)
<1>1. child \in Workflows /\ e \in Entry /\ e[1] = child
  BY CallFacts DEF Entry, Viewer!Lower, Viewer!Key
<1>2. /\ Leads(k, line) /\ line \in Seq(Entry) /\ Len(line) \in Nat \ {0}
      /\ \A i \in 1 .. Len(line) : line[i] \in Entry
  BY LineFacts DEF Reached
<1>3. child \notin Line[p[1]]
  BY DEF NoCircles, Reached, Exists
<1> HIDE DEF e, child
<1>4. /\ longer \in Seq(Entry) /\ Len(longer) = Len(line) + 1
      /\ \A i \in 1 .. Len(line) : longer[i] = line[i]
      /\ longer[Len(line) + 1] = e
  BY <1>1, <1>2, AppendProperties
<1> HIDE DEF longer
<1> DEFINE above == SubSeq(longer, 1, Len(longer) - 1)
<1>5. Len(above) = Len(line) /\ \A i \in 1 .. Len(line) : above[i] = line[i]
  <2>1. \A i \in 1 .. Len(longer) - 1 : longer[i] \in Entry
    BY <1>2, <1>4
  <2>2. /\ Len(above) = Len(longer) - 1
        /\ \A i \in 1 .. Len(longer) - 1 : above[i] = longer[i]
    BY <1>2, <1>4, <2>1, SubSeqProperties
  <2> QED
    BY <1>2, <1>4, <2>2
<1> HIDE DEF above
<1>6. ASSUME NEW i \in 1 .. Len(above), e = above[i]
      PROVE  FALSE
  BY <1>1, <1>2, <1>3, <1>5, <1>6 DEF Leads
<1>7. longer[Len(longer)] = e
  BY <1>2, <1>4
<1>8. ~ Viewer!IsCircle(longer)
  BY <1>6, <1>7 DEF Viewer!IsCircle, Viewer!Seen, Viewer!Above, above
<1> QED
  BY <1>8 DEF longer, e, child

-----------------------------------------------------------------------------
(* What was read stays true enough while the engine goes on *)

Later(a, b) ==
    \A w \in Workflows :
        /\ a[w].state # "absent" => b[w].state # "absent"
        /\ a[w].state = "blocked" => b[w].state = "blocked"
        /\ w \in Roots /\ a[w].state \in Ended => b[w].state = a[w].state

LEMMA EngineGoesOn == CInv /\ StoreStep => Later(wf, wf')
BY StepKeeps, RootKeepsItsEnd DEF Keeps, Later

LEMMA LastsLater ==
    ASSUME NEW a, NEW b, Later(a, b), NEW w, NEW state
    PROVE  /\ Exists(a, w) => Exists(b, w)
           /\ Lasts(a, w, state) => Lasts(b, w, state)
           /\ MadeCalls(a, w) \subseteq MadeCalls(b, w)
<1>1. \A v : Exists(a, v) => Exists(b, v)
  BY DEF Exists, Later
<1>2. Lasts(a, w, state) => Lasts(b, w, state)
  BY <1>1 DEF Lasts, Exists, Later, Ended
<1>3. MadeCalls(a, w) \subseteq MadeCalls(b, w)
  BY <1>1 DEF MadeCalls
<1> QED
  BY <1>1, <1>2, <1>3

LEMMA WalkTaskLater ==
    ASSUME NEW a, NEW b, Later(a, b), NEW k
    PROVE  \A view : WalkTasks(a, k, view) \subseteq WalkTasks(b, k, view)
<1>1. ASSUME NEW line
      PROVE  /\ Reached(a, k, line) => Reached(b, k, line)
             /\ MadeCalls(a, Tip(line)) \subseteq MadeCalls(b, Tip(line))
  BY LastsLater DEF Reached
<1>2. WalkTask(a, k) \subseteq WalkTask(b, k)
  BY <1>1 DEF WalkTask
<1>3. Seq(WalkTask(a, k)) \subseteq Seq(WalkTask(b, k))
  BY <1>2, SeqMonotonic
<1> QED
  BY <1>3 DEF WalkTasks

LEMMA ToldLater ==
    ASSUME NEW a, NEW b, Later(a, b), NEW k
    PROVE  Told(a, k) \subseteq Told(b, k)
<1>1. ASSUME NEW s
      PROVE  /\ Reached(a, k, s.line) => Reached(b, k, s.line)
             /\ Lasts(a, Tip(s.line), s.state) => Lasts(b, Tip(s.line), s.state)
  BY LastsLater DEF Reached
<1> QED
  BY <1>1 DEF Told

LEMMA WalkLater ==
    ASSUME NEW a, NEW b, Later(a, b), NEW d, WalkGoesWell(d, a)
    PROVE  WalkGoesWell(d, b)
BY WalkTaskLater, ToldLater DEF WalkGoesWell

LEMMA AtNodeLater ==
    ASSUME NEW a, NEW b, Later(a, b), NEW d, NEW blocked
    PROVE  /\ AtNode(d, a, blocked) => AtNode(d, b, blocked)
           /\ GoesBelow(d, a, blocked) => GoesBelow(d, b, blocked)
BY LastsLater DEF AtNode, GoesBelow, Reached

LEMMA DescentLater ==
    ASSUME NEW a, NEW b, Later(a, b), NEW d, NEW blocked, Descends(d, a, blocked)
    PROVE  Descends(d, b, blocked)
BY AtNodeLater, LastsLater DEF Descends

LEMMA VerdictLater ==
    ASSUME NEW a, NEW b, Later(a, b), NEW d, NEW blocked, VerdictHolds(d, a, blocked)
    PROVE  VerdictHolds(d, b, blocked)
<1>1. Tip(d.answer.line) \in Workflows
  BY LineFacts DEF VerdictHolds
<1> QED
  BY <1>1 DEF VerdictHolds, Later

LEMMA HandlerLater ==
    ASSUME NEW a, NEW b, Later(a, b), NEW d, NEW blocked, HandlerInv(d, a, blocked)
    PROVE  HandlerInv(d, b, blocked)
<1>1. \A v \in blocked : v \in Workflows /\ b[v].state = "blocked"
  BY DEF HandlerInv, Later
<1> QED
  BY <1>1, WalkLater, DescentLater, VerdictLater, ToldLater DEF HandlerInv

-----------------------------------------------------------------------------
(* A handler that ends, or reads what decides nothing *)

Good(d) == HandlerInv(d, wf, blockedThen)

LEMMA ConcludedFacts ==
    ASSUME NEW d, IsHandler(d), NEW status
    PROVE  LET e == Viewer!Concluded(d, status)
               f == Viewer!Failed(d, status)
           IN  /\ IsHandler(e) /\ e.at = "respond" /\ e.q = d.q /\ e.shown = d.shown
               /\ e.answer = d.answer /\ e.status = status
               /\ IsHandler(f) /\ f.at = "respond" /\ f.q = d.q /\ f.shown = {}
               /\ f.status = status
<1> DEFINE e == Viewer!Concluded(d, status)
           f == Viewer!Failed(d, status)
<1>1. e = [x \in HandlerFields |-> e[x]]
  BY DEF IsHandler, HandlerFields, Viewer!Concluded
<1>2. /\ e.at = "respond" /\ e.q = d.q /\ e.shown = d.shown /\ e.node = Viewer!NoNode
      /\ e.answer = d.answer /\ e.status = status
  BY DEF IsHandler, HandlerFields, Viewer!Concluded
<1>3. f = [e EXCEPT !.shown = {}]
  BY DEF Viewer!Failed
<1> HIDE DEF e, f
<1>4. e.node = [x \in NodeFields |-> e.node[x]]
  BY <1>2 DEF NodeFields, Viewer!NoNode
<1>5. /\ IsHandler(f) /\ f.at = "respond" /\ f.q = d.q /\ f.shown = {}
      /\ f.status = status
  BY <1>1, <1>2, <1>3, <1>4 DEF IsHandler, HandlerFields
<1> QED
  BY <1>1, <1>2, <1>4, <1>5 DEF e, f, IsHandler

LEMMA ErrorsAreGood ==
    ASSUME NEW d, Good(d), d.at # "waiting", NEW status, status # 200
    PROVE  Good(Viewer!Concluded(d, status)) /\ Good(Viewer!Failed(d, status))
<1>1. IsHandler(d) /\ \A b \in blockedThen : b \in Workflows /\ wf[b].state = "blocked"
  BY DEF Good, HandlerInv
<1> DEFINE e == Viewer!Concluded(d, status)
           f == Viewer!Failed(d, status)
<1>2. /\ IsHandler(e) /\ e.at = "respond" /\ e.q = d.q /\ e.status = status
      /\ IsHandler(f) /\ f.at = "respond" /\ f.q = d.q /\ f.status = status
  BY <1>1, ConcludedFacts
<1> HIDE DEF e, f
<1>3. Good(e) /\ Good(f)
  BY <1>1, <1>2 DEF Good, HandlerInv, Walks, AsksVerdict
<1> QED
  BY <1>3 DEF e, f

(* Whatever has been read, an answer without a walk or a verdict is good.   *)
LEMMA OthersAreGood ==
    ASSUME NEW d, Good(d), NEW e, IsHandler(e), e.at \in {"read", "respond", "answered"}, e.q = d.q,
           ~ Walks(d), ~ AsksVerdict(d)
    PROVE  Good(e)
BY DEF Good, HandlerInv, Walks, AsksVerdict

LEMMA RefuseIsGood ==
    ASSUME Good(h), Viewer!Refuse
    PROVE  Good(h')
BY ErrorsAreGood DEF Viewer!Refuse, Viewer!Becomes

LEMMA ServeFileIsGood ==
    ASSUME Good(h), Viewer!ServeFile
    PROVE  Good(h')
<1>1. \E status : h' = Viewer!Concluded(h, status)
  BY DEF Viewer!ServeFile, Viewer!Becomes
<1>2. IsHandler(h) /\ ~ Walks(h) /\ ~ AsksVerdict(h)
  BY DEF Viewer!ServeFile, Walks, AsksVerdict, Good, HandlerInv
<1> QED
  BY <1>1, <1>2, ConcludedFacts, OthersAreGood

LEMMA LoseDatabaseIsGood ==
    ASSUME Good(h), Viewer!LoseDatabase
    PROVE  Good(h')
BY ErrorsAreGood DEF Viewer!LoseDatabase, Viewer!Becomes

LEMMA RespondIsGood ==
    ASSUME Good(h), Viewer!Respond
    PROVE  Good(h')
<1>1. h.at = "respond" /\ IsHandler(h) /\ \A b \in blockedThen : b \in Workflows /\ wf[b].state = "blocked"
  BY DEF Viewer!Respond, Good, HandlerInv
<1>2. ASSUME NEW status, status # 200
      PROVE  Good(Viewer!Bare(status))
  <2> DEFINE e == Viewer!Bare(status)
  <2>1. e.at = "answered" /\ e.status = status /\ e.node = Viewer!NoNode
    BY DEF Viewer!Bare, Viewer!Waiting
  <2>2. e = [x \in HandlerFields |-> e[x]]
    BY DEF HandlerFields, Viewer!Bare, Viewer!Waiting
  <2>3. e.node = [x \in NodeFields |-> e.node[x]]
    BY <2>1 DEF NodeFields, Viewer!NoNode
  <2> HIDE DEF e
  <2>4. Good(e)
    BY <1>1, <1>2, <2>1, <2>2, <2>3 DEF Good, HandlerInv, IsHandler
  <2> QED
    BY <2>4 DEF e
<1>3. ASSUME h.status = 200
      PROVE  Good([h EXCEPT !.at = "answered"])
  <2> DEFINE e == [h EXCEPT !.at = "answered"]
  <2>1. /\ IsHandler(e) /\ e.at = "answered" /\ e.status = h.status /\ e.q = h.q
        /\ e.shown = h.shown /\ e.answer = h.answer
    BY <1>1 DEF IsHandler, HandlerFields
  <2> HIDE DEF e
  <2>2. Good(e)
    BY <1>1, <1>3, <2>1 DEF Good, HandlerInv, Walks, AsksVerdict, VerdictHolds
  <2> QED
    BY <2>2 DEF e
<1> QED
  BY <1>2, <1>3 DEF Viewer!Respond, Viewer!Becomes

LEMMA DoneFacts ==
    ASSUME NEW d, IsHandler(d)
    PROVE  LET e == Viewer!Done1(d)
           IN  /\ IsHandler(e) /\ e.at = d.at /\ e.q = d.q /\ e.node = d.node
               /\ e.shown = d.shown /\ e.answer = d.answer /\ e.status = d.status
               /\ e.todo = Tail(d.todo)
<1> DEFINE todo == Tail(d.todo)
<1>1. Viewer!Done1(d) = [d EXCEPT !.todo = todo]
  BY DEF Viewer!Done1
<1> HIDE DEF todo
<1>2. LET e == [d EXCEPT !.todo = todo]
      IN  /\ IsHandler(e) /\ e.at = d.at /\ e.q = d.q /\ e.node = d.node
          /\ e.shown = d.shown /\ e.answer = d.answer /\ e.status = d.status
          /\ e.todo = todo
  BY DEF IsHandler, HandlerFields
<1> QED
  BY <1>1, <1>2 DEF todo

LEMMA TasksGoOn ==
    ASSUME NEW k, NEW view, NEW todo \in WalkTasks(wf, k, view), todo # <<>>
    PROVE  Head(todo) \in WalkTask(wf, k) /\ Tail(todo) \in WalkTasks(wf, k, view)
<1> DEFINE T == WalkTask(wf, k)  n == Viewer!AfterCalls(view)
<1>1. /\ todo \in Seq(T)
      /\ \A i \in 1 .. Len(todo) : todo[i].what = "calls" => i + n <= Len(todo)
  BY DEF WalkTasks
<1>2. n \in Nat /\ Len(todo) \in Nat \ {0}
  BY <1>1, EmptySeq DEF Viewer!AfterCalls
<1> HIDE DEF T, n
<1>3. /\ Head(todo) \in T /\ Tail(todo) \in Seq(T) /\ Len(Tail(todo)) = Len(todo) - 1
      /\ \A i \in 1 .. Len(Tail(todo)) : Tail(todo)[i] = todo[i + 1]
  BY <1>1, HeadTailProperties
<1>4. ASSUME NEW i \in 1 .. Len(Tail(todo)), Tail(todo)[i].what = "calls"
      PROVE  i + n <= Len(Tail(todo))
  BY <1>1, <1>2, <1>3, <1>4
<1> QED
  BY <1>3, <1>4 DEF WalkTasks, T, n

(* What comes first on a walk, and on a descent. *)
LEMMA WalkHead ==
    ASSUME Good(h), h.at = "read", Walks(h), h.todo # <<>>
    PROVE  LET k == h.q.key  task == Head(h.todo)
           IN  /\ Tail(h.todo) \in WalkTasks(wf, k, h.q.view)
               /\ task.what # "row" =>
                     h.todo \in WalkTasks(wf, k, h.q.view) /\ task \in WalkTask(wf, k)
               /\ task.what = "row" => task = Viewer!Read("row", <<k>>) /\ h.shown = {}
<1> DEFINE k == h.q.key  T == WalkTask(wf, k)
<1>1. WalkGoesWell(h, wf)
  BY DEF Good, HandlerInv
<1>2. CASE h.todo \in WalkTasks(wf, k, h.q.view)
  <2>1. Head(h.todo) \in T /\ Tail(h.todo) \in WalkTasks(wf, k, h.q.view)
    BY <1>2, TasksGoOn
  <2>2. Head(h.todo).what # "row"
    BY <2>1 DEF WalkTask
  <2> QED
    BY <1>2, <2>1, <2>2
<1>3. CASE /\ h.shown = {} /\ Head(h.todo) = Viewer!Read("row", <<k>>)
           /\ Tail(h.todo) \in WalkTasks(wf, k, h.q.view)
  BY <1>3 DEF Viewer!Read
<1> QED
  BY <1>1, <1>2, <1>3 DEF WalkGoesWell

LEMMA WalkGoesOn ==
    ASSUME Good(h), h.at = "read", Walks(h), NEW e, IsHandler(e), e.at = "read", e.q = h.q,
           e.todo \in WalkTasks(wf, h.q.key, h.q.view), e.shown = h.shown
    PROVE  Good(e)
BY DEF Good, HandlerInv, Walks, AsksVerdict, WalkGoesWell

LEMMA DescentHead ==
    ASSUME Good(h), h.at = "read", AsksVerdict(h), h.todo # <<>>
    PROVE  LET k == h.q.key  line == h.node.line  what == Head(h.todo).what
               operations == Viewer!Read("operations", line)
               checkpoints == Viewer!Read("checkpoints", line)
           IN  /\ what \in {"row", "clock", "operations", "checkpoints", "called", "children"}
               /\ what = "row" =>
                     /\ Tail(h.todo) = <<>>
                     /\ Leads(k, Head(h.todo).line)
                     /\ AllBelow(k, blockedThen, Head(h.todo).line)
               /\ what \in {"clock", "operations", "checkpoints"} => AtNode(h, wf, blockedThen)
               /\ what = "clock" => Tail(h.todo) = <<operations, checkpoints>>
               /\ what = "operations" => Tail(h.todo) = <<checkpoints>>
               /\ what \in {"called", "children"} => GoesBelow(h, wf, blockedThen)
               /\ what = "children" =>
                     /\ h.todo = Viewer!ToVisit(line, Left(h.todo))
                     /\ Left(h.todo) \subseteq MadeCalls(wf, Tip(line))
                     /\ \A b \in Concerned(k, blockedThen) : \E c \in Left(h.todo) : c.child \in Line[b]
<1>1. Descends(h, wf, blockedThen)
  BY DEF Good, HandlerInv
<1> DEFINE line == h.node.line
           clock == Viewer!Read("clock", line)
           operations == Viewer!Read("operations", line)
           checkpoints == Viewer!Read("checkpoints", line)
<1>0. /\ clock.what = "clock" /\ operations.what = "operations" /\ checkpoints.what = "checkpoints"
      /\ Viewer!Read("called", line).what = "called"
      /\ \A l : Viewer!Read("row", l).what = "row" /\ Viewer!Read("row", l).line = l
  BY DEF Viewer!Read
<1>2. CASE /\ h.todo = <<Viewer!Read("row", Head(h.todo).line)>>
           /\ Leads(h.q.key, Head(h.todo).line)
           /\ AllBelow(h.q.key, blockedThen, Head(h.todo).line)
  <2> DEFINE row == Viewer!Read("row", Head(h.todo).line)
  <2>1. row.what = "row"
    BY <1>0
  <2> HIDE DEF row
  <2>2. h.todo = <<row>>
    BY <1>2 DEF row
  <2>3. Head(h.todo) = row /\ Tail(h.todo) = <<>>
    BY <2>2
  <2>4. Leads(h.q.key, Head(h.todo).line) /\ AllBelow(h.q.key, blockedThen, Head(h.todo).line)
    BY <1>2
  <2> QED
    BY <2>1, <2>3, <2>4
<1> HIDE DEF clock, operations, checkpoints
<1>3. CASE AtNode(h, wf, blockedThen) /\ h.todo = <<clock, operations, checkpoints>>
  <2>1. Head(h.todo) = clock /\ Tail(h.todo) = <<operations, checkpoints>>
    BY <1>3
  <2> QED
    BY <1>0, <1>3, <2>1 DEF clock, operations, checkpoints
<1>4. CASE AtNode(h, wf, blockedThen) /\ h.todo = <<operations, checkpoints>>
  <2>1. Head(h.todo) = operations /\ Tail(h.todo) = <<checkpoints>>
    BY <1>4
  <2> QED
    BY <1>0, <1>4, <2>1 DEF clock, operations, checkpoints
<1>5. CASE AtNode(h, wf, blockedThen) /\ h.todo = <<checkpoints>>
  <2>1. Head(h.todo) = checkpoints
    BY <1>5
  <2> QED
    BY <1>0, <1>5, <2>1 DEF clock, operations, checkpoints
<1>6. CASE GoesBelow(h, wf, blockedThen) /\ h.todo = <<Viewer!Read("called", line)>>
  <2>1. Head(h.todo) = Viewer!Read("called", line)
    BY <1>6
  <2>2. Head(h.todo).what = "called"
    BY <1>0, <2>1
  <2> QED
    BY <1>6, <2>2
<1>7. CASE /\ GoesBelow(h, wf, blockedThen)
           /\ h.todo = Viewer!ToVisit(line, Left(h.todo))
           /\ Left(h.todo) \subseteq MadeCalls(wf, Tip(line))
           /\ \A b \in Concerned(h.q.key, blockedThen) : \E c \in Left(h.todo) : c.child \in Line[b]
  <2>1. Head(h.todo).what = "children"
    BY <1>7 DEF Viewer!ToVisit
  <2> QED
    BY <1>7, <2>1
<1> QED
  BY <1>1, <1>2, <1>3, <1>4, <1>5, <1>6, <1>7 DEF Descends, clock, operations, checkpoints

-----------------------------------------------------------------------------
(* Reads that show nothing *)

LEMMA StoredFacts ==
    ASSUME NEW w \in Workflows
    PROVE  Stored[w].state = wf[w].state /\ Stored[w].calls = CallRows(w)
BY DEF Stored

LEMMA CallsRead ==
    ASSUME ChildrenExist, NEW w \in Workflows
    PROVE  CallRows(w) \subseteq MadeCalls(wf, w)
<1> SUFFICES ASSUME NEW s \in Plan(w), IsCall(w, s), op[w][s] # "none"
             PROVE  [seq |-> s, child |-> Callee[w][s]] \in MadeCalls(wf, w)
  BY DEF CallRows
<1>1. s \in Steps /\ s \in Nat /\ s <= PlanLength[w]
  BY StepFacts DEF Plan, Steps
<1>2. PICK p \in Calls : p = <<w, s>>
  BY <1>1, CallIs
<1>3. Callee[w][s] \in Workflows /\ wf[Callee[w][s]].state # "absent"
  BY <1>2, CallFacts DEF ChildrenExist
<1>4. p[1] = w /\ Callee[p[1]][p[2]] = Callee[w][s] /\ Exists(wf, Callee[w][s])
  BY <1>2, <1>3 DEF Exists
<1> QED
  BY <1>1, <1>3, <1>4 DEF MadeCalls, Viewer!CallRow

LEMMA FirstReadsFacts ==
    ASSUME NEW q, NEW now
    PROVE  LET todo == Viewer!FirstReads(q)  row == Viewer!Read("row", <<q.key>>)
           IN  /\ q.view \in {"inspect", "tree", "timeline"} =>
                     todo # <<>> /\ Head(todo) = row /\ Tail(todo) \in WalkTasks(now, q.key, q.view)
               /\ q.view = "stuck" => todo = <<row>>
<1> DEFINE todo == Viewer!FirstReads(q)
           row == Viewer!Read("row", <<q.key>>)
           merged == Viewer!Read("merged events", <<>>)
<1>1. merged \in WalkTask(now, q.key) /\ merged.what # "calls"
  BY EmptySeq DEF Viewer!Read, WalkTask
<1> HIDE DEF row, merged
<1>2. CASE q.view = "timeline"
  <2>1. todo = <<row, merged>>
    BY <1>2 DEF Viewer!FirstReads, row, merged
  <2>2. Head(todo) = row /\ Tail(todo) = <<merged>> /\ todo # <<>>
    BY <2>1
  <2>3. <<merged>> \in WalkTasks(now, q.key, q.view)
    <3>1. <<merged>> \in Seq(WalkTask(now, q.key))
      BY <1>1
    <3>2. \A i \in 1 .. Len(<<merged>>) : <<merged>>[i] = merged
      OBVIOUS
    <3> QED
      BY <1>1, <3>1, <3>2 DEF WalkTasks
  <2> QED
    BY <1>2, <2>2, <2>3 DEF row
<1>3. CASE q.view \in {"inspect", "tree", "stuck"}
  <2>1. todo = <<row>>
    BY <1>3 DEF Viewer!FirstReads, row
  <2>2. Head(todo) = row /\ Tail(todo) = <<>> /\ todo # <<>>
    BY <2>1
  <2>3. <<>> \in WalkTasks(now, q.key, q.view)
    BY EmptySeq DEF WalkTasks
  <2> QED
    BY <1>3, <2>1, <2>2, <2>3 DEF row
<1> QED
  BY <1>2, <1>3

LEMMA ConnectIsGood ==
    ASSUME Good(h), Viewer!Connect
    PROVE  Good(h')
<1> DEFINE e == [h EXCEPT !.at = "read", !.connection = "open", !.todo = Viewer!FirstReads(h.q)]
           c(connection) == [h EXCEPT !.connection = connection]
           k == h.q.key
<1>1. /\ IsHandler(h) /\ h.at = "asked" /\ h.shown = {}
      /\ Walks(h) \/ AsksVerdict(h) => k \in Entry
      /\ \A b \in blockedThen : b \in Workflows /\ wf[b].state = "blocked"
  BY DEF Viewer!Connect, Good, HandlerInv
<1>2. Good(Viewer!Failed(h, 502))
  BY <1>1, ErrorsAreGood
<1>3. ASSUME NEW connection
      PROVE  Good(Viewer!Failed(c(connection), 502))
  <2> DEFINE d == c(connection)
  <2>1. IsHandler(d) /\ d.at = "asked" /\ d.shown = {} /\ d.q = h.q
    BY <1>1 DEF IsHandler, HandlerFields
  <2> HIDE DEF d
  <2>2. Good(d)
    BY <1>1, <2>1 DEF Good, HandlerInv, Walks, AsksVerdict
  <2>3. Good(Viewer!Failed(d, 502))
    BY <2>1, <2>2, ErrorsAreGood
  <2> QED
    BY <2>3 DEF d
<1>4. Good(e)
  <2>1. IsHandler(e) /\ e.at = "read" /\ e.q = h.q /\ e.shown = {} /\ e.todo = Viewer!FirstReads(h.q)
    BY <1>1 DEF IsHandler, HandlerFields
  <2> HIDE DEF e
  <2>2. CASE Walks(h)
    <3>1. WalkGoesWell(e, wf)
      BY <2>1, <2>2, FirstReadsFacts DEF Walks, WalkGoesWell, OneStory
    <3> QED
      BY <1>1, <2>1, <2>2, <3>1 DEF Good, HandlerInv, Walks, AsksVerdict
  <2>3. CASE AsksVerdict(h)
    <3>1. e.todo = <<Viewer!Read("row", <<k>>)>>
      BY <2>1, <2>3, FirstReadsFacts DEF AsksVerdict
    <3>2. Head(e.todo).line = <<k>>
      BY <3>1 DEF Viewer!Read
    <3>3. Leads(k, <<k>>) /\ AllBelow(k, blockedThen, <<k>>)
      BY <1>1, <2>3, LineBegins DEF AllBelow, Concerned
    <3>4. Descends(e, wf, blockedThen)
      BY <2>1, <3>1, <3>2, <3>3 DEF Descends
    <3> QED
      BY <1>1, <2>1, <2>3, <3>4 DEF Good, HandlerInv, Walks, AsksVerdict
  <2>4. CASE ~ Walks(h) /\ ~ AsksVerdict(h)
    BY <2>1, <2>4, OthersAreGood
  <2> QED
    BY <2>2, <2>3, <2>4
<1> QED
  BY <1>2, <1>3, <1>4 DEF Viewer!Connect, Viewer!Becomes

LEMMA PassesOver ==
    ASSUME Good(h), h.at = "read", h.todo # <<>>, ~ AsksVerdict(h)
    PROVE  Good(Viewer!Done1(h))
<1> DEFINE e == Viewer!Done1(h)
<1>1. IsHandler(h)
  BY DEF Good, HandlerInv
<1>2. IsHandler(e) /\ e.at = "read" /\ e.q = h.q /\ e.shown = h.shown /\ e.todo = Tail(h.todo)
  BY <1>1, DoneFacts
<1> HIDE DEF e
<1>3. Walks(h) => Good(e)
  BY <1>2, WalkHead, WalkGoesOn
<1>4. ~ Walks(h) => Good(e)
  BY <1>2, OthersAreGood
<1> QED
  BY <1>3, <1>4 DEF e

LEMMA ReadDetailIsGood ==
    ASSUME Good(h), Viewer!ReadDetail
    PROVE  Good(h')
<1>1. h.at = "read" /\ h.todo # <<>> /\ Head(h.todo).what \in {"plan", "args", "events"}
  BY DEF Viewer!ReadDetail, Viewer!Reading, Viewer!Next1
<1>2. ~ AsksVerdict(h)
  BY <1>1, DescentHead
<1> QED
  BY <1>1, <1>2, PassesOver DEF Viewer!ReadDetail, Viewer!Becomes

LEMMA ReadMergedEventsIsGood ==
    ASSUME Good(h), Viewer!ReadMergedEvents
    PROVE  Good(h')
<1>1. h.at = "read" /\ h.todo # <<>> /\ Head(h.todo).what = "merged events"
  BY DEF Viewer!ReadMergedEvents, Viewer!Reading, Viewer!Next1
<1>2. ~ AsksVerdict(h)
  BY <1>1, DescentHead
<1>3. h.at = "read" /\ h.todo # <<>>
  BY <1>1
<1>4. Good(Viewer!Done1(h)) /\ Good(Viewer!Failed(h, 502))
  BY <1>2, <1>3, PassesOver, ErrorsAreGood
<1>5. h' = Viewer!Done1(h) \/ h' = Viewer!Failed(h, 502)
  BY DEF Viewer!ReadMergedEvents, Viewer!Becomes
<1> QED
  BY <1>4, <1>5

LEMMA ReadSummariesIsGood ==
    ASSUME Good(h), Viewer!ReadSummaries
    PROVE  Good(h')
<1>1. h.at = "read" /\ h.todo # <<>> /\ Head(h.todo).what = "summaries" /\ IsHandler(h)
  BY DEF Viewer!ReadSummaries, Viewer!Reading, Viewer!Next1, Good, HandlerInv
<1>2. ~ AsksVerdict(h)
  BY <1>1, DescentHead
<1>3. ~ Walks(h)
  BY <1>1, WalkHead DEF WalkTask
<1>4. ASSUME NEW shown
      PROVE  Good([Viewer!Concluded(h, 200) EXCEPT !.shown = shown])
  <2> DEFINE c == Viewer!Concluded(h, 200)
             e == [c EXCEPT !.shown = shown]
  <2>1. IsHandler(c) /\ c.at = "respond" /\ c.q = h.q
    BY <1>1, ConcludedFacts
  <2> HIDE DEF c
  <2>2. IsHandler(e) /\ e.at = "respond" /\ e.q = h.q
    BY <2>1 DEF IsHandler, HandlerFields
  <2> HIDE DEF e
  <2>3. Good(e)
    BY <1>2, <1>3, <2>2, OthersAreGood
  <2> QED
    BY <2>3 DEF e, c
<1>5. Good(Viewer!Failed(h, 400))
  BY <1>1, ErrorsAreGood
<1>6. \/ h' = Viewer!Failed(h, 400)
      \/ \E shown : h' = [Viewer!Concluded(h, 200) EXCEPT !.shown = shown]
  BY DEF Viewer!ReadSummaries, Viewer!Becomes
<1> QED
  BY <1>4, <1>5, <1>6

LEMMA FinishWalkIsGood ==
    ASSUME Good(h), Viewer!FinishWalk
    PROVE  Good(h')
<1> DEFINE e == Viewer!Concluded(h, 200)
<1>1. h.at = "read" /\ Walks(h) /\ ~ AsksVerdict(h) /\ IsHandler(h) /\ h' = e
  BY DEF Viewer!FinishWalk, Viewer!WalkViews, Viewer!Becomes, Walks, AsksVerdict, Good, HandlerInv
<1>2. IsHandler(e) /\ e.at = "respond" /\ e.q = h.q /\ e.shown = h.shown
  BY <1>1, ConcludedFacts
<1> HIDE DEF e
<1>3. Good(e)
  BY <1>1, <1>2 DEF Good, HandlerInv, WalkGoesWell, Walks, AsksVerdict
<1> QED
  BY <1>1, <1>3

-----------------------------------------------------------------------------
(* The descent to a verdict *)

LEMMA DescentGoesOn ==
    ASSUME Good(h), AsksVerdict(h), h.at = "read", NEW e, IsHandler(e), e.at = "read", e.q = h.q,
           Descends(e, wf, blockedThen)
    PROVE  Good(e)
BY DEF Good, HandlerInv, Walks, AsksVerdict

(* Of a node, only its line and its state are remembered. *)
LEMMA SameNode ==
    ASSUME NEW d, NEW e, e.q = d.q, e.node.line = d.node.line, e.node.state = d.node.state
    PROVE  /\ AtNode(d, wf, blockedThen) => AtNode(e, wf, blockedThen)
           /\ GoesBelow(d, wf, blockedThen) => GoesBelow(e, wf, blockedThen)
BY DEF AtNode, GoesBelow

LEMMA ReadClockIsGood ==
    ASSUME Good(h), Viewer!ReadClock
    PROVE  Good(h')
<1> DEFINE e == Viewer!Done1(h)
<1>1. h.at = "read" /\ h.todo # <<>> /\ Head(h.todo).what = "clock" /\ IsHandler(h)
  BY DEF Viewer!ReadClock, Viewer!Reading, Viewer!Next1, Good, HandlerInv
<1>2. CASE h.q.view = "health"
  <2>1. ~ Walks(h) /\ ~ AsksVerdict(h)
    BY <1>2 DEF Walks, AsksVerdict
  <2>2. Good(Viewer!Concluded(h, 200))
    BY <1>1, <2>1, ConcludedFacts, OthersAreGood
  <2> QED
    BY <1>2, <2>2 DEF Viewer!ReadClock, Viewer!Becomes
<1>3. ASSUME AsksVerdict(h)
      PROVE  Good(e)
  <2>1. IsHandler(e) /\ e.at = "read" /\ e.q = h.q /\ e.node = h.node /\ e.todo = Tail(h.todo)
    BY <1>1, DoneFacts
  <2> HIDE DEF e
  <2>2. /\ AtNode(h, wf, blockedThen)
        /\ Tail(h.todo) = <<Viewer!Read("operations", h.node.line), Viewer!Read("checkpoints", h.node.line)>>
    BY <1>1, <1>3, DescentHead
  <2>3. AtNode(e, wf, blockedThen)
    BY <2>1, <2>2, SameNode
  <2>4. Descends(e, wf, blockedThen)
    BY <2>1, <2>2, <2>3 DEF Descends
  <2> QED
    BY <1>1, <1>3, <2>1, <2>4, DescentGoesOn
<1>4. CASE h.q.view # "health"
  <2>1. h' = e
    BY <1>4 DEF Viewer!ReadClock, Viewer!Becomes
  <2>2. Good(e)
    BY <1>1, <1>3, PassesOver
  <2> QED
    BY <2>1, <2>2
<1> QED
  BY <1>2, <1>4

LEMMA ReadOperationsIsGood ==
    ASSUME Good(h), Viewer!ReadOperations
    PROVE  Good(h')
<1>1. h.at = "read" /\ h.todo # <<>> /\ Head(h.todo).what = "operations" /\ IsHandler(h)
  BY DEF Viewer!ReadOperations, Viewer!Reading, Viewer!Next1, Good, HandlerInv
<1>2. CASE ~ AsksVerdict(h)
  <2>1. h' = Viewer!Done1(h)
    BY <1>2 DEF Viewer!ReadOperations, Viewer!Becomes, AsksVerdict
  <2> QED
    BY <1>1, <1>2, <2>1, PassesOver
<1>3. CASE AsksVerdict(h)
  <2> DEFINE f == Viewer!Done1(h)
             carriers == Stored[Viewer!WorkflowOf(h.node.line)].operations
             e == [f EXCEPT !.node.carriers = carriers]
  <2>1. h' = e
    BY <1>3 DEF Viewer!ReadOperations, Viewer!Becomes, AsksVerdict
  <2>2. IsHandler(f) /\ f.at = "read" /\ f.q = h.q /\ f.node = h.node /\ f.todo = Tail(h.todo)
    BY <1>1, DoneFacts
  <2> HIDE DEF f, carriers
  <2>3. /\ e.at = "read" /\ e.q = h.q /\ e.todo = Tail(h.todo)
        /\ e.node = [h.node EXCEPT !.carriers = carriers]
        /\ e = [x \in HandlerFields |-> e[x]]
    BY <2>2 DEF IsHandler, HandlerFields
  <2> HIDE DEF e
  <2>4. /\ e.node.line = h.node.line /\ e.node.state = h.node.state
        /\ e.node = [x \in NodeFields |-> e.node[x]]
    BY <1>1, <2>3 DEF IsHandler, NodeFields
  <2>5. IsHandler(e)
    BY <2>3, <2>4 DEF IsHandler
  <2>6. /\ AtNode(h, wf, blockedThen)
        /\ Tail(h.todo) = <<Viewer!Read("checkpoints", h.node.line)>>
    BY <1>1, <1>3, DescentHead
  <2>7. AtNode(e, wf, blockedThen)
    BY <2>3, <2>4, <2>6, SameNode
  <2>8. Descends(e, wf, blockedThen)
    BY <2>3, <2>4, <2>6, <2>7 DEF Descends
  <2> QED
    BY <1>1, <1>3, <2>1, <2>3, <2>5, <2>8, DescentGoesOn
<1> QED
  BY <1>2, <1>3

LEMMA VerdictFacts ==
    ASSUME NEW d, IsHandler(d), NEW verdict, NEW carriers
    PROVE  LET e == Viewer!Verdict(d, verdict, carriers)
           IN  /\ IsHandler(e) /\ e.at = "respond" /\ e.q = d.q
               /\ e.answer.verdict = verdict /\ e.answer.line = d.node.line
<1> DEFINE c == Viewer!Concluded(d, 200)
           answer == [verdict |-> verdict, line |-> d.node.line, carriers |-> carriers]
           e == [c EXCEPT !.answer = answer]
<1>1. IsHandler(c) /\ c.at = "respond" /\ c.q = d.q
  BY ConcludedFacts
<1>2. answer.verdict = verdict /\ answer.line = d.node.line
  OBVIOUS
<1>3. e = Viewer!Verdict(d, verdict, carriers)
  BY DEF Viewer!Verdict
<1> HIDE DEF c, answer
<1>4. IsHandler(e) /\ e.at = "respond" /\ e.q = d.q /\ e.answer = answer
  BY <1>1 DEF IsHandler, HandlerFields
<1> QED
  BY <1>2, <1>3, <1>4

(* A verdict on the node that was read. *)
LEMMA VerdictIsGood ==
    ASSUME Good(h), AsksVerdict(h), h.at = "read", AtNode(h, wf, blockedThen),
           NEW verdict, NEW carriers,
           verdict = "terminal" => h.node.state \in Viewer!Terminal,
           verdict = "blocked_resolution" <=> h.node.state = "blocked",
           \/ verdict \in {"blocked_resolution", "running_under_lease"}
           \/ h.node.state \in Viewer!Terminal
           \/ Concerned(h.q.key, blockedThen) = {}
    PROVE  Good(Viewer!Verdict(h, verdict, carriers))
<1> DEFINE e == Viewer!Verdict(h, verdict, carriers)
           k == h.q.key  line == h.node.line  state == h.node.state
<1>1. /\ IsHandler(e) /\ e.at = "respond" /\ e.q = h.q
      /\ e.answer.verdict = verdict /\ e.answer.line = line
  BY VerdictFacts DEF Good, HandlerInv
<1> HIDE DEF e
<1>2. /\ Leads(k, line) /\ AllBelow(k, blockedThen, line) /\ Lasts(wf, Tip(line), state)
      /\ \A b \in Concerned(k, blockedThen) :
            IF Tip(line) = b THEN state = "blocked" ELSE state \in {"forward", "reversing"}
  BY DEF AtNode, Reached
<1>3. ASSUME NEW b \in Concerned(k, blockedThen)
      PROVE  IF Tip(line) = b THEN verdict = "blocked_resolution" ELSE verdict = "running_under_lease"
  <2>1. IF Tip(line) = b THEN state = "blocked" ELSE state \in {"forward", "reversing"}
    BY <1>2
  <2> QED
    BY <2>1 DEF Viewer!Terminal
<1>4. verdict = "terminal" /\ Tip(line) \in Roots => wf[Tip(line)].state \in Ended
  <2>1. state \in States
    BY <1>2 DEF Lasts
  <2>2. state \in Viewer!Terminal => state \in Ended
    BY <2>1 DEF States, Viewer!Terminal, Ended
  <2> QED
    BY <1>2, <2>2 DEF Lasts
<1>5. verdict = "blocked_resolution" => wf[Tip(line)].state = "blocked"
  BY <1>2 DEF Lasts
<1>6. VerdictHolds(e, wf, blockedThen)
  BY <1>1, <1>2, <1>3, <1>4, <1>5 DEF VerdictHolds
<1>7. Good(e)
  BY <1>1, <1>6 DEF Good, HandlerInv, Walks, AsksVerdict
<1> QED
  BY <1>7 DEF e

LEMMA ReadCheckpointsIsGood ==
    ASSUME Good(h), Viewer!ReadCheckpoints
    PROVE  Good(h')
<1>1. h.at = "read" /\ h.todo # <<>> /\ Head(h.todo).what = "checkpoints" /\ IsHandler(h)
  BY DEF Viewer!ReadCheckpoints, Viewer!Reading, Viewer!Next1, Good, HandlerInv
<1>2. CASE ~ AsksVerdict(h)
  <2>1. h' = Viewer!Done1(h)
    BY <1>2 DEF Viewer!ReadCheckpoints, Viewer!Becomes, AsksVerdict
  <2> QED
    BY <1>1, <1>2, <2>1, PassesOver
<1>3. CASE AsksVerdict(h)
  <2> DEFINE carriers == h.node.carriers \cup Stored[Viewer!WorkflowOf(h.node.line)].checkpoints
             node == [h.node EXCEPT !.carriers = carriers]
             called == Viewer!Read("called", node.line)
             e == [h EXCEPT !.node = node, !.todo = <<called>>]
             state == h.node.state
  <2>1. node.line = h.node.line /\ node.state = state /\ node = [x \in NodeFields |-> node[x]]
        /\ node.leased = h.node.leased
    BY <1>1 DEF IsHandler, NodeFields
  <2>2. AtNode(h, wf, blockedThen)
    BY <1>1, <1>3, DescentHead
  <2>3. CASE state \in Viewer!Terminal
    <3>1. h' = Viewer!Verdict(h, "terminal", {})
      BY <1>3, <2>1, <2>3 DEF Viewer!ReadCheckpoints, Viewer!Becomes, AsksVerdict
    <3>2. state # "blocked"
      BY <2>3 DEF Viewer!Terminal
    <3> QED
      BY <1>1, <1>3, <2>2, <2>3, <3>1, <3>2, VerdictIsGood
  <2>4. CASE state \notin Viewer!Terminal /\ state = "blocked"
    <3>1. h' = Viewer!Verdict(h, "blocked_resolution", {})
      BY <1>3, <2>1, <2>4 DEF Viewer!ReadCheckpoints, Viewer!Becomes, AsksVerdict
    <3> QED
      BY <1>1, <1>3, <2>2, <2>4, <3>1, VerdictIsGood
  <2>5. CASE state \notin Viewer!Terminal \cup {"blocked"}
    <3>1. h' = Viewer!Verdict(h, "running_under_lease", {}) \/ h' = e
      BY <1>3, <2>1, <2>5 DEF Viewer!ReadCheckpoints, Viewer!Becomes, AsksVerdict
    <3>2. Good(Viewer!Verdict(h, "running_under_lease", {}))
      BY <1>1, <1>3, <2>2, <2>5, VerdictIsGood
    <3>3. Good(e)
      <4> HIDE DEF node
      <4>1. /\ e.at = "read" /\ e.q = h.q /\ e.node = node /\ e.todo = <<called>>
            /\ e = [x \in HandlerFields |-> e[x]]
        BY <1>1 DEF IsHandler, HandlerFields
      <4>2. IsHandler(e)
        BY <2>1, <4>1 DEF IsHandler
      <4>3. GoesBelow(h, wf, blockedThen)
        BY <2>2, <2>5 DEF GoesBelow
      <4> HIDE DEF e
      <4>4. GoesBelow(e, wf, blockedThen)
        BY <2>1, <4>1, <4>3, SameNode
      <4>5. e.todo = <<Viewer!Read("called", e.node.line)>>
        BY <4>1
      <4>6. Descends(e, wf, blockedThen)
        BY <4>4, <4>5 DEF Descends
      <4> QED
        BY <1>1, <1>3, <4>1, <4>2, <4>6, DescentGoesOn
    <3> QED
      BY <3>1, <3>2, <3>3
  <2> QED
    BY <2>3, <2>4, <2>5
<1> QED
  BY <1>2, <1>3

(* On the way to something blocked, there is one call to follow. *)
LEMMA OneWayDown ==
    ASSUME CInv, NEW b \in Workflows, wf[b].state = "blocked",
           NEW p \in Calls, Callee[p[1]][p[2]] \in Line[b]
    PROVE  /\ wf[Callee[p[1]][p[2]]].state \in Open
           /\ WaitsAt(p[1], p[2])
           /\ op[p[1]][p[2]] # "none"
           /\ \A q \in Calls : q[1] = p[1] /\ wf[Callee[q[1]][q[2]]].state \in Open => q = p
<1>1. p[1] \in Workflows /\ p[2] \in Steps /\ p = <<p[1], p[2]>>
  BY CallFacts
<1>2. wf[Callee[p[1]][p[2]]].state \in Open
  BY OpenLine DEF Open
<1>3. WaitsAt(p[1], p[2])
  BY <1>2, OpenChild
<1>4. op[p[1]][p[2]] # "none"
  BY <1>1, <1>3, TopIsDone DEF WaitsAt, CInv
<1>5. ASSUME NEW q \in Calls, q[1] = p[1], wf[Callee[q[1]][q[2]]].state \in Open
      PROVE  q = p
  <2>1. WaitsAt(q[1], q[2]) /\ q[2] \in Steps /\ q = <<q[1], q[2]>>
    BY <1>5, OpenChild, CallFacts
  <2>2. q[2] = p[2]
    BY <1>1, <1>3, <1>5, <2>1, OneWait
  <2> QED
    BY <1>1, <1>5, <2>1, <2>2
<1> QED
  BY <1>2, <1>3, <1>4, <1>5

LEMMA CallsToFollow ==
    ASSUME CInv, NEW b \in Workflows, wf[b].state = "blocked", NEW w \in Line[b], w # b
    PROVE  \E c \in CallRows(w) : c.child \in Line[b]
<1>1. PICK p \in Calls : p[1] = w /\ Callee[p[1]][p[2]] \in Line[b]
  BY LineDown
<1>2. op[p[1]][p[2]] # "none"
  BY <1>1, OneWayDown
<1>3. p[2] \in Plan(w) /\ IsCall(w, p[2])
  BY <1>1, CallFacts, StepFacts DEF Plan, Steps
<1>4. [seq |-> p[2], child |-> Callee[w][p[2]]] \in CallRows(w)
  BY <1>1, <1>2, <1>3 DEF CallRows
<1>5. [seq |-> p[2], child |-> Callee[w][p[2]]].child \in Line[b]
  BY <1>1
<1> QED
  BY <1>4, <1>5

LEMMA LeftOf ==
    ASSUME NEW line, NEW left
    PROVE  /\ Left(Viewer!ToVisit(line, left)) = left
           /\ left # {} => /\ Viewer!ToVisit(line, left) # <<>>
                           /\ Head(Viewer!ToVisit(line, left)).line = line
                           /\ Head(Viewer!ToVisit(line, left)).what = "children"
<1>1. CASE left = {}
  BY <1>1 DEF Viewer!ToVisit, Left
<1>2. CASE left # {}
  <2> DEFINE task == [what |-> "children", line |-> line, left |-> left]
  <2>1. task.left = left /\ task.line = line /\ task.what = "children"
    OBVIOUS
  <2>2. Viewer!ToVisit(line, left) = <<task>>
    BY <1>2 DEF Viewer!ToVisit
  <2> HIDE DEF task
  <2>3. Head(<<task>>) = task /\ <<task>> # <<>>
    OBVIOUS
  <2> QED
    BY <2>1, <2>2, <2>3 DEF Left
<1> QED
  BY <1>1, <1>2

(* The calls to look at next, when none of them that matters is left out.   *)
LEMMA VisitsGood ==
    ASSUME Good(h), AsksVerdict(h), h.at = "read", GoesBelow(h, wf, blockedThen),
           NEW left, left \subseteq MadeCalls(wf, Tip(h.node.line)),
           \A b \in Concerned(h.q.key, blockedThen) : \E c \in left : c.child \in Line[b]
    PROVE  Good([h EXCEPT !.todo = Viewer!ToVisit(h.node.line, left)])
<1> DEFINE todo == Viewer!ToVisit(h.node.line, left)
           e == [h EXCEPT !.todo = todo]
<1>1. Left(todo) = left
  BY LeftOf
<1>2. IsHandler(e) /\ e.at = "read" /\ e.q = h.q /\ e.node = h.node /\ e.todo = todo
  BY DEF Good, HandlerInv, IsHandler, HandlerFields
<1>3. e.todo = Viewer!ToVisit(e.node.line, left)
  BY <1>2
<1> HIDE DEF todo, e
<1>4. GoesBelow(e, wf, blockedThen)
  BY <1>2, SameNode
<1>5. Descends(e, wf, blockedThen)
  BY <1>1, <1>2, <1>3, <1>4 DEF Descends
<1>6. Good(e)
  BY <1>2, <1>5, DescentGoesOn
<1> QED
  BY <1>6 DEF e, todo

LEMMA ReadCalledIsGood ==
    ASSUME EngineInv, Good(h), Viewer!ReadCalled
    PROVE  Good(h')
<1> DEFINE w == Tip(h.node.line)
<1>1. /\ h.at = "read" /\ h.todo # <<>> /\ Head(h.todo).what = "called" /\ IsHandler(h)
      /\ h' = [h EXCEPT !.todo = Viewer!ToVisit(h.node.line, Stored[w].calls)]
      /\ \A b \in blockedThen : b \in Workflows /\ wf[b].state = "blocked"
  BY DEF Viewer!ReadCalled, Viewer!Reading, Viewer!Next1, Viewer!Becomes, Viewer!WorkflowOf, Tip,
         Good, HandlerInv
<1>2. CASE AsksVerdict(h)
  <2>1. GoesBelow(h, wf, blockedThen)
    BY <1>1, <1>2, DescentHead
  <2>2. w \in Workflows /\ h.node.state # "blocked"
    BY <2>1, LineFacts DEF GoesBelow, AtNode, Reached
  <2>3. ASSUME NEW b \in Concerned(h.q.key, blockedThen)
        PROVE  \E c \in CallRows(w) : c.child \in Line[b]
    <3>1. w \in Line[b] /\ w # b /\ b \in Workflows /\ wf[b].state = "blocked"
      BY <1>1, <2>1, <2>2 DEF GoesBelow, AtNode, AllBelow, Concerned
    <3> QED
      BY <3>1, CallsToFollow DEF EngineInv
  <2>4. CallRows(w) \subseteq MadeCalls(wf, w)
    BY <2>2, CallsRead DEF EngineInv
  <2>5. Stored[w].calls = CallRows(w)
    BY <2>2, StoredFacts
  <2> QED
    BY <1>1, <1>2, <2>1, <2>3, <2>4, <2>5, VisitsGood
<1>3. CASE ~ AsksVerdict(h)
  <2> DEFINE todo == Viewer!ToVisit(h.node.line, Stored[w].calls)
  <2>1. ~ Walks(h)
    BY <1>1, WalkHead DEF WalkTask
  <2>2. h' = [h EXCEPT !.todo = todo]
    BY <1>1
  <2> HIDE DEF todo
  <2> DEFINE e == [h EXCEPT !.todo = todo]
  <2>3. IsHandler(e) /\ e.at = "read" /\ e.q = h.q
    BY <1>1 DEF IsHandler, HandlerFields
  <2>4. h' = e
    BY <2>2
  <2> HIDE DEF e
  <2>5. Good(e)
    BY <1>3, <2>1, <2>3, OthersAreGood
  <2> QED
    BY <2>4, <2>5
<1> QED
  BY <1>2, <1>3

LEMMA AskChildIsGood ==
    ASSUME EngineInv, Good(h), Viewer!AskChild
    PROVE  Good(h')
<1> DEFINE k == h.q.key  above == h.node.line  w == Tip(above)  left == Left(h.todo)
<1>1. /\ h.at = "read" /\ h.todo # <<>> /\ Head(h.todo).what = "children" /\ IsHandler(h)
      /\ AsksVerdict(h)
      /\ \A b \in blockedThen : b \in Workflows /\ wf[b].state = "blocked"
  BY DEF Viewer!AskChild, Viewer!Reading, Viewer!Next1, Good, HandlerInv, AsksVerdict
<1>2. /\ GoesBelow(h, wf, blockedThen) /\ h.todo = Viewer!ToVisit(above, left)
      /\ left \subseteq MadeCalls(wf, w)
      /\ \A b \in Concerned(k, blockedThen) : \E c \in left : c.child \in Line[b]
  BY <1>1, DescentHead
<1>3. left # {} => Head(h.todo).line = above
  BY <1>2, LeftOf
<1>4. Head(h.todo).left = left
  BY <1>1 DEF Left
<1>5. PICK call \in left :
         h' = [h EXCEPT !.todo =
                  IF /\ Stored[call.child].state \notin Viewer!Terminal \cup {"absent"}
                     /\ ~ Viewer!IsCircle(Append(above, Viewer!Lower(call.child)))
                  THEN <<Viewer!Read("row", Append(above, Viewer!Lower(call.child)))>>
                  ELSE Viewer!ToVisit(above, left \ {call})]
  BY <1>3, <1>4 DEF Viewer!AskChild, Viewer!Earliest, Viewer!Next1, Viewer!Becomes
<1> HIDE DEF left
<1>6. Reached(wf, k, above) /\ AllBelow(k, blockedThen, above)
  BY <1>2 DEF GoesBelow, AtNode
<1>7. PICK p \in Calls : p[1] = w /\ Callee[p[1]][p[2]] = call.child
  BY <1>2, <1>5 DEF MadeCalls
<1> DEFINE child == call.child  line == Append(above, Viewer!Lower(child))
<1>8. child \in Workflows /\ Stored[child].state = wf[child].state
  BY <1>7, CallFacts, StoredFacts
<1>9. ~ Viewer!IsCircle(line)
  BY <1>6, <1>7, NoCircleComes DEF EngineInv
<1>10. Leads(k, line) /\ Tip(line) = child
  BY <1>6, <1>7, LineGoesOn DEF Reached
<1>11. ASSUME NEW b \in Concerned(k, blockedThen)
       PROVE  /\ b \in Workflows /\ wf[b].state = "blocked"
              /\ \E c \in left : c.child \in Line[b]
  BY <1>1, <1>2, <1>11 DEF Concerned
<1>12. CASE wf[child].state \in Open
  <2> DEFINE e == [h EXCEPT !.todo = <<Viewer!Read("row", line)>>]
  <2>1. h' = e
    BY <1>5, <1>8, <1>9, <1>12 DEF Open, Viewer!Terminal
  <2>2. ASSUME NEW b \in Concerned(k, blockedThen)
        PROVE  child \in Line[b]
    <3>1. PICK c \in left : c.child \in Line[b]
      BY <1>11
    <3>2. PICK q \in Calls : q[1] = w /\ Callee[q[1]][q[2]] = c.child
      BY <1>2, <3>1 DEF MadeCalls
    <3>3. p = q
      BY <1>7, <1>11, <1>12, <3>1, <3>2, OneWayDown DEF EngineInv
    <3> QED
      BY <1>7, <3>1, <3>2, <3>3
  <2>3. AllBelow(k, blockedThen, line)
    BY <1>10, <2>2 DEF AllBelow
  <2>4. IsHandler(e) /\ e.at = "read" /\ e.q = h.q /\ e.todo = <<Viewer!Read("row", line)>>
    BY <1>1 DEF IsHandler, HandlerFields
  <2> HIDE DEF e, line
  <2>5. Viewer!Read("row", line).line = line
    BY DEF Viewer!Read
  <2>6. Head(e.todo).line = line
    BY <2>4, <2>5
  <2>7. Descends(e, wf, blockedThen)
    BY <1>10, <2>3, <2>4, <2>6 DEF Descends
  <2> QED
    BY <1>1, <2>1, <2>4, <2>7, DescentGoesOn
<1>13. CASE wf[child].state \notin Open
  <2>1. wf[child].state \in States
    BY <1>8 DEF EngineInv, CInv, IInv, TypeOK, Row
  <2>2. wf[child].state \in Viewer!Terminal \cup {"absent"}
    BY <1>13, <2>1 DEF Open, States, Viewer!Terminal
  <2>3. h' = [h EXCEPT !.todo = Viewer!ToVisit(above, left \ {call})]
    BY <1>5, <1>8, <2>2
  <2>4. ASSUME NEW b \in Concerned(k, blockedThen)
        PROVE  \E c \in left \ {call} : c.child \in Line[b]
    <3>1. PICK c \in left : c.child \in Line[b]
      BY <1>11
    <3>2. child \notin Line[b]
      BY <1>7, <1>11, <1>13, OneWayDown DEF EngineInv
    <3> QED
      BY <3>1, <3>2
  <2> QED
    BY <1>1, <1>2, <2>3, <2>4, VisitsGood
<1> QED
  BY <1>12, <1>13

LEMMA FinishStuckIsGood ==
    ASSUME Good(h), Viewer!FinishStuck
    PROVE  Good(h')
<1>1. h.at = "read" /\ h.todo = <<>> /\ AsksVerdict(h) /\ Descends(h, wf, blockedThen)
  BY DEF Viewer!FinishStuck, AsksVerdict, Good, HandlerInv
<1>2. Left(h.todo) = {}
  BY <1>1 DEF Left
<1>3. GoesBelow(h, wf, blockedThen) /\ Concerned(h.q.key, blockedThen) = {}
  BY <1>1, <1>2 DEF Descends
<1>4. ASSUME NEW verdict \in {"redispatch_pending", "reconcile_pending", "claimable_now",
                              "scheduled_retry"}, NEW carriers
      PROVE  Good(Viewer!Verdict(h, verdict, carriers))
  BY <1>1, <1>3, VerdictIsGood DEF GoesBelow
<1>5. \E verdict \in {"redispatch_pending", "reconcile_pending", "claimable_now", "scheduled_retry"} :
         \E carriers : h' = Viewer!Verdict(h, verdict, carriers)
  <2>1. CASE Viewer!On("redispatch") # {}
    BY <2>1 DEF Viewer!FinishStuck, Viewer!Becomes
  <2>2. CASE Viewer!On("redispatch") = {} /\ Viewer!On("reconcile") # {}
    BY <2>2 DEF Viewer!FinishStuck, Viewer!Becomes
  <2>3. CASE Viewer!On("redispatch") = {} /\ Viewer!On("reconcile") = {}
    BY <2>3 DEF Viewer!FinishStuck, Viewer!Becomes
  <2> QED
    BY <2>1, <2>2, <2>3
<1> QED
  BY <1>4, <1>5

(* The row of a node that a descent has come to. *)
LEMMA ReadNodeIsGood ==
    ASSUME EngineInv, Good(h), Viewer!ReadRow, AsksVerdict(h)
    PROVE  Good(h')
<1> DEFINE line == Head(h.todo).line  w == Tip(line)  k == h.q.key  row == Stored[w]
           node == [line |-> line, state |-> row.state, leased |-> row.leased,
                    lapsed |-> row.lapsed, due |-> row.due, carriers |-> {}]
           reads == Viewer!NodeReads("stuck", line)
           e == [[h EXCEPT !.todo = reads \o Tail(h.todo)] EXCEPT !.node = node]
<1>1. /\ h.at = "read" /\ h.todo # <<>> /\ Head(h.todo).what = "row" /\ IsHandler(h)
      /\ h.q.view = "stuck"
      /\ \A b \in blockedThen : b \in Workflows /\ wf[b].state = "blocked"
  BY DEF Viewer!ReadRow, Viewer!Reading, Viewer!Next1, Good, HandlerInv, AsksVerdict
<1>2. Tail(h.todo) = <<>> /\ Leads(k, line) /\ AllBelow(k, blockedThen, line)
  BY <1>1, DescentHead
<1>3. w \in Workflows
  BY <1>2, LineFacts
<1>4. row.state = wf[w].state
  BY <1>3, StoredFacts
<1>5. CASE row.state = "absent"
  <2>1. h' = Viewer!Failed(h, 404)
    BY <1>5 DEF Viewer!ReadRow, Viewer!Becomes, Viewer!Next1, Viewer!WorkflowOf, Tip
  <2> QED
    BY <1>1, <2>1, ErrorsAreGood
<1>6. CASE row.state # "absent"
  <2>1. h' = e
    BY <1>1, <1>6 DEF Viewer!ReadRow, Viewer!Becomes, Viewer!Next1, Viewer!WorkflowOf, Tip
  <2>2. node.line = line /\ node.state = wf[w].state /\ node = [x \in NodeFields |-> node[x]]
    BY <1>4 DEF NodeFields
  <2> HIDE DEF node, reads
  <2>3. /\ e.at = "read" /\ e.q = h.q /\ e.node = node /\ e.todo = reads \o Tail(h.todo)
        /\ e = [x \in HandlerFields |-> e[x]]
    BY <1>1 DEF IsHandler, HandlerFields
  <2>4. IsHandler(e)
    BY <2>2, <2>3 DEF IsHandler
  <2> HIDE DEF e
  <2>5. wf[w].state \in States \ {"absent"}
    BY <1>3, <1>4, <1>6 DEF EngineInv, CInv, IInv, TypeOK, Row
  <2>6. ASSUME NEW b \in Concerned(k, blockedThen)
        PROVE  IF w = b THEN wf[w].state = "blocked" ELSE wf[w].state \in {"forward", "reversing"}
    <3>1. b \in Workflows /\ wf[b].state = "blocked" /\ w \in Line[b]
      BY <1>1, <1>2, <2>6 DEF Concerned, AllBelow
    <3> QED
      BY <3>1, OpenLine DEF EngineInv, Open
  <2>7. AtNode(e, wf, blockedThen)
    BY <1>2, <1>3, <2>2, <2>3, <2>5, <2>6 DEF AtNode, Reached, Exists, Lasts
  <2> DEFINE clock == Viewer!Read("clock", line)
             operations == Viewer!Read("operations", line)
             checkpoints == Viewer!Read("checkpoints", line)
  <2>8. reads \in {<<clock, operations, checkpoints>>, <<operations, checkpoints>>}
    BY DEF Viewer!NodeReads, reads
  <2> HIDE DEF clock, operations, checkpoints
  <2>9. e.todo = reads
    <3>1. reads \in Seq({clock, operations, checkpoints})
      <4>1. CASE reads = <<clock, operations, checkpoints>>
        BY <4>1
      <4>2. CASE reads = <<operations, checkpoints>>
        BY <4>2
      <4> QED
        BY <2>8, <4>1, <4>2
    <3>2. e.todo = reads \o <<>>
      BY <1>2, <2>3
    <3> QED
      BY <3>1, <3>2, ConcatEmptySeq
  <2>10. e.todo \in {<<clock, operations, checkpoints>>, <<operations, checkpoints>>}
    BY <2>8, <2>9
  <2>11. Descends(e, wf, blockedThen)
    BY <2>2, <2>3, <2>7, <2>10 DEF Descends, clock, operations, checkpoints
  <2> QED
    BY <1>1, <2>1, <2>3, <2>4, <2>11, DescentGoesOn
<1> QED
  BY <1>5, <1>6

-----------------------------------------------------------------------------
(* Walks *)

LEMMA NodeReadsFacts ==
    ASSUME NEW view \in {"inspect", "tree", "timeline"}, NEW k, NEW line, Reached(wf, k, line)
    PROVE  Viewer!NodeReads(view, line) \in WalkTasks(wf, k, view)
<1> DEFINE T == WalkTask(wf, k)
           task(what) == Viewer!Read(what, line)
           names == <<"plan", "args", "operations", "calls", "checkpoints", "events">>
<1>1. line \in Seq(Entry)
  BY DEF Reached, Leads
<1>2. ASSUME NEW what \in {"plan", "args", "operations", "calls", "checkpoints", "events"}
      PROVE  task(what) \in T /\ task(what).what = what
  BY <1>1, <1>2 DEF WalkTask, Viewer!Read
<1> HIDE DEF task
<1>3. CASE view = "inspect"
  <2> DEFINE todo == [i \in 1 .. 6 |-> task(names[i])]
  <2>1. Viewer!NodeReads(view, line) = todo
    BY <1>3 DEF Viewer!NodeReads, task
  <2>2. \A i \in 1 .. 6 :
           /\ names[i] \in {"plan", "args", "operations", "calls", "checkpoints", "events"}
           /\ names[i] = "calls" => i = 4
    OBVIOUS
  <2>3. \A i \in 1 .. 6 : task(names[i]) \in T /\ (task(names[i]).what = "calls" => i = 4)
    BY <1>2, <2>2
  <2> HIDE DEF names, T
  <2>4. todo \in Seq(T) /\ Len(todo) = 6
    <3>1. todo \in [1 .. 6 -> T]
      BY <2>3
    <3> HIDE DEF todo
    <3>2. todo \in Seq(T) /\ DOMAIN todo = 1 .. 6
      BY <3>1, SeqDef
    <3>3. Len(todo) \in Nat /\ DOMAIN todo = 1 .. Len(todo)
      BY <3>2, LenProperties
    <3>4. 6 \in 1 .. Len(todo) /\ Len(todo) \in 0 .. 6
      BY <3>2, <3>3
    <3> QED
      BY <3>2, <3>4
  <2>5. \A i \in 1 .. 6 : todo[i].what = "calls" => i = 4
    BY <2>3
  <2>6. Viewer!AfterCalls(view) = 2
    BY <1>3 DEF Viewer!AfterCalls
  <2> HIDE DEF todo
  <2>7. todo \in WalkTasks(wf, k, view)
    <3>1. \A i \in 1 .. Len(todo) :
             todo[i].what = "calls" => i + Viewer!AfterCalls(view) <= Len(todo)
      BY <2>4, <2>5, <2>6
    <3> QED
      BY <2>4, <3>1 DEF WalkTasks, T
  <2> QED
    BY <2>1, <2>7
<1>4. CASE view # "inspect"
  <2> DEFINE todo == <<task("calls")>>
  <2>1. Viewer!NodeReads(view, line) = todo
    BY <1>4 DEF Viewer!NodeReads, task
  <2>2. todo \in Seq(T) /\ Len(todo) = 1
    BY <1>2
  <2>3. Viewer!AfterCalls(view) = 0
    BY <1>4 DEF Viewer!AfterCalls
  <2> HIDE DEF todo
  <2>4. todo \in WalkTasks(wf, k, view)
    BY <2>2, <2>3 DEF WalkTasks
  <2> QED
    BY <2>1, <2>4
<1> QED
  BY <1>3, <1>4

LEMMA TasksJoin ==
    ASSUME NEW k, NEW view, NEW a \in Seq(WalkTask(wf, k)), NEW b \in WalkTasks(wf, k, view),
           \A i \in 1 .. Len(a) :
               a[i].what = "calls" => i + Viewer!AfterCalls(view) <= Len(a) + Len(b)
    PROVE  a \o b \in WalkTasks(wf, k, view) /\ Len(a \o b) = Len(a) + Len(b)
<1> DEFINE T == WalkTask(wf, k)  n == Viewer!AfterCalls(view)  c == a \o b
<1>1. /\ a \in Seq(T) /\ b \in Seq(T)
      /\ \A i \in 1 .. Len(a) : a[i].what = "calls" => i + n <= Len(a) + Len(b)
      /\ \A i \in 1 .. Len(b) : b[i].what = "calls" => i + n <= Len(b)
  BY DEF WalkTasks
<1>2. n \in Nat /\ Len(a) \in Nat /\ Len(b) \in Nat
  BY <1>1 DEF Viewer!AfterCalls
<1> HIDE DEF T, n
<1>3. /\ c \in Seq(T) /\ Len(c) = Len(a) + Len(b)
      /\ \A i \in 1 .. Len(a) + Len(b) : c[i] = IF i <= Len(a) THEN a[i] ELSE b[i - Len(a)]
  BY <1>1, ConcatProperties
<1> HIDE DEF c
<1>4. ASSUME NEW i \in 1 .. Len(c), c[i].what = "calls"
      PROVE  i + n <= Len(c)
  <2>1. CASE i <= Len(a)
    BY <1>1, <1>2, <1>3, <1>4, <2>1
  <2>2. CASE i > Len(a)
    <3>1. i - Len(a) \in 1 .. Len(b) /\ c[i] = b[i - Len(a)]
      BY <1>2, <1>3, <2>2
    <3>2. (i - Len(a)) + n <= Len(b)
      BY <1>1, <1>4, <3>1
    <3> QED
      BY <1>2, <1>3, <3>1, <3>2
  <2> QED
    BY <1>2, <1>3, <2>1, <2>2
<1>5. c \in WalkTasks(wf, k, view)
  BY <1>3, <1>4 DEF WalkTasks, T, n
<1> QED
  BY <1>3, <1>5 DEF c

LEMMA TasksAdd ==
    ASSUME NEW k, NEW view, NEW a \in WalkTasks(wf, k, view), NEW b \in WalkTasks(wf, k, view)
    PROVE  a \o b \in WalkTasks(wf, k, view) /\ Len(a \o b) = Len(a) + Len(b)
<1> DEFINE n == Viewer!AfterCalls(view)
<1>1. /\ a \in Seq(WalkTask(wf, k)) /\ b \in Seq(WalkTask(wf, k))
      /\ \A i \in 1 .. Len(a) : a[i].what = "calls" => i + n <= Len(a)
  BY DEF WalkTasks
<1>2. n \in Nat /\ Len(a) \in Nat /\ Len(b) \in Nat
  BY <1>1 DEF Viewer!AfterCalls
<1> HIDE DEF n
<1>3. \A i \in 1 .. Len(a) : a[i].what = "calls" => i + n <= Len(a) + Len(b)
  BY <1>1, <1>2
<1> QED
  BY <1>1, <1>3, TasksJoin DEF n

LEMMA VisitsAreTasks ==
    ASSUME NEW k, NEW view, NEW line, Reached(wf, k, line), NEW left, left \subseteq MadeCalls(wf, Tip(line))
    PROVE  Viewer!ToVisit(line, left) \in WalkTasks(wf, k, view)
<1>1. CASE left = {}
  BY <1>1, EmptySeq DEF Viewer!ToVisit, WalkTasks
<1>2. CASE left # {}
  <2> DEFINE task == [what |-> "children", line |-> line, left |-> left]
  <2>1. task.what = "children" /\ task.line = line /\ task.left = left
    OBVIOUS
  <2>2. line \in Seq(Entry) /\ left \in SUBSET Viewer!CallRow
    BY DEF Reached, Leads, MadeCalls
  <2>3. task \in WalkTask(wf, k)
    BY <2>1, <2>2 DEF WalkTask
  <2>4. Viewer!ToVisit(line, left) = <<task>>
    BY <1>2 DEF Viewer!ToVisit
  <2> HIDE DEF task
  <2>5. <<task>> \in Seq(WalkTask(wf, k)) /\ \A i \in 1 .. Len(<<task>>) : <<task>>[i] = task
    BY <2>3
  <2> QED
    BY <2>1, <2>4, <2>5 DEF WalkTasks
<1> QED
  BY <1>1, <1>2

(* The state of the submitted workflow is the story. *)
LEMMA FirstIsTold ==
    ASSUME NEW k \in Entry, wf[k[1]].state \in States \ {"absent"}
    PROVE  /\ Reached(wf, k, <<k>>)
           /\ {[line |-> <<k>>, state |-> wf[k[1]].state]} \subseteq Told(wf, k)
           /\ OneStory(k, {[line |-> <<k>>, state |-> wf[k[1]].state]})
<1> DEFINE line == <<k>>  state == wf[k[1]].state  s == [line |-> line, state |-> state]
<1>1. Leads(k, line) /\ Tip(line) = k[1] /\ k[1] \in Workflows
  BY LineBegins DEF Entry
<1>2. line \in Seq(Entry)
  BY <1>1 DEF Leads
<1> HIDE DEF line
<1>3. Reached(wf, k, line) /\ Lasts(wf, Tip(line), state)
  BY <1>1 DEF Reached, Exists, Lasts
<1>4. s.line = line /\ s.state = state
  OBVIOUS
<1>5. s \in Told(wf, k)
  BY <1>2, <1>3 DEF Told
<1> HIDE DEF s
<1>6. OneStory(k, {s})
  BY DEF OneStory
<1> QED
  BY <1>3, <1>5, <1>6 DEF s, line

LEMMA ReadRowIsGood ==
    ASSUME EngineInv, Good(h), Viewer!ReadRow
    PROVE  Good(h')
<1> DEFINE line == Head(h.todo).line  w == Tip(line)  k == h.q.key  row == Stored[w]
           on == [h EXCEPT !.todo = Viewer!NodeReads(h.q.view, line) \o Tail(h.todo)]
           e == Viewer!Show(on, line, row.state)
<1>1. h.at = "read" /\ h.todo # <<>> /\ Head(h.todo).what = "row" /\ IsHandler(h)
  BY DEF Viewer!ReadRow, Viewer!Reading, Viewer!Next1, Good, HandlerInv
<1>2. CASE row.state = "absent"
  <2>1. h' = Viewer!Failed(h, 404)
    BY <1>2 DEF Viewer!ReadRow, Viewer!Becomes, Viewer!Next1, Viewer!WorkflowOf, Tip
  <2> QED
    BY <1>1, <2>1, ErrorsAreGood
<1>3. CASE row.state # "absent" /\ ~ AsksVerdict(h)
  <2>1. h' = e
    BY <1>3 DEF Viewer!ReadRow, Viewer!Becomes, Viewer!Next1, Viewer!WorkflowOf, Tip, AsksVerdict
  <2>2. IsHandler(on) /\ on.at = "read" /\ on.q = h.q /\ on.shown = h.shown
        /\ on.todo = Viewer!NodeReads(h.q.view, line) \o Tail(h.todo)
    BY <1>1 DEF IsHandler, HandlerFields
  <2> HIDE DEF on
  <2>3. IsHandler(e) /\ e.at = "read" /\ e.q = h.q /\ e.todo = on.todo
        /\ e.shown = h.shown \cup {[line |-> line, state |-> row.state]}
    <3> DEFINE s == [line |-> line, state |-> row.state]
    <3>1. e = [on EXCEPT !.shown = @ \cup {s}]
      BY DEF Viewer!Show
    <3> HIDE DEF s, e
    <3>2. IsHandler(e) /\ e.at = "read" /\ e.q = h.q /\ e.todo = on.todo /\ e.shown = h.shown \cup {s}
      BY <2>2, <3>1 DEF IsHandler, HandlerFields
    <3> QED
      BY <3>2 DEF s
  <2> HIDE DEF e
  <2>4. CASE Walks(h)
    <3>1. Tail(h.todo) \in WalkTasks(wf, k, h.q.view) /\ Head(h.todo) = Viewer!Read("row", <<k>>)
          /\ h.shown = {}
      BY <1>1, <2>4, WalkHead
    <3>2. line = <<k>> /\ w = k[1] /\ k \in Entry /\ k[1] \in Workflows
      <4>1. k \in Entry
        BY <1>1, <2>4 DEF Good, HandlerInv
      <4>2. line = <<k>>
        BY <3>1 DEF Viewer!Read
      <4> QED
        BY <4>1, <4>2, LineBegins DEF Entry
    <3>3. row.state = wf[k[1]].state
      BY <3>2, StoredFacts
    <3>4. wf[k[1]].state \in States \ {"absent"}
      BY <1>3, <3>2, <3>3 DEF EngineInv, CInv, IInv, TypeOK, Row
    <3>5. /\ Reached(wf, k, line)
          /\ e.shown \subseteq Told(wf, k) /\ OneStory(k, e.shown)
      BY <2>3, <3>1, <3>2, <3>3, <3>4, FirstIsTold
    <3>6. Viewer!NodeReads(h.q.view, line) \in WalkTasks(wf, k, h.q.view)
      BY <2>4, <3>5, NodeReadsFacts DEF Walks
    <3>7. e.todo \in WalkTasks(wf, k, h.q.view)
      <4> DEFINE reads == Viewer!NodeReads(h.q.view, line)  others == Tail(h.todo)
      <4>1. e.todo = reads \o others
        BY <2>2, <2>3
      <4>2. reads \in WalkTasks(wf, k, h.q.view) /\ others \in WalkTasks(wf, k, h.q.view)
        BY <3>1, <3>6
      <4> HIDE DEF reads, others
      <4> QED
        BY <4>1, <4>2, TasksAdd
    <3> QED
      BY <1>1, <2>1, <2>3, <2>4, <3>5, <3>7 DEF Good, HandlerInv, Walks, AsksVerdict, WalkGoesWell
  <2>5. CASE ~ Walks(h)
    BY <1>3, <2>1, <2>3, <2>5, OthersAreGood
  <2> QED
    BY <2>4, <2>5
<1> QED
  BY <1>2, <1>3, ReadNodeIsGood

(* The visits come between the two tables that follow the calls and the rest. *)
LEMMA TasksInsert ==
    ASSUME NEW k, NEW view, NEW others \in WalkTasks(wf, k, view), NEW visits \in WalkTasks(wf, k, view),
           Viewer!AfterCalls(view) <= Len(others)
    PROVE  LET n == Viewer!AfterCalls(view)
           IN  SubSeq(others, 1, n) \o visits \o SubSeq(others, n + 1, Len(others))
                   \in WalkTasks(wf, k, view)
<1> DEFINE T == WalkTask(wf, k)  n == Viewer!AfterCalls(view)
           a == SubSeq(others, 1, n)
           b == SubSeq(others, n + 1, Len(others))
<1>1. /\ others \in Seq(T) /\ visits \in Seq(T)
      /\ \A i \in 1 .. Len(others) : others[i].what = "calls" => i + n <= Len(others)
  BY DEF WalkTasks
<1>2. n \in Nat /\ Len(others) \in Nat /\ n <= Len(others)
  BY <1>1 DEF Viewer!AfterCalls
<1>3. \A i \in 1 .. Len(others) : others[i] \in T
  BY <1>1, ElementOfSeq
<1>4. a \in Seq(T) /\ Len(a) = n /\ \A i \in 1 .. n : a[i] = others[i]
  <2>0. \A i \in 1 .. n : others[i] \in T
    BY <1>2, <1>3
  <2>1. /\ a \in Seq(T) /\ Len(a) = (IF 1 <= n THEN n - 1 + 1 ELSE 0)
        /\ \A i \in 1 .. n - 1 + 1 : a[i] = others[1 + i - 1]
    <3> HIDE DEF T, n
    <3> QED
      BY <1>2, <2>0, SubSeqProperties
  <2> HIDE DEF T, n, a
  <2> QED
    BY <1>2, <2>1
<1>5. /\ b \in Seq(T) /\ Len(b) = Len(others) - n
      /\ \A i \in 1 .. Len(others) - n : b[i] = others[n + i]
  <2>0. \A i \in n + 1 .. Len(others) : others[i] \in T
    BY <1>2, <1>3
  <2>1. /\ b \in Seq(T)
        /\ Len(b) = (IF n + 1 <= Len(others) THEN Len(others) - (n + 1) + 1 ELSE 0)
        /\ \A i \in 1 .. Len(others) - (n + 1) + 1 : b[i] = others[n + 1 + i - 1]
    <3> HIDE DEF T, n
    <3> QED
      BY <1>2, <2>0, SubSeqProperties
  <2> HIDE DEF T, n, b
  <2> QED
    BY <1>2, <2>1
<1>6. b \in WalkTasks(wf, k, view)
  <2> HIDE DEF a, b, n, T
  <2>1. ASSUME NEW i \in 1 .. Len(b), b[i].what = "calls"
        PROVE  i + n <= Len(b)
    <3>1. n + i \in 1 .. Len(others) /\ b[i] = others[n + i]
      BY <1>2, <1>5
    <3>2. (n + i) + n <= Len(others)
      BY <1>1, <2>1, <3>1
    <3> QED
      BY <1>2, <1>5, <3>2
  <2> QED
    BY <1>5, <2>1 DEF WalkTasks, T, n
<1> DEFINE c == visits \o b
<1>7. c \in WalkTasks(wf, k, view) /\ Len(c) = Len(visits) + Len(b)
  <2> HIDE DEF b, n, T
  <2> QED
    BY <1>6, TasksAdd
<1>8. Len(visits) \in Nat
  BY <1>1
<1>9. a \o c = a \o visits \o b
  <2>1. a \in Seq(T) /\ visits \in Seq(T) /\ b \in Seq(T)
    BY <1>1, <1>4, <1>5
  <2>2. \A x, y, z \in Seq(T) : x \o (y \o z) = x \o y \o z
    BY ConcatAssociative
  <2> HIDE DEF a, b, T, n
  <2> QED
    BY <2>1, <2>2
<1> HIDE DEF c
<1>10. \A i \in 1 .. Len(a) : a[i].what = "calls" => i + n <= Len(a) + Len(c)
  <2> HIDE DEF a, b, n, T
  <2>1. Len(a) = n /\ Len(others) <= Len(a) + Len(c)
    BY <1>2, <1>4, <1>5, <1>7, <1>8
  <2>2. \A i \in 1 .. n : i \in 1 .. Len(others) /\ a[i] = others[i]
    BY <1>2, <1>4
  <2>3. ASSUME NEW i \in 1 .. n, a[i].what = "calls"
        PROVE  i + n <= Len(a) + Len(c)
    <3>1. i + n <= Len(others)
      BY <1>1, <2>2, <2>3
    <3> QED
      BY <1>2, <1>5, <1>7, <1>8, <2>1, <3>1
  <2> QED
    BY <2>1, <2>3
<1>11. a \o c \in WalkTasks(wf, k, view)
  <2>1. a \in Seq(WalkTask(wf, k))
    BY <1>4
  <2> HIDE DEF a
  <2> QED
    BY <1>7, <1>10, <2>1, TasksJoin
<1> QED
  BY <1>9, <1>11

LEMMA ReadCallsIsGood ==
    ASSUME EngineInv, Good(h), Viewer!ReadCalls
    PROVE  Good(h')
<1> DEFINE line == Head(h.todo).line  w == Tip(line)  k == h.q.key  view == h.q.view
           n == Viewer!AfterCalls(view)
           others == Tail(h.todo)
           visits == Viewer!ToVisit(line, Stored[w].calls)
           todo == SubSeq(others, 1, n) \o visits \o SubSeq(others, n + 1, Len(others))
           e == [h EXCEPT !.todo = todo]
<1>1. h.at = "read" /\ h.todo # <<>> /\ Head(h.todo).what = "calls" /\ IsHandler(h)
  BY DEF Viewer!ReadCalls, Viewer!Reading, Viewer!Next1, Good, HandlerInv
<1>2. h' = e
  BY DEF Viewer!ReadCalls, Viewer!Becomes, Viewer!Next1, Viewer!WorkflowOf, Tip
<1>3. ~ AsksVerdict(h)
  BY <1>1, DescentHead
<1> HIDE DEF todo
<1>4. IsHandler(e) /\ e.at = "read" /\ e.q = h.q /\ e.todo = todo /\ e.shown = h.shown
  BY <1>1 DEF IsHandler, HandlerFields
<1> HIDE DEF e
<1>5. CASE Walks(h)
  <2>1. /\ others \in WalkTasks(wf, k, view) /\ h.todo \in WalkTasks(wf, k, view)
        /\ Head(h.todo) \in WalkTask(wf, k)
    BY <1>1, <1>5, WalkHead
  <2>2. Reached(wf, k, line)
    BY <1>1, <2>1 DEF WalkTask
  <2>3. w \in Workflows
    BY <2>2 DEF Reached, Exists
  <2>4. Stored[w].calls \subseteq MadeCalls(wf, w)
    BY <2>3, StoredFacts, CallsRead DEF EngineInv
  <2>5. visits \in WalkTasks(wf, k, view)
    BY <2>2, <2>4, VisitsAreTasks
  <2>6. n <= Len(others)
    <3>1. h.todo \in Seq(WalkTask(wf, k))
      BY <2>1 DEF WalkTasks
    <3>2. /\ Len(h.todo) \in Nat \ {0} /\ Head(h.todo) = h.todo[1] /\ Len(others) = Len(h.todo) - 1
          /\ n \in Nat
      BY <1>1, <3>1, HeadTailProperties, EmptySeq DEF Viewer!AfterCalls
    <3> HIDE DEF others, n
    <3>3. 1 + n <= Len(h.todo)
      BY <1>1, <2>1, <3>2 DEF WalkTasks, n
    <3> QED
      BY <3>2, <3>3
  <2>7. todo \in WalkTasks(wf, k, view)
    <3> HIDE DEF others, visits
    <3> QED
      BY <2>1, <2>5, <2>6, TasksInsert DEF todo
  <2> QED
    BY <1>1, <1>2, <1>4, <1>5, <2>7, WalkGoesOn
<1>6. CASE ~ Walks(h)
  BY <1>2, <1>3, <1>4, <1>6, OthersAreGood
<1> QED
  BY <1>5, <1>6

(* A walk that goes on with a child shown. *)
LEMMA ShowsGood ==
    ASSUME Good(h), h.at = "read", ~ AsksVerdict(h), NEW todo, NEW line, NEW state,
           Walks(h) =>
               LET s == [line |-> line, state |-> state]
               IN  /\ todo \in WalkTasks(wf, h.q.key, h.q.view)
                   /\ s \in Told(wf, h.q.key)
                   /\ OneStory(h.q.key, h.shown \cup {s})
    PROVE  Good(Viewer!Show([h EXCEPT !.todo = todo], line, state))
<1> DEFINE s == [line |-> line, state |-> state]
           e == Viewer!Show([h EXCEPT !.todo = todo], line, state)
<1>1. IsHandler(h) /\ (Walks(h) => h.shown \subseteq Told(wf, h.q.key))
  BY DEF Good, HandlerInv, WalkGoesWell
<1>2. /\ IsHandler(e) /\ e.at = h.at /\ e.q = h.q /\ e.todo = todo
      /\ e.shown = h.shown \cup {s}
  <2> DEFINE f == [h EXCEPT !.todo = todo]
  <2>1. IsHandler(f) /\ f.at = h.at /\ f.q = h.q /\ f.todo = todo /\ f.shown = h.shown
    BY <1>1 DEF IsHandler, HandlerFields
  <2>2. e = [f EXCEPT !.shown = @ \cup {s}]
    BY DEF Viewer!Show
  <2> HIDE DEF e, f, s
  <2> QED
    BY <2>1, <2>2 DEF IsHandler, HandlerFields
<1>3. Walks(h) =>
          /\ todo \in WalkTasks(wf, h.q.key, h.q.view)
          /\ s \in Told(wf, h.q.key)
          /\ OneStory(h.q.key, h.shown \cup {s})
  OBVIOUS
<1> HIDE DEF s, e
<1>4. CASE Walks(h)
  <2>1. WalkGoesWell(e, wf)
    BY <1>1, <1>2, <1>3, <1>4 DEF WalkGoesWell
  <2>2. Good(e)
    BY <1>2, <1>4, <2>1 DEF Good, HandlerInv, Walks, AsksVerdict
  <2> QED
    BY <2>2 DEF e
<1>5. CASE ~ Walks(h)
  <2>1. Good(e)
    BY <1>2, <1>5, OthersAreGood
  <2> QED
    BY <2>1 DEF e
<1> QED
  BY <1>4, <1>5

(* A child does not contradict the submitted workflow. *)
LEMMA ChildTellsTheSame ==
    ASSUME CInv, NEW k, NEW shown, shown \subseteq Told(wf, k), OneStory(k, shown),
           NEW p \in Calls, NEW s \in Told(wf, k), Tip(s.line) = Callee[p[1]][p[2]],
           s.state # "truncated" => s.state = wf[Tip(s.line)].state
    PROVE  OneStory(k, shown \cup {s})
<1> DEFINE child == Tip(s.line)
<1>1. Reached(wf, k, s.line) /\ child \in Workflows /\ wf[child].state # "absent" /\ k[1] \in Line[child]
  BY LineFacts DEF Told, Reached, Exists
<1>2. k[1] \in Roots => child # k[1]
  BY RootIsNotCalled
<1>3. ASSUME NEW r \in shown, k[1] \in Roots, Tip(r.line) = k[1], s.state # "truncated"
      PROVE  /\ r.state = "completed" => s.state = "completed"
             /\ r.state \in {"reversed", "failed"} => s.state \in {"reversed", "failed"}
  <2>1. r.state # "truncated" => Lasts(wf, k[1], r.state)
    BY <1>3 DEF Told
  <2>2. r.state \in {"completed", "reversed", "failed"} => wf[k[1]].state = r.state
    BY <1>3, <2>1 DEF Lasts, Ended
  <2>3. r.state = "completed" => wf[child].state = "completed"
    BY <1>1, <2>2, BelowCompleted
  <2>4. r.state \in {"reversed", "failed"} => wf[child].state \in Nothing
    BY <1>1, <2>2, BelowNothing DEF Nothing
  <2> QED
    BY <1>1, <1>3, <2>3, <2>4 DEF Nothing
<1> HIDE DEF child
<1>4. Tip(s.line) = child
  BY DEF child
<1> QED
  BY <1>2, <1>3, <1>4 DEF OneStory

LEMMA VisitChildIsGood ==
    ASSUME EngineInv, Good(h), Viewer!VisitChild
    PROVE  Good(h')
<1> DEFINE k == h.q.key  view == h.q.view  above == Head(h.todo).line  w == Tip(above)
           left == Head(h.todo).left  others == Tail(h.todo)
<1>1. /\ h.at = "read" /\ h.todo # <<>> /\ Head(h.todo).what = "children" /\ IsHandler(h)
      /\ ~ AsksVerdict(h)
  BY DEF Viewer!VisitChild, Viewer!Reading, Viewer!Next1, Good, HandlerInv, AsksVerdict
<1>2. PICK call \in left :
         LET line == Append(above, Viewer!Lower(call.child))
             row == Stored[call.child]
             after == Viewer!ToVisit(above, left \ {call}) \o others
             on == [h EXCEPT !.todo = after]
         IN  CASE Viewer!Descend(h, line) # "walked" ->
                      h' = Viewer!Show(on, line, Viewer!Descend(h, line))
               [] Viewer!Descend(h, line) = "walked" /\ row.state = "absent" ->
                      h' = Viewer!Show(on, line, "not_found")
               [] OTHER -> h' = Viewer!Show([on EXCEPT !.todo = Viewer!NodeReads(h.q.view, line) \o @],
                                            line, row.state)
  BY DEF Viewer!VisitChild, Viewer!Earliest, Viewer!Next1, Viewer!Becomes
<1> DEFINE child == call.child  line == Append(above, Viewer!Lower(child))  row == Stored[child]
           visits == Viewer!ToVisit(above, left \ {call})
           after == visits \o others
           reads == Viewer!NodeReads(view, line)
           next == reads \o after
           descends == Viewer!Descend(h, line)
<1>3. \/ /\ descends # "walked"
         /\ h' = Viewer!Show([h EXCEPT !.todo = after], line, descends)
      \/ /\ descends = "walked" /\ row.state = "absent"
         /\ h' = Viewer!Show([h EXCEPT !.todo = after], line, "not_found")
      \/ /\ descends = "walked" /\ row.state # "absent"
         /\ h' = Viewer!Show([h EXCEPT !.todo = next], line, row.state)
  <2>1. [[h EXCEPT !.todo = after] EXCEPT !.todo = reads \o @] = [h EXCEPT !.todo = next]
    <3> HIDE DEF after, reads
    <3> QED
      BY <1>1 DEF IsHandler, HandlerFields
  <2> QED
    BY <1>2, <2>1
<1> HIDE DEF after, next, reads, visits, line, row, descends
<1>4. CASE ~ Walks(h)
  BY <1>1, <1>3, <1>4, ShowsGood
<1>5. CASE Walks(h)
  <2>1. /\ others \in WalkTasks(wf, k, view) /\ Head(h.todo) \in WalkTask(wf, k)
        /\ h.shown \subseteq Told(wf, k) /\ OneStory(k, h.shown)
    BY <1>1, <1>5, WalkHead DEF Good, HandlerInv, WalkGoesWell
  <2>2. Reached(wf, k, above) /\ left \subseteq MadeCalls(wf, w)
    BY <1>1, <2>1 DEF WalkTask
  <2>3. PICK p \in Calls : p[1] = w /\ Callee[p[1]][p[2]] = child
    BY <2>2, <1>2 DEF MadeCalls
  <2>4. Exists(wf, child)
    BY <2>2, <1>2 DEF MadeCalls
  <2>5. Leads(k, line) /\ Tip(line) = child
    BY <2>2, <2>3, LineGoesOn DEF Reached, line
  <2>6. ~ Viewer!IsCircle(line)
    BY <2>2, <2>3, NoCircleComes DEF EngineInv, line
  <2>7. descends \in {"truncated", "walked"}
    BY <2>6 DEF Viewer!Descend, descends
  <2>8. Reached(wf, k, line) /\ line \in Seq(Entry)
    BY <2>4, <2>5 DEF Reached, Leads
  <2>9. row.state = wf[child].state /\ wf[child].state \in States \ {"absent"}
    BY <2>4, StoredFacts DEF EngineInv, CInv, IInv, TypeOK, Row, Exists, row
  <2>10. after \in WalkTasks(wf, k, view)
    <3>1. visits \in WalkTasks(wf, k, view)
      BY <2>2, VisitsAreTasks DEF visits
    <3> QED
      BY <2>1, <3>1, TasksAdd DEF after
  <2>11. next \in WalkTasks(wf, k, view)
    <3>1. reads \in WalkTasks(wf, k, view)
      BY <1>5, <2>8, NodeReadsFacts DEF reads, Walks
    <3> QED
      BY <2>10, <3>1, TasksAdd DEF next
  <2>12. ASSUME NEW state, state = "truncated" \/ state = wf[child].state
         PROVE  LET s == [line |-> line, state |-> state]
                IN  s \in Told(wf, k) /\ OneStory(k, h.shown \cup {s})
    <3> DEFINE s == [line |-> line, state |-> state]
    <3>1. s.line = line /\ s.state = state
      OBVIOUS
    <3>2. s \in [line: Seq(Entry), state: (States \ {"absent"}) \cup {"truncated"}]
      BY <2>8, <2>9, <2>12
    <3> HIDE DEF s
    <3>3. s.state # "truncated" => Lasts(wf, Tip(line), s.state)
      BY <2>4, <2>5, <2>9, <2>12, <3>1 DEF Lasts
    <3>4. s \in Told(wf, k)
      BY <2>8, <3>1, <3>2, <3>3 DEF Told
    <3>5. OneStory(k, h.shown \cup {s})
      BY <2>1, <2>3, <2>5, <2>12, <3>1, <3>4, ChildTellsTheSame DEF EngineInv
    <3> QED
      BY <3>4, <3>5 DEF s
  <2>13. CASE descends # "walked"
    <3>1. descends = "truncated" /\ h' = Viewer!Show([h EXCEPT !.todo = after], line, "truncated")
      BY <1>3, <2>7, <2>13
    <3>2. Good(Viewer!Show([h EXCEPT !.todo = after], line, "truncated"))
      BY <1>1, <2>10, <2>12, ShowsGood
    <3> QED
      BY <3>1, <3>2
  <2>14. CASE descends = "walked"
    <3>1. h' = Viewer!Show([h EXCEPT !.todo = next], line, wf[child].state)
      BY <1>3, <2>9, <2>14
    <3>2. Good(Viewer!Show([h EXCEPT !.todo = next], line, wf[child].state))
      BY <1>1, <2>11, <2>12, ShowsGood
    <3> QED
      BY <3>1, <3>2
  <2> QED
    BY <2>13, <2>14
<1> QED
  BY <1>4, <1>5

-----------------------------------------------------------------------------
(* Requests, the answering of them, and the engine beside it *)

LEMMA HandlesIsGood ==
    ASSUME EngineInv, Good(h), Viewer!Handles
    PROVE  Good(h')
<1>1. CASE Viewer!Refuse \/ Viewer!ServeFile \/ Viewer!Connect \/ Viewer!LoseDatabase \/ Viewer!Respond
  BY <1>1, RefuseIsGood, ServeFileIsGood, ConnectIsGood, LoseDatabaseIsGood, RespondIsGood
<1>2. CASE \/ Viewer!ReadRow \/ Viewer!VisitChild \/ Viewer!ReadDetail \/ Viewer!ReadOperations
           \/ Viewer!ReadCalls \/ Viewer!ReadMergedEvents \/ Viewer!FinishWalk
  BY <1>2, ReadRowIsGood, VisitChildIsGood, ReadDetailIsGood, ReadOperationsIsGood, ReadCallsIsGood,
     ReadMergedEventsIsGood, FinishWalkIsGood
<1>3. CASE \/ Viewer!ReadSummaries \/ Viewer!ReadClock \/ Viewer!ReadCheckpoints \/ Viewer!ReadCalled
           \/ Viewer!AskChild \/ Viewer!FinishStuck
  BY <1>3, ReadSummariesIsGood, ReadClockIsGood, ReadCheckpointsIsGood, ReadCalledIsGood,
     AskChildIsGood, FinishStuckIsGood
<1> QED
  BY <1>1, <1>2, <1>3 DEF Viewer!Handles, Viewer!Reads

LEMMA RequestFacts ==
    ASSUME NEW q \in Viewer!Requests, q.view \in {"inspect", "tree", "timeline", "stuck"}
    PROVE  q.key \in Entry
<1>1. \A v : Viewer!ForView(v).view = v /\ \A k, d : Viewer!ForWorkflow(v, k, d).key = k
  BY DEF Viewer!ForView, Viewer!ForWorkflow, Viewer!ARequest
<1>2. \A f : Viewer!ForSearch(f).view = "search" /\ Viewer!ForFile(f).view = "static"
  BY DEF Viewer!ForView, Viewer!ForSearch, Viewer!ForFile, Viewer!ARequest
<1>3. \/ \E v, d : \E w \in Workflows : q = Viewer!ForWorkflow(v, Viewer!Key(w, "lower"), d)
      \/ \E f : q = Viewer!ForSearch(f) \/ q = Viewer!ForFile(f)
      \/ \E v \in {"health", "unknown", "mutate"} : q = Viewer!ForView(v)
  BY DEF Viewer!Requests
<1>4. \A w \in Workflows : Viewer!Key(w, "lower") \in Entry
  BY DEF Viewer!Key, Entry
<1> QED
  BY <1>1, <1>2, <1>3, <1>4

LEMMA WaitingFacts ==
    /\ IsHandler(Viewer!Waiting) /\ Viewer!Waiting.at = "waiting"
    /\ \A q : /\ IsHandler(Viewer!Asked(q)) /\ Viewer!Asked(q).at = "asked"
              /\ Viewer!Asked(q).q = q /\ Viewer!Asked(q).shown = {}
<1> DEFINE e == Viewer!Waiting
<1>1. /\ e = [x \in HandlerFields |-> e[x]] /\ e.node = Viewer!NoNode
      /\ e.at = "waiting" /\ e.shown = {}
  BY DEF Viewer!Waiting, HandlerFields
<1>2. Viewer!NoNode = [x \in NodeFields |-> Viewer!NoNode[x]]
  BY DEF Viewer!NoNode, NodeFields
<1>3. IsHandler(e)
  BY <1>1, <1>2 DEF IsHandler
<1>4. \A q : Viewer!Asked(q) = [e EXCEPT !.at = "asked", !.q = q]
  BY DEF Viewer!Asked
<1> HIDE DEF e
<1>5. \A q : LET a == [e EXCEPT !.at = "asked", !.q = q]
             IN  IsHandler(a) /\ a.at = "asked" /\ a.q = q /\ a.shown = {}
  BY <1>1, <1>3 DEF IsHandler, HandlerFields
<1> QED
  BY <1>1, <1>3, <1>4, <1>5 DEF e

LEMMA AskIsGood ==
    ASSUME NEW q \in Viewer!Requests, Ask(q)
    PROVE  HandlerInv(h', wf, blockedThen')
<1>1. h' = Viewer!Asked(q) /\ blockedThen' = {w \in Workflows : wf[w].state = "blocked"}
  BY DEF Ask
<1>2. IsHandler(h') /\ h'.at = "asked" /\ h'.q = q /\ h'.shown = {}
  BY <1>1, WaitingFacts
<1>3. Walks(h') \/ AsksVerdict(h') => q.key \in Entry
  BY <1>2, RequestFacts DEF Walks, AsksVerdict
<1> QED
  BY <1>1, <1>2, <1>3 DEF HandlerInv

LEMMA VizInitInv == VizInit => VInv
<1> SUFFICES ASSUME VizInit PROVE VInv
  OBVIOUS
<1>1. EngineInv
  BY EngineInit DEF VizInit
<1>2. HandlerInv(h, wf, blockedThen)
  BY WaitingFacts DEF VizInit, HandlerInv
<1> QED
  BY <1>1, <1>2 DEF VInv

LEMMA VizStepKeeps == VInv /\ [VizNext]_<<everything, viewing>> => VInv'
<1> SUFFICES ASSUME VInv, [VizNext]_<<everything, viewing>>
             PROVE  VInv'
  OBVIOUS
<1>1. EngineInv /\ CInv /\ HandlerInv(h, wf, blockedThen)
  BY DEF VInv, EngineInv
<1>2. CASE [CallNext]_everything /\ UNCHANGED viewing
  <2>1. EngineInv'
    BY <1>1, <1>2, EngineStepKeeps
  <2>2. Later(wf, wf')
    BY <1>1, <1>2, CallStepStores, EngineGoesOn
  <2>3. h' = h /\ blockedThen' = blockedThen
    BY <1>2 DEF viewing
  <2>4. HandlerInv(h, wf', blockedThen)
    BY <1>1, <2>2, HandlerLater
  <2> QED
    BY <2>1, <2>3, <2>4 DEF VInv
<1>3. ASSUME UNCHANGED everything
      PROVE  EngineInv' /\ wf' = wf
  <2>1. EngineInv'
    BY <1>1, <1>3, EngineStepKeeps
  <2>2. wf' = wf
    BY <1>3 DEF everything, engine, vars
  <2> QED
    BY <2>1, <2>2
<1>4. ASSUME NEW q \in Viewer!Requests, Ask(q)
      PROVE  VInv'
  BY <1>3, <1>4, AskIsGood DEF VInv, Ask
<1>5. CASE Answer
  <2>1. EngineInv' /\ wf' = wf /\ blockedThen' = blockedThen
    BY <1>3, <1>5 DEF Answer
  <2>2. HandlerInv(h', wf, blockedThen)
    BY <1>1, <1>5, HandlesIsGood DEF Answer, Good
  <2> QED
    BY <2>1, <2>2 DEF VInv
<1>6. CASE UNCHANGED <<everything, viewing>>
  BY <1>2, <1>6
<1> QED
  BY <1>2, <1>4, <1>5, <1>6 DEF VizNext

(* Every read of the observer is good for what the invariant keeps of it,   *)
(* whatever the engine does between the reads and after them.                *)
THEOREM VizInvariance == VizSpec => []VInv
BY VizInitInv, VizStepKeeps, PTL DEF VizSpec

-----------------------------------------------------------------------------
(* What the answers say *)

LEMMA LineOfFacts ==
    ASSUME NEW k, NEW answer, Leads(k, answer.line)
    PROVE  /\ Len(LineOf(answer)) = Len(answer.line)
           /\ \A i \in 1 .. Len(answer.line) : LineOf(answer)[i] = answer.line[i][1]
           /\ LineOf(answer)[Len(LineOf(answer))] = Tip(answer.line)
<1> DEFINE line == answer.line
<1>1. Len(line) \in Nat \ {0} /\ \A i \in 1 .. Len(line) : line[i] \in Entry
  BY LineFacts
<1>2. \A i \in 1 .. Len(line) : line[i][1] \in Workflows
  BY <1>1 DEF Entry
<1>3. LineOf(answer) = [i \in 1 .. Len(line) |-> line[i][1]]
  BY DEF LineOf
<1> HIDE DEF line
<1>4. LineOf(answer) \in [1 .. Len(line) -> Workflows]
  BY <1>2, <1>3
<1>5. LineOf(answer) \in Seq(Workflows)
  BY <1>1, <1>4, SeqDef
<1>6. DOMAIN LineOf(answer) = 1 .. Len(LineOf(answer)) /\ Len(LineOf(answer)) \in Nat
  BY <1>5, LenProperties
<1>7. Len(LineOf(answer)) = Len(line)
  BY <1>1, <1>4, <1>6
<1>8. Tip(line) = line[Len(line)][1]
  BY DEF Tip
<1> QED
  BY <1>1, <1>3, <1>7, <1>8 DEF line

LEMMA StuckHolds ==
    ASSUME VInv, Stuck
    PROVE  /\ VerdictHolds(h, wf, blockedThen) /\ CInv
           /\ \A b \in blockedThen : b \in Workflows
BY DEF VInv, EngineInv, HandlerInv, Stuck, Viewer!Answered, AsksVerdict

LEMMA VFinds == VInv => BlockIsFound
<1> SUFFICES ASSUME VInv, NEW b \in blockedThen, Stuck, h.q.key[1] \in Line[b]
             PROVE  LET line == LineOf(h.answer)
                    IN  /\ On(line) \subseteq Line[b]
                        /\ IF line[Len(line)] = b THEN Verdict = "blocked_resolution"
                                                  ELSE Verdict = "running_under_lease"
  BY DEF BlockIsFound
<1> DEFINE line == h.answer.line
<1>1. /\ Leads(h.q.key, line) /\ b \in Workflows /\ Tip(line) \in Line[b]
      /\ IF Tip(line) = b THEN Verdict = "blocked_resolution" ELSE Verdict = "running_under_lease"
  BY StuckHolds DEF VerdictHolds, AllBelow, Concerned, Verdict
<1>2. /\ Len(LineOf(h.answer)) = Len(line)
      /\ \A i \in 1 .. Len(line) : LineOf(h.answer)[i] = line[i][1]
      /\ LineOf(h.answer)[Len(LineOf(h.answer))] = Tip(line)
  BY <1>1, LineOfFacts
<1>3. \A i \in 1 .. Len(line) : line[i][1] \in Line[b]
  BY <1>1, LineTrans DEF Leads
<1> HIDE DEF line
<1>4. On(LineOf(h.answer)) \subseteq Line[b]
  BY <1>2, <1>3 DEF On
<1> QED
  BY <1>1, <1>2, <1>4

LEMMA VStays == VInv => VerdictsThatStay
<1> SUFFICES ASSUME VInv, Stuck
             PROVE  VerdictsThatStay
  BY DEF VerdictsThatStay
<1> DEFINE line == h.answer.line
           shown == LineOf(h.answer)
<1>0. Leads(h.q.key, line) /\ CInv
  BY StuckHolds DEF VerdictHolds
<1>1. /\ Leads(h.q.key, line) /\ CInv
      /\ Verdict = "terminal" /\ Tip(line) \in Roots => wf[Tip(line)].state \in Ended
      /\ Verdict = "blocked_resolution" => wf[Tip(line)].state = "blocked"
  BY StuckHolds DEF VerdictHolds, Verdict
<1>2. /\ Len(shown) = Len(line) /\ Len(line) \in Nat \ {0} /\ Tip(line) \in Workflows
      /\ \A i \in 1 .. Len(line) : shown[i] = line[i][1]
      /\ shown[Len(shown)] = Tip(line)
  <2>1. Len(line) \in Nat \ {0} /\ Tip(line) \in Workflows
    BY <1>0, LineFacts
  <2>2. /\ Len(shown) = Len(line) /\ \A i \in 1 .. Len(line) : shown[i] = line[i][1]
        /\ shown[Len(shown)] = Tip(line)
    <3> DEFINE a == h.answer
    <3>1. Leads(h.q.key, a.line)
      BY <1>0
    <3> HIDE DEF a
    <3>2. /\ Len(LineOf(a)) = Len(a.line)
          /\ \A i \in 1 .. Len(a.line) : LineOf(a)[i] = a.line[i][1]
          /\ LineOf(a)[Len(LineOf(a))] = Tip(a.line)
      BY <3>1, LineOfFacts
    <3> QED
      BY <3>2 DEF a
  <2> QED
    BY <2>1, <2>2
<1>3. ASSUME Verdict = "blocked_resolution", NEW i \in 1 .. Len(line) - 1
      PROVE  WaitsAt(line[i][1], CallStep(line[i + 1][1]))
  <2>1. PICK p \in Calls : p[1] = line[i][1] /\ Callee[p[1]][p[2]] = line[i + 1][1]
    BY <1>1 DEF Leads
  <2>2. i + 1 \in 1 .. Len(line)
    BY <1>2
  <2>3. line[i + 1][1] \in Line[Tip(line)]
    BY <1>1, <2>2 DEF Leads
  <2>4. WaitsAt(p[1], p[2])
    BY <1>1, <1>2, <1>3, <2>1, <2>3, OneWayDown
  <2>5. line[i + 1][1] \in Workflows \ Roots
    BY <2>1, CallFacts, RootIsNotCalled
  <2> DEFINE child == line[i + 1][1]  q == CallOf(child)
  <2>6. q \in Calls /\ Callee[q[1]][q[2]] = child
    BY <2>5, ChildHasCaller DEF Caller, CallStep
  <2> HIDE DEF q
  <2>7. q = p
    BY <2>1, <2>6, OneCaller
  <2> QED
    BY <2>1, <2>4, <2>7 DEF CallStep, q
<1> HIDE DEF line, shown
<1>4. \A i \in 1 .. Len(shown) - 1 : shown[i] = line[i][1] /\ shown[i + 1] = line[i + 1][1]
  BY <1>2
<1>5. ASSUME Verdict = "blocked_resolution", NEW i \in 1 .. Len(shown) - 1
      PROVE  WaitsAt(shown[i], CallStep(shown[i + 1]))
  BY <1>2, <1>3, <1>4, <1>5
<1> QED
  BY <1>1, <1>2, <1>5 DEF VerdictsThatStay, shown

LEMMA VTells == VInv => TreeTellsOneOutcome
<1> SUFFICES ASSUME VInv, Viewer!Answered({"inspect", "tree", "timeline"}), h.q.key[1] \in Roots
             PROVE  LET below == (UNION {StateShown(w) : w \in Workflows}) \ {"truncated"}
                        top == StateShown(h.q.key[1])
                    IN  /\ top = {"completed"} => below = {"completed"}
                        /\ top \cap {"reversed", "failed"} # {} => below \subseteq {"reversed", "failed"}
  BY DEF TreeTellsOneOutcome
<1> DEFINE below == (UNION {StateShown(w) : w \in Workflows}) \ {"truncated"}
           top == StateShown(h.q.key[1])
<1>1. OneStory(h.q.key, h.shown)
  BY DEF VInv, HandlerInv, Viewer!Answered, Walks
<1>2. \A state \in top : \E s \in h.shown : Tip(s.line) = h.q.key[1] /\ s.state = state
  BY DEF StateShown, Tip
<1>3. \A state \in below : state # "truncated" /\ \E s \in h.shown : s.state = state
  BY DEF StateShown
<1>4. top \subseteq below \cup {"truncated"}
  BY DEF Roots
<1> HIDE DEF below, top
<1>5. \A a \in top, b \in below :
          /\ a = "completed" => b = "completed"
          /\ a \in {"reversed", "failed"} => b \in {"reversed", "failed"}
  BY <1>1, <1>2, <1>3 DEF OneStory
<1>6. ASSUME top = {"completed"}
      PROVE  below = {"completed"}
  BY <1>4, <1>5, <1>6
<1>7. ASSUME top \cap {"reversed", "failed"} # {}
      PROVE  below \subseteq {"reversed", "failed"}
  BY <1>5, <1>7
<1> QED
  BY <1>6, <1>7 DEF below, top

(* What needs a person is found: a workflow that was blocked before the      *)
(* question was asked is named by the verdict about it or about anything     *)
(* above it, unless somebody holds the lease of one of those above.          *)
THEOREM VizFinds == VizSpec => []BlockIsFound
BY VizInvariance, VFinds, PTL

(* A verdict that nothing will move stays true, however long it is looked    *)
(* at: the submitted workflow has ended for good, or the one named is still  *)
(* blocked and all on the path to it wait for it.                            *)
THEOREM VizStays == VizSpec => []VerdictsThatStay
BY VizInvariance, VStays, PTL

(* An answer read row by row while the engine goes on tells one story: below *)
(* a completed root everything shown completed, below one that reversed or   *)
(* failed nothing shown stands.                                              *)
THEOREM VizTells == VizSpec => []TreeTellsOneOutcome
BY VizInvariance, VTells, PTL
=============================================================================
