--------------------------- MODULE VizRequestProofs ---------------------------
(***************************************************************************)
(* What an answer of the observer shows of rows that stand still, for      *)
(* every database, corrupted ones included, and every request.             *)
(*                                                                         *)
(* A walk owes every wanted line: it has shown it, or a read that is left  *)
(* will come to it.  A descent has followed, from each node it has left,   *)
(* the first call that has not ended, and has every unfinished call of the *)
(* node it is at before it.                                                *)
(***************************************************************************)
EXTENDS VizRequest, SequenceTheorems, TLAPS

Entry == Ids \X {"lower", "upper"}
Kinds == {"row", "plan", "args", "operations", "calls", "checkpoints", "events",
          "merged events", "children", "clock", "summaries", "called"}
Task == [what: Kinds, line: Line, left: SUBSET CallRow]
Shown == [line: Line, state: States \cup {"not_found", "cycle_detected", "truncated"}]

HandlerFields == {"at", "q", "connection", "todo", "node", "shown", "answer", "status"}
NodeFields == {"line", "state", "leased", "lapsed", "due", "carriers"}

Types(d) ==
    /\ d = [x \in HandlerFields |-> d[x]] /\ d.node = [x \in NodeFields |-> d.node[x]]
    /\ d.at \in {"waiting", "asked", "read", "respond", "answered"}
    /\ ConnectionFits(d)
    /\ d.status \in {0, 200, 400, 404, 405, 500, 502}
    /\ d.at # "read" => d.todo = <<>>
    /\ d.node.line \in Line /\ d.node.carriers \subseteq Carrier
    /\ d.shown \subseteq Shown

IsNode(node) ==
    /\ node = [x \in NodeFields |-> node[x]]
    /\ node.line \in Line /\ node.carriers \subseteq Carrier

(* A handler keeps its types as long as each field does. *)
LEMMA TypesKept ==
    ASSUME NEW e, e = [x \in HandlerFields |-> e[x]], IsNode(e.node),
           e.at \in {"waiting", "asked", "read", "respond", "answered"},
           e.connection \in {"none", "open", "closed"},
           e.connection = "open" <=> e.at = "read",
           e.status \in {0, 200, 400, 404, 405, 500, 502},
           e.at # "read" => e.todo = <<>>,
           e.shown \subseteq Shown
    PROVE  Types(e)
<1>1. ConnectionFits(e)
  BY DEF ConnectionFits
<1> QED
  BY <1>1, Zenon DEF Types, IsNode

LEMMA TypesAre ==
    ASSUME NEW d, Types(d)
    PROVE  /\ d = [x \in HandlerFields |-> d[x]] /\ IsNode(d.node)
           /\ d.at \in {"waiting", "asked", "read", "respond", "answered"}
           /\ ConnectionFits(d)
           /\ d.status \in {0, 200, 400, 404, 405, 500, 502}
           /\ d.at # "read" => d.todo = <<>>
           /\ d.shown \subseteq Shown
BY Zenon DEF Types, IsNode

(* A connection that was never checked is that of a request that failed. *)
LEMMA AtWork ==
    ASSUME NEW d, Types(d), d.at \in {"waiting", "asked", "read"}
    PROVE  d.connection \in {"none", "open", "closed"}
BY TypesAre DEF ConnectionFits

Walks(d) == d.q.view \in WalkViews
AsksVerdict(d) == d.q.view = "stuck"
Proper(q) == q.view \in WalkViews \cup {"stuck"} => q.key \in Entry /\ q.depth \in Int

-----------------------------------------------------------------------------
(* Walks *)

RowAt(line) == store[WorkflowOf(line)]

(* A line whose end was found, and whose calls are walked. *)
Entered(q, line) ==
    /\ line \in Wanted(q)
    /\ ~ IsCircle(line) /\ Depth(line) <= q.depth /\ RowAt(line).state # "absent"

WalkTask(q) ==
    {t \in Task :
        /\ t.what \in {"row", "plan", "args", "operations", "calls", "checkpoints", "events",
                       "merged events", "children"}
        /\ t.what = "row" => t.line = <<q.key>>
        /\ t.what \in {"calls", "children"} => Entered(q, t.line)
        /\ t.what = "children" => t.left \subseteq RowAt(t.line).calls}

(* The tables that are read after the calls are still to be read. *)
WalkTasks(q) ==
    {todo \in Seq(WalkTask(q)) :
        \A i \in 1 .. Len(todo) :
            todo[i].what = "calls" => i + AfterCalls(q.view) <= Len(todo)}

Extends(line, above) ==
    Len(above) < Len(line) /\ \A i \in 1 .. Len(above) : line[i] = above[i]

(* A read that will come to the line. *)
Awaited(t, line) ==
    \/ t.what = "row"
    \/ t.what = "calls" /\ Extends(line, t.line)
    \/ /\ t.what = "children" /\ Extends(line, t.line)
       /\ \E c \in t.left : line[Len(t.line) + 1] = Lower(c.child)

Owed(d) ==
    \A line \in Wanted(d.q) :
        \/ \E s \in d.shown : s.line = line
        \/ \E t \in Range(d.todo) : Awaited(t, line)

ShownRightly(q, shown) ==
    \A s \in shown : s.line \in Wanted(q) /\ s.state = StateToShow(s.line, q.depth)

WalkGoesWell(d) ==
    /\ d.q.depth >= 1
    /\ d.todo \in WalkTasks(d.q)
    /\ ShownRightly(d.q, d.shown)
    /\ Owed(d)

-----------------------------------------------------------------------------
(* Descents *)

Follows(line) ==
    /\ line \in Line /\ line # <<>>
    /\ \A n \in 1 .. Len(line) - 1 :
          /\ store[line[n][1]].state \in {"forward", "reversing"}
          /\ \E c \in Earliest(Unfinished(SubSeq(line, 1, n))) : line[n + 1] = Lower(c.child)

AtNode(d) ==
    /\ Follows(d.node.line)
    /\ d.node.state = RowAt(d.node.line).state /\ d.node.state # "absent"

(* It has found no answer at the node and goes on to the children. *)
GoesBelow(d) == AtNode(d) /\ d.node.state \in {"forward", "reversing"}

Left(todo) == IF todo = <<>> THEN {} ELSE Head(todo).left
Descends(d) ==
    \/ LET line == Head(d.todo).line
       IN  d.todo # <<>> /\ d.todo = <<Read("row", line)>> /\ Follows(line)
    \/ /\ AtNode(d)
       /\ LET clock == Read("clock", d.node.line)
              operations == Read("operations", d.node.line)
              checkpoints == Read("checkpoints", d.node.line)
          IN  d.todo \in {<<clock, operations, checkpoints>>, <<operations, checkpoints>>, <<checkpoints>>}
    \/ GoesBelow(d) /\ d.todo = <<Read("called", d.node.line)>>
    \/ /\ GoesBelow(d)
       /\ d.todo = ToVisit(d.node.line, Left(d.todo))
       /\ Left(d.todo) \subseteq RowAt(d.node.line).calls
       /\ Unfinished(d.node.line) \subseteq Left(d.todo)

EndsWell(answer) ==
    /\ Follows(answer.line)
    /\ Unfinished(answer.line) # {} =>
          answer.verdict \in {"terminal", "blocked_resolution", "running_under_lease"}

-----------------------------------------------------------------------------
(* The other requests ask one thing of the database. *)
AsksOnce(d) ==
    \/ d.q.view = "health" /\ d.todo = <<Read("clock", <<>>)>>
    \/ d.q.view = "search" /\ d.todo = <<Read("summaries", <<>>)>>

HandlerInv(d) ==
    /\ Types(d)
    /\ d.at \in {"asked", "read"} => Proper(d.q)
    /\ d.at = "asked" => d.shown = {}
    /\ d.at = "read" /\ Walks(d) => WalkGoesWell(d)
    /\ d.at = "read" /\ AsksVerdict(d) => Descends(d)
    /\ d.at = "read" => Walks(d) \/ AsksVerdict(d) \/ AsksOnce(d)
    /\ d.at \in {"respond", "answered"} /\ d.status = 200 /\ Walks(d) => d.shown = ToShow(d.q)
    /\ d.at \in {"respond", "answered"} /\ d.status = 200 /\ AsksVerdict(d) => EndsWell(d.answer)

Rows == store \in [Ids -> StoredRow]

RInv ==
    /\ Rows
    /\ server \in {"off", "serving", "refused"}
    /\ HandlerInv(h)

LEMMA RowsStand ==
    ASSUME UNCHANGED store
    PROVE  /\ \A line : RowAt(line)' = RowAt(line)
           /\ \A line : IsChain(line)' = IsChain(line)
           /\ \A line, depth : IsWalkedDown(line, depth)' = IsWalkedDown(line, depth)
           /\ \A line, depth : StateToShow(line, depth)' = StateToShow(line, depth)
           /\ \A line : Unfinished(line)' = Unfinished(line)
BY DEF RowAt, IsChain, IsWalkedDown, StateToShow, Unfinished

LEMMA WalksStand ==
    ASSUME UNCHANGED store
    PROVE  /\ \A q : Wanted(q)' = Wanted(q)
           /\ \A q : ToShow(q)' = ToShow(q)
           /\ \A line : Follows(line)' = Follows(line)
<1>1. \A q : Wanted(q)' = Wanted(q)
    BY RowsStand DEF Wanted
<1>2. \A q : ToShow(q)' = ToShow(q)
    BY <1>1, RowsStand DEF ToShow
<1>3. \A line : Follows(line)' = Follows(line)
    BY RowsStand DEF Follows
<1> QED
    BY <1>1, <1>2, <1>3

(* While the rows stand still, what holds of a handler goes on holding. *)
LEMMA StandsStill ==
    ASSUME UNCHANGED store, NEW d, HandlerInv(d), h' = d
    PROVE  HandlerInv(h)'
<1>1. \A q, line : Entered(q, line)' = Entered(q, line)
    BY RowsStand, WalksStand DEF Entered
<1>2. \A q : WalkTask(q)' = WalkTask(q)
    <2>1. \A q, t : t \in WalkTask(q)' <=> t \in WalkTask(q)
        BY <1>1, RowsStand DEF WalkTask
    <2> QED
        BY <2>1
<1>3. \A q : WalkTasks(q)' = WalkTasks(q)
    BY <1>2 DEF WalkTasks
<1>4. \A q, shown : ShownRightly(q, shown)' = ShownRightly(q, shown)
    BY RowsStand, WalksStand DEF ShownRightly
<1>5. Owed(d) => Owed(h)'
    BY WalksStand DEF Owed
<1>6. WalkGoesWell(d) => WalkGoesWell(h)'
    BY <1>3, <1>4, <1>5 DEF WalkGoesWell
<1>7. AtNode(d) => AtNode(h)'
    BY RowsStand, WalksStand DEF AtNode
<1>8. Descends(d) => Descends(h)'
    BY <1>7, RowsStand, WalksStand DEF Descends, GoesBelow
<1>9. \A answer : EndsWell(answer)' = EndsWell(answer)
    BY RowsStand, WalksStand DEF EndsWell
<1>10. Types(d) => Types(h)'
    BY DEF Types
<1> QED
    BY <1>6, <1>8, <1>9, <1>10, WalksStand DEF HandlerInv, Proper, Walks, AsksVerdict, AsksOnce
-----------------------------------------------------------------------------
(* Lines of calls *)

LEMMA EntryFacts ==
    /\ Line = Seq(Entry)
    /\ \A w \in Ids : Lower(w) \in Entry /\ Lower(w)[1] = w
    /\ \A e \in Entry : e[1] \in Ids
BY DEF Line, Entry, Lower, Key

LEMMA LineFacts ==
    ASSUME NEW line \in Line, line # <<>>
    PROVE  /\ line \in Seq(Entry) /\ Len(line) \in Nat \ {0}
           /\ \A i \in 1 .. Len(line) : line[i] \in Entry
           /\ WorkflowOf(line) \in Ids
<1>1. line \in Seq(Entry)
    BY EntryFacts
<1>2. Len(line) \in Nat \ {0}
    BY <1>1, EmptySeq
<1>3. \A i \in 1 .. Len(line) : line[i] \in Entry
    BY <1>1, ElementOfSeq
<1> QED
    BY <1>1, <1>2, <1>3, EntryFacts DEF WorkflowOf

LEMMA RowFacts ==
    ASSUME Rows, NEW line \in Line, line # <<>>
    PROVE  LET row == RowAt(line)
           IN  /\ row = store[WorkflowOf(line)]
               /\ row.state \in States /\ row.calls \subseteq CallRow
               /\ row.operations \subseteq Carrier /\ row.checkpoints \subseteq Carrier
BY LineFacts DEF Rows, RowAt, StoredRow

LEMMA LineBegins ==
    ASSUME NEW k \in Entry
    PROVE  /\ <<k>> \in Line /\ <<k>> # <<>> /\ Len(<<k>>) = 1 /\ <<k>>[1] = k
           /\ ~ IsCircle(<<k>>) /\ Depth(<<k>>) = 0
<1>1. <<k>> \in Seq(Entry) /\ Len(<<k>>) = 1 /\ <<k>>[1] = k
    OBVIOUS
<1>2. Above(<<k>>) = <<>>
    BY <1>1, SubSeqEmpty DEF Above
<1>3. Seen(<<>>) = {}
    BY EmptySeq DEF Seen
<1> QED
    BY <1>1, <1>2, <1>3, EntryFacts DEF IsCircle, Depth

(* A line and the line that is one call longer. *)
LEMMA LineGoesOn ==
    ASSUME NEW line \in Line, line # <<>>, NEW w \in Ids
    PROVE  LET longer == Append(line, Lower(w))
           IN  /\ longer \in Line /\ longer # <<>> /\ Len(longer) = Len(line) + 1
               /\ \A i \in 1 .. Len(line) : longer[i] = line[i]
               /\ longer[Len(longer)] = Lower(w) /\ WorkflowOf(longer) = w
               /\ Above(longer) = line
               /\ Depth(longer) = Depth(line) + 1
               /\ IsCircle(longer) <=> Lower(w) \in Seen(line)
<1> DEFINE e == Lower(w)
           longer == Append(line, e)
<1>1. e \in Entry /\ e[1] = w
    BY EntryFacts
<1>2. line \in Seq(Entry) /\ Len(line) \in Nat \ {0} /\ \A i \in 1 .. Len(line) : line[i] \in Entry
    BY LineFacts
<1> HIDE DEF e
<1>3. /\ longer \in Seq(Entry) /\ longer # <<>> /\ Len(longer) = Len(line) + 1
      /\ \A i \in 1 .. Len(line) : longer[i] = line[i]
      /\ longer[Len(line) + 1] = e
    BY <1>1, <1>2, AppendProperties
<1> HIDE DEF longer
<1>4. Above(longer) = line
    <2> DEFINE above == SubSeq(longer, 1, Len(longer) - 1)
    <2>1. \A i \in 1 .. Len(longer) - 1 : longer[i] \in Entry
        BY <1>2, <1>3
    <2>2. /\ above \in Seq(Entry) /\ Len(above) = Len(longer) - 1
          /\ \A i \in 1 .. Len(longer) - 1 : above[i] = longer[i]
        BY <1>2, <1>3, <2>1, SubSeqProperties
    <2> HIDE DEF above
    <2>3. above = line
        BY <1>2, <1>3, <2>2, SeqEqual
    <2> QED
        BY <2>3 DEF above, Above
<1>5. longer[Len(longer)] = e /\ WorkflowOf(longer) = w
    BY <1>1, <1>2, <1>3 DEF WorkflowOf
<1>6. IsCircle(longer) <=> e \in Seen(line)
    BY <1>4, <1>5 DEF IsCircle
<1> QED
    BY <1>2, <1>3, <1>4, <1>5, <1>6, EntryFacts DEF e, longer, Depth

LEMMA CircleIs ==
    ASSUME NEW line \in Line, line # <<>>
    PROVE  IsCircle(line) <=> \E j \in 1 .. Len(line) - 1 : line[j] = line[Len(line)]
<1> DEFINE above == SubSeq(line, 1, Len(line) - 1)
<1>1. line \in Seq(Entry) /\ Len(line) \in Nat \ {0} /\ \A i \in 1 .. Len(line) : line[i] \in Entry
    BY LineFacts
<1>2. Len(above) = Len(line) - 1 /\ \A i \in 1 .. Len(line) - 1 : above[i] = line[i]
    <2> DEFINE n == Len(line) - 1
    <2>1. n \in Nat /\ \A i \in 1 .. n : line[i] \in Entry
        BY <1>1
    <2> HIDE DEF n
    <2>2. Len(SubSeq(line, 1, n)) = n /\ \A i \in 1 .. n : SubSeq(line, 1, n)[i] = line[i]
        BY <2>1, SubSeqProperties
    <2> QED
        BY <2>2 DEF n
<1> HIDE DEF above
<1>3. IsCircle(line) <=> \E j \in 1 .. Len(above) : above[j] = line[Len(line)]
    BY DEF IsCircle, Seen, Above, above
<1> QED
    BY <1>2, <1>3

-----------------------------------------------------------------------------
(* What a walk has to show *)

LEMMA ChainsBegin ==
    ASSUME NEW q, q.key \in Entry, q.depth \in Int, NEW line \in Chains(q)
    PROVE  line \in Line /\ line # <<>> /\ line[1] = q.key
<1> DEFINE Lowers == {Lower(w) : w \in Ids}
           k == q.key
<1>0. PICK n \in 0 .. q.depth + 1 : line \in {<<k>> \o rest : rest \in [1 .. n -> Lowers]}
    BY DEF Chains
<1>1. PICK rest \in [1 .. n -> Lowers] : line = <<k>> \o rest
    BY <1>0
<1>2. n \in Nat
    BY <1>0
<1>3. Lowers \subseteq Entry
    BY EntryFacts
<1> HIDE DEF Lowers, k
<1>4. rest \in Seq(Entry)
    BY <1>1, <1>2, <1>3, SeqDef
<1>5. k \in Entry /\ <<k>> \in Seq(Entry) /\ Len(<<k>>) = 1 /\ <<k>>[1] = k
    BY DEF k
<1>6. line \in Seq(Entry) /\ Len(line) = 1 + Len(rest) /\ line[1] = k
    BY <1>1, <1>4, <1>5, ConcatProperties, LenProperties
<1>7. line # <<>>
    BY <1>4, <1>6, LenProperties
<1> QED
    BY <1>6, <1>7, EntryFacts DEF k

LEMMA WantedFacts ==
    ASSUME NEW q, q.key \in Entry, q.depth \in Int, NEW line \in Wanted(q)
    PROVE  /\ line \in Line /\ line # <<>> /\ line[1] = q.key
           /\ IsChain(line) /\ IsWalkedDown(line, q.depth)
BY ChainsBegin DEF Wanted

LEMMA ChainIsWanted ==
    ASSUME Rows, NEW q, q.depth \in Int, q.depth >= 1,
           NEW line \in Line, line # <<>>, line[1] = q.key, IsChain(line), IsWalkedDown(line, q.depth)
    PROVE  line \in Wanted(q)
<1> DEFINE Lowers == {Lower(w) : w \in Ids}
           n == Len(line) - 1
           rest == [i \in 1 .. n |-> line[i + 1]]
<1>1. line \in Seq(Entry) /\ Len(line) \in Nat \ {0} /\ \A i \in 1 .. Len(line) : line[i] \in Entry
    BY LineFacts
<1>2. n \in 0 .. q.depth + 1
    <2>1. CASE Len(line) = 1
        BY <2>1
    <2>2. CASE Len(line) # 1
        <3>1. \A m \in Nat : m # 0 /\ m # 1 => m - 1 \in 1 .. m - 1
            OBVIOUS
        <3>2. n \in 1 .. n
            BY <1>1, <2>2, <3>1
        <3>3. n - 1 <= q.depth
            BY <3>2 DEF IsWalkedDown
        <3> QED
            BY <1>1, <3>3
    <2> QED
        BY <2>1, <2>2
<1>3. ASSUME NEW i \in 1 .. n
      PROVE  line[i + 1] \in Lowers
    <2>1. PICK call \in store[line[i][1]].calls : Lower(call.child) = line[i + 1]
        BY <1>3 DEF IsChain
    <2>2. line[i][1] \in Ids
        BY <1>1, EntryFacts
    <2>3. call \in CallRow
        BY <2>1, <2>2 DEF Rows, StoredRow
    <2> QED
        BY <2>1, <2>3 DEF CallRow
<1>4. rest \in [1 .. n -> Lowers]
    BY <1>3
<1>5. rest \in Seq(Entry) /\ Len(rest) = n
    <2>1. n \in Nat /\ \A i \in 1 .. n : line[i + 1] \in Entry
        BY <1>1
    <2> HIDE DEF n
    <2>2. rest \in [1 .. n -> Entry]
        BY <2>1
    <2> QED
        BY <2>1, <2>2, SeqDef, LenProperties
<1>6. line = <<q.key>> \o rest
    <2> DEFINE k == q.key
               c == <<k>> \o rest
    <2>1. k \in Entry /\ <<k>> \in Seq(Entry) /\ Len(<<k>>) = 1 /\ <<k>>[1] = k
        BY <1>1
    <2> HIDE DEF k
    <2>2. /\ c \in Seq(Entry) /\ Len(c) = 1 + Len(rest)
          /\ \A i \in 1 .. 1 + Len(rest) : c[i] = IF i <= 1 THEN <<k>>[i] ELSE rest[i - 1]
        BY <1>5, <2>1, ConcatProperties
    <2>3. \A i \in 1 .. Len(line) : line[i] = c[i]
        BY <1>1, <1>5, <2>1, <2>2 DEF k
    <2>4. Len(c) = Len(line)
        BY <1>1, <1>5, <2>2
    <2> HIDE DEF c
    <2>5. line = c
        BY <1>1, <2>2, <2>3, <2>4, SeqEqual
    <2> QED
        BY <2>5 DEF c, k
<1> HIDE DEF n, rest
<1>7. line \in Chains(q)
    <2>1. line \in {<<q.key>> \o r : r \in [1 .. n -> Lowers]}
        BY <1>4, <1>6
    <2> QED
        BY <1>2, <2>1 DEF Chains
<1> QED
    BY <1>7 DEF Wanted

(* A wanted line goes on only where the walk does. *)
LEMMA StopsThere ==
    ASSUME NEW q, q.key \in Entry, q.depth \in Int, NEW line \in Wanted(q),
           NEW above \in Line, above # <<>>, Extends(line, above)
    PROVE  /\ ~ IsCircle(above) /\ Depth(above) <= q.depth /\ RowAt(above).state # "absent"
           /\ \E call \in RowAt(above).calls : Lower(call.child) = line[Len(above) + 1]
<1> DEFINE i == Len(above)
<1>1. Len(above) \in Nat \ {0} /\ above[Len(above)] = line[Len(above)]
    BY LineFacts DEF Extends
<1>2. line \in Line /\ line # <<>> /\ IsChain(line) /\ IsWalkedDown(line, q.depth)
    BY WantedFacts
<1>3. i \in 1 .. Len(line) - 1
    BY <1>1, <1>2, LineFacts DEF Extends
<1>4. i - 1 <= q.depth /\ store[line[i][1]].state # "absent" /\ \A j \in 1 .. i - 1 : line[j] # line[i]
    BY <1>2, <1>3 DEF IsWalkedDown
<1>5. \E call \in store[line[i][1]].calls : Lower(call.child) = line[i + 1]
    BY <1>2, <1>3 DEF IsChain
<1>6. RowAt(above) = store[line[i][1]]
    BY <1>1 DEF RowAt, WorkflowOf
<1>7. \A j \in 1 .. i - 1 : above[j] # above[i]
    BY <1>1, <1>4 DEF Extends
<1>8. ~ IsCircle(above)
    BY <1>7, CircleIs
<1> QED
    BY <1>4, <1>5, <1>6, <1>8 DEF Depth

LEMMA FirstIsWanted ==
    ASSUME Rows, NEW q, q.key \in Entry, q.depth \in Int, q.depth >= 1
    PROVE  <<q.key>> \in Wanted(q)
<1> DEFINE line == <<q.key>>
<1>1. line \in Line /\ line # <<>> /\ Len(line) = 1 /\ line[1] = q.key
    BY LineBegins
<1> HIDE DEF line
<1>2. IsChain(line) /\ IsWalkedDown(line, q.depth)
    BY <1>1 DEF IsChain, IsWalkedDown
<1>3. line \in Wanted(q)
    BY <1>1, <1>2, ChainIsWanted
<1> QED
    BY <1>3 DEF line

LEMMA ChildIsWanted ==
    ASSUME Rows, NEW q, q.key \in Entry, q.depth \in Int, q.depth >= 1,
           NEW above, Entered(q, above), NEW c \in RowAt(above).calls
    PROVE  Append(above, Lower(c.child)) \in Wanted(q)
<1>1. above \in Line /\ above # <<>> /\ above[1] = q.key /\ IsChain(above) /\ IsWalkedDown(above, q.depth)
    BY WantedFacts DEF Entered
<1>2. ~ IsCircle(above) /\ Depth(above) <= q.depth /\ RowAt(above).state # "absent"
    BY DEF Entered
<1>3. c.child \in Ids
    BY <1>1, RowFacts DEF CallRow
<1> DEFINE line == Append(above, Lower(c.child))
           n == Len(above)
<1>4. /\ line \in Line /\ line # <<>> /\ Len(line) = n + 1
      /\ \A i \in 1 .. n : line[i] = above[i]
      /\ line[n + 1] = Lower(c.child)
    BY <1>1, <1>3, LineGoesOn
<1>5. n \in Nat \ {0}
    BY <1>1, LineFacts
<1> HIDE DEF line, n
<1>6. RowAt(above) = store[above[n][1]]
    BY DEF RowAt, WorkflowOf, n
<1>7. IsChain(line)
    <2> SUFFICES ASSUME NEW i \in 1 .. n
                 PROVE  \E call \in store[line[i][1]].calls : Lower(call.child) = line[i + 1]
        BY <1>4, <1>5 DEF IsChain
    <2>1. CASE i = n
        BY <1>4, <1>5, <1>6, <2>1
    <2>2. CASE i \in 1 .. n - 1
        <3>1. line[i] = above[i] /\ line[i + 1] = above[i + 1]
            BY <1>4, <1>5, <2>2
        <3> QED
            BY <1>1, <2>2, <3>1 DEF IsChain, n
    <2> QED
        BY <1>5, <2>1, <2>2
<1>8. IsWalkedDown(line, q.depth)
    <2> SUFFICES ASSUME NEW i \in 1 .. n
                 PROVE  /\ i - 1 <= q.depth
                        /\ store[line[i][1]].state # "absent"
                        /\ \A j \in 1 .. i - 1 : line[j] # line[i]
        BY <1>4, <1>5 DEF IsWalkedDown
    <2>1. \A j \in 1 .. i : line[j] = above[j]
        BY <1>4, <1>5
    <2>2. CASE i = n
        <3>1. \A j \in 1 .. n - 1 : above[j] # above[n]
            BY <1>1, <1>2, CircleIs DEF n
        <3> QED
            BY <1>2, <1>5, <1>6, <2>1, <2>2, <3>1 DEF Depth, n
    <2>3. CASE i \in 1 .. n - 1
        <3>1. /\ i - 1 <= q.depth /\ store[above[i][1]].state # "absent"
              /\ \A j \in 1 .. i - 1 : above[j] # above[i]
            BY <1>1, <2>3 DEF IsWalkedDown, n
        <3> QED
            BY <1>5, <2>1, <3>1
    <2> QED
        BY <1>5, <2>2, <2>3
<1>9. line[1] = q.key
    BY <1>1, <1>4, <1>5
<1> QED
    BY <1>4, <1>7, <1>8, <1>9, ChainIsWanted DEF line

-----------------------------------------------------------------------------
(* Tasks *)

LEMMA RangeHead ==
    ASSUME NEW S, NEW todo \in Seq(S), todo # <<>>
    PROVE  Range(todo) = {Head(todo)} \cup Range(Tail(todo))
<1>1. Len(todo) \in Nat \ {0}
    BY EmptySeq
<1>2. Range(todo) = {todo[i] : i \in 1 .. Len(todo)}
    BY RangeEquality
<1>3. Tail(todo) \in Seq(S) /\ Len(Tail(todo)) = Len(todo) - 1
      /\ \A i \in 1 .. Len(Tail(todo)) : Tail(todo)[i] = todo[i + 1]
    BY HeadTailProperties
<1>4. Range(Tail(todo)) = {Tail(todo)[i] : i \in 1 .. Len(Tail(todo))}
    BY <1>3, RangeEquality
<1>5. Head(todo) = todo[1]
    BY <1>1
<1>6. ASSUME NEW t \in Range(todo)
      PROVE  t = Head(todo) \/ t \in Range(Tail(todo))
    <2>1. PICK i \in 1 .. Len(todo) : t = todo[i]
        BY <1>2
    <2>2. CASE i = 1
        BY <1>5, <2>1, <2>2
    <2>3. CASE i # 1
        <3>1. i - 1 \in 1 .. Len(Tail(todo)) /\ (i - 1) + 1 = i
            BY <1>1, <1>3, <2>3
        <3> QED
            BY <1>3, <1>4, <2>1, <3>1
    <2> QED
        BY <2>2, <2>3
<1>7. ASSUME NEW t \in Range(Tail(todo))
      PROVE  t \in Range(todo)
    <2>1. PICK i \in 1 .. Len(Tail(todo)) : t = todo[i + 1]
        BY <1>3, <1>4
    <2>2. i + 1 \in 1 .. Len(todo)
        BY <1>1, <1>3
    <2> QED
        BY <1>2, <2>1, <2>2
<1>8. Head(todo) \in Range(todo)
    BY <1>1, <1>2, <1>5
<1> QED
    BY <1>6, <1>7, <1>8

LEMMA RangeOfFew ==
    ASSUME NEW S, NEW a \in S
    PROVE  <<a>> \in Seq(S) /\ Range(<<a>>) = {a} /\ Range(<<>>) = {}
<1>1. <<a>> \in Seq(S) /\ Len(<<a>>) = 1 /\ <<a>>[1] = a
    OBVIOUS
<1>2. Range(<<a>>) = {<<a>>[i] : i \in 1 .. Len(<<a>>)}
    BY <1>1, RangeEquality
<1>3. Range(<<>>) = {<<>>[i] : i \in 1 .. Len(<<>>)}
    BY EmptySeq, RangeEquality
<1> QED
    BY <1>1, <1>2, <1>3

(* What was read of a sequence with something put in. *)
LEMMA RangeWithMore ==
    ASSUME NEW S, NEW others \in Seq(S), NEW more \in Seq(S), NEW n \in Nat, n <= Len(others)
    PROVE  LET longer == SubSeq(others, 1, n) \o more \o SubSeq(others, n + 1, Len(others))
           IN  longer \in Seq(S) /\ Range(longer) = Range(others) \cup Range(more)
<1> DEFINE first == SubSeq(others, 1, n)
           last == SubSeq(others, n + 1, Len(others))
           longer == first \o more \o last
<1>0. Len(others) \in Nat /\ \A i \in 1 .. Len(others) : others[i] \in S
    BY ElementOfSeq, LenProperties
<1>1. first \in Seq(S)
    BY <1>0, SubSeqProperties
<1>2. last \in Seq(S)
    BY <1>0, SubSeqProperties
<1>3. first \o last = others
    <2> DEFINE m == Len(others)
    <2>1. 1 \in 1 .. m + 1 /\ n \in 1 - 1 .. m /\ m \in n .. m
        BY <1>0
    <2> HIDE DEF first, last, longer
    <2>2. SubSeq(others, 1, n) \o SubSeq(others, n + 1, m) = SubSeq(others, 1, m)
        BY <2>1, ConcatAdjacentSubSeq
    <2>3. SubSeq(others, 1, m) = others
        BY SubSeqFull
    <2> QED
        BY <2>2, <2>3, Zenon DEF first, last
<1> HIDE DEF first, last, longer
<1>4. Range(others) = Range(first) \cup Range(last)
    BY <1>1, <1>2, <1>3, RangeConcatenation
<1>5. first \o more \in Seq(S) /\ Range(first \o more) = Range(first) \cup Range(more)
    <2>1. first \o more \in Seq(S)
        BY <1>1, ConcatProperties
    <2> QED
        BY <1>1, <2>1, RangeConcatenation
<1> DEFINE begin == first \o more
<1>7. begin \in Seq(S)
    BY <1>5
<1> HIDE DEF begin
<1>6. begin \o last \in Seq(S) /\ Range(begin \o last) = Range(begin) \cup Range(last)
    BY <1>2, <1>7, ConcatProperties, RangeConcatenation
<1> QED
    BY <1>4, <1>5, <1>6 DEF first, last, begin, longer

LEMMA NoTasks ==
    /\ Range(<<>>) = {}
    /\ \A q : <<>> \in WalkTasks(q)
<1>1. Range(<<>>) = {}
    BY RangeOfFew
<1>2. \A q : <<>> \in WalkTasks(q)
    BY EmptySeq DEF WalkTasks
<1> QED
    BY <1>1, <1>2

LEMMA TasksGoOn ==
    ASSUME NEW q, NEW todo \in WalkTasks(q), todo # <<>>
    PROVE  /\ Head(todo) \in WalkTask(q) /\ Tail(todo) \in WalkTasks(q)
           /\ Range(todo) = {Head(todo)} \cup Range(Tail(todo))
<1> DEFINE T == WalkTask(q)  n == AfterCalls(q.view)
<1>1. /\ todo \in Seq(T)
      /\ \A i \in 1 .. Len(todo) : todo[i].what = "calls" => i + n <= Len(todo)
    BY DEF WalkTasks
<1>2. n \in Nat /\ Len(todo) \in Nat \ {0}
    BY <1>1, EmptySeq DEF AfterCalls
<1> HIDE DEF T, n
<1>3. /\ Head(todo) \in T /\ Tail(todo) \in Seq(T) /\ Len(Tail(todo)) = Len(todo) - 1
      /\ \A i \in 1 .. Len(Tail(todo)) : Tail(todo)[i] = todo[i + 1]
    BY <1>1, HeadTailProperties
<1>4. ASSUME NEW i \in 1 .. Len(Tail(todo)), Tail(todo)[i].what = "calls"
      PROVE  i + n <= Len(Tail(todo))
    BY <1>1, <1>2, <1>3, <1>4
<1>5. Range(todo) = {Head(todo)} \cup Range(Tail(todo))
    BY <1>1, RangeHead
<1> QED
    BY <1>3, <1>4, <1>5 DEF WalkTasks, T, n


LEMMA LeftOf ==
    ASSUME NEW line, NEW left
    PROVE  /\ Left(ToVisit(line, left)) = left
           /\ left # {} => /\ ToVisit(line, left) # <<>>
                           /\ Head(ToVisit(line, left)).line = line
                           /\ Head(ToVisit(line, left)).what = "children"
<1>1. CASE left = {}
    BY <1>1 DEF ToVisit, Left
<1>2. CASE left # {}
    <2> DEFINE task == [what |-> "children", line |-> line, left |-> left]
    <2>1. task.left = left /\ task.line = line /\ task.what = "children"
        OBVIOUS
    <2>2. ToVisit(line, left) = <<task>>
        BY <1>2 DEF ToVisit
    <2> HIDE DEF task
    <2>3. Head(<<task>>) = task /\ <<task>> # <<>>
        OBVIOUS
    <2> QED
        BY <2>1, <2>2, <2>3 DEF Left
<1> QED
    BY <1>1, <1>2

LEMMA NodeReadsFacts ==
    ASSUME NEW q, q.view \in WalkViews, NEW line \in Line, Entered(q, line)
    PROVE  /\ NodeReads(q.view, line) \in WalkTasks(q)
           /\ Read("calls", line) \in Range(NodeReads(q.view, line))
<1> DEFINE T == WalkTask(q)
           task(what) == Read(what, line)
           names == <<"plan", "args", "operations", "calls", "checkpoints", "events">>
<1>1. line \in Line /\ q.view \in {"inspect", "tree", "timeline"}
    BY DEF WalkViews
<1>2. ASSUME NEW what \in {"plan", "args", "operations", "calls", "checkpoints", "events"}
      PROVE  task(what) \in T /\ task(what).what = what
    BY <1>1, <1>2 DEF WalkTask, Task, Kinds, Read
<1> HIDE DEF task
<1>3. CASE q.view = "inspect"
    <2> DEFINE todo == [i \in 1 .. 6 |-> task(names[i])]
    <2>1. NodeReads(q.view, line) = todo
        BY <1>3 DEF NodeReads, task
    <2>2. \A i \in 1 .. 6 :
             /\ names[i] \in {"plan", "args", "operations", "calls", "checkpoints", "events"}
             /\ names[i] = "calls" => i = 4
        OBVIOUS
    <2>3. \A i \in 1 .. 6 : task(names[i]) \in T /\ (task(names[i]).what = "calls" => i = 4)
        BY <1>2, <2>2
    <2> HIDE DEF names, T
    <2>4. todo \in Seq(T) /\ Len(todo) = 6
        <3>1. todo \in [1 .. 6 -> T]
            BY <2>3
        <3> HIDE DEF todo
        <3>2. todo \in Seq(T) /\ DOMAIN todo = 1 .. 6
            BY <3>1, SeqDef
        <3>3. Len(todo) \in Nat /\ DOMAIN todo = 1 .. Len(todo)
            BY <3>2, LenProperties
        <3>4. 6 \in 1 .. Len(todo) /\ Len(todo) \in 0 .. 6
            BY <3>2, <3>3
        <3> QED
            BY <3>2, <3>4
    <2>5. \A i \in 1 .. 6 : todo[i].what = "calls" => i = 4
        BY <2>3
    <2>6. AfterCalls(q.view) = 2
        BY <1>3 DEF AfterCalls
    <2> HIDE DEF todo
    <2>7. todo \in WalkTasks(q)
        <3>1. \A i \in 1 .. Len(todo) :
                 todo[i].what = "calls" => i + AfterCalls(q.view) <= Len(todo)
            BY <2>4, <2>5, <2>6
        <3> QED
            BY <2>4, <3>1 DEF WalkTasks, T
    <2>8. Read("calls", line) \in Range(todo)
        <3>1. todo[4] = task("calls") /\ 4 \in 1 .. Len(todo)
            BY <2>4 DEF todo, names
        <3>2. Range(todo) = {todo[i] : i \in 1 .. Len(todo)}
            BY <2>4, RangeEquality
        <3> QED
            BY <3>1, <3>2 DEF task
    <2> QED
        BY <2>1, <2>7, <2>8
<1>4. CASE q.view # "inspect"
    <2> DEFINE todo == <<task("calls")>>
    <2>1. NodeReads(q.view, line) = todo
        BY <1>1, <1>4 DEF NodeReads, task
    <2>2. todo \in Seq(T) /\ Len(todo) = 1
        BY <1>2
    <2>3. AfterCalls(q.view) = 0
        BY <1>4 DEF AfterCalls
    <2> HIDE DEF todo
    <2>4. todo \in WalkTasks(q)
        BY <2>2, <2>3 DEF WalkTasks
    <2>5. Range(todo) = {Read("calls", line)}
        BY <1>2, RangeOfFew DEF todo, task
    <2> QED
        BY <2>1, <2>4, <2>5
<1> QED
    BY <1>3, <1>4

LEMMA TasksJoin ==
    ASSUME NEW q, NEW a \in Seq(WalkTask(q)), NEW b \in WalkTasks(q),
           \A i \in 1 .. Len(a) :
               a[i].what = "calls" => i + AfterCalls(q.view) <= Len(a) + Len(b)
    PROVE  a \o b \in WalkTasks(q) /\ Len(a \o b) = Len(a) + Len(b)
<1> DEFINE T == WalkTask(q)  n == AfterCalls(q.view)  c == a \o b
<1>1. /\ a \in Seq(T) /\ b \in Seq(T)
      /\ \A i \in 1 .. Len(a) : a[i].what = "calls" => i + n <= Len(a) + Len(b)
      /\ \A i \in 1 .. Len(b) : b[i].what = "calls" => i + n <= Len(b)
    BY DEF WalkTasks
<1>2. n \in Nat /\ Len(a) \in Nat /\ Len(b) \in Nat
    BY <1>1 DEF AfterCalls
<1> HIDE DEF T, n
<1>3. /\ c \in Seq(T) /\ Len(c) = Len(a) + Len(b)
      /\ \A i \in 1 .. Len(a) + Len(b) : c[i] = IF i <= Len(a) THEN a[i] ELSE b[i - Len(a)]
    BY <1>1, ConcatProperties
<1> HIDE DEF c
<1>4. ASSUME NEW i \in 1 .. Len(c), c[i].what = "calls"
      PROVE  i + n <= Len(c)
    <2>1. CASE i <= Len(a)
        BY <1>1, <1>2, <1>3, <1>4, <2>1
    <2>2. CASE i > Len(a)
        <3>1. i - Len(a) \in 1 .. Len(b) /\ c[i] = b[i - Len(a)]
            BY <1>2, <1>3, <2>2
        <3>2. (i - Len(a)) + n <= Len(b)
            BY <1>1, <1>4, <3>1
        <3> QED
            BY <1>2, <1>3, <3>1, <3>2
    <2> QED
        BY <1>2, <1>3, <2>1, <2>2
<1>5. c \in WalkTasks(q)
    BY <1>3, <1>4 DEF WalkTasks, T, n
<1> QED
    BY <1>3, <1>5 DEF c

LEMMA TasksAdd ==
    ASSUME NEW q, NEW a \in WalkTasks(q), NEW b \in WalkTasks(q)
    PROVE  /\ a \o b \in WalkTasks(q) /\ Len(a \o b) = Len(a) + Len(b)
           /\ Range(a \o b) = Range(a) \cup Range(b)
<1> DEFINE n == AfterCalls(q.view)
<1>1. /\ a \in Seq(WalkTask(q)) /\ b \in Seq(WalkTask(q))
      /\ \A i \in 1 .. Len(a) : a[i].what = "calls" => i + n <= Len(a)
    BY DEF WalkTasks
<1>2. n \in Nat /\ Len(a) \in Nat /\ Len(b) \in Nat
    BY <1>1 DEF AfterCalls
<1> HIDE DEF n
<1>3. \A i \in 1 .. Len(a) : a[i].what = "calls" => i + n <= Len(a) + Len(b)
    BY <1>1, <1>2
<1>4. Range(a \o b) = Range(a) \cup Range(b)
    BY <1>1, RangeConcatenation
<1> QED
    BY <1>1, <1>3, <1>4, TasksJoin DEF n

LEMMA VisitsAreTasks ==
    ASSUME NEW q, NEW line \in Line, Entered(q, line), NEW left, left \subseteq CallRow,
           left \subseteq RowAt(line).calls
    PROVE  /\ ToVisit(line, left) \in WalkTasks(q)
           /\ Range(ToVisit(line, left)) =
                  IF left = {} THEN {} ELSE {[what |-> "children", line |-> line, left |-> left]}
<1>1. CASE left = {}
    BY <1>1, NoTasks DEF ToVisit
<1>2. CASE left # {}
    <2> DEFINE task == [what |-> "children", line |-> line, left |-> left]
    <2>1. task.what = "children" /\ task.line = line /\ task.left = left
        OBVIOUS
    <2>3. task \in WalkTask(q)
        BY <2>1 DEF WalkTask, Task, Kinds
    <2>4. ToVisit(line, left) = <<task>>
        BY <1>2 DEF ToVisit
    <2> HIDE DEF task
    <2>5. <<task>> \in Seq(WalkTask(q)) /\ \A i \in 1 .. Len(<<task>>) : <<task>>[i] = task
        BY <2>3
    <2>6. Range(<<task>>) = {task}
        BY <2>3, RangeOfFew
    <2> QED
        BY <1>2, <2>1, <2>4, <2>5, <2>6 DEF WalkTasks, task
<1> QED
    BY <1>1, <1>2

LEMMA TasksInsert ==
    ASSUME NEW q, NEW others \in WalkTasks(q), NEW visits \in WalkTasks(q),
           AfterCalls(q.view) <= Len(others)
    PROVE  LET n == AfterCalls(q.view)
               todo == SubSeq(others, 1, n) \o visits \o SubSeq(others, n + 1, Len(others))
           IN  todo \in WalkTasks(q) /\ Range(todo) = Range(others) \cup Range(visits)
<1> DEFINE T == WalkTask(q)  n == AfterCalls(q.view)
           a == SubSeq(others, 1, n)
           b == SubSeq(others, n + 1, Len(others))
<1>1. /\ others \in Seq(T) /\ visits \in Seq(T)
      /\ \A i \in 1 .. Len(others) : others[i].what = "calls" => i + n <= Len(others)
    BY DEF WalkTasks
<1>2. n \in Nat /\ Len(others) \in Nat /\ n <= Len(others)
    BY <1>1 DEF AfterCalls
<1>3. \A i \in 1 .. Len(others) : others[i] \in T
    BY <1>1, ElementOfSeq
<1>4. a \in Seq(T) /\ Len(a) = n /\ \A i \in 1 .. n : a[i] = others[i]
    <2>0. \A i \in 1 .. n : others[i] \in T
        BY <1>2, <1>3
    <2>1. /\ a \in Seq(T) /\ Len(a) = (IF 1 <= n THEN n - 1 + 1 ELSE 0)
          /\ \A i \in 1 .. n - 1 + 1 : a[i] = others[1 + i - 1]
        <3> HIDE DEF T, n
        <3> QED
            BY <1>2, <2>0, SubSeqProperties
    <2> HIDE DEF T, n, a
    <2> QED
        BY <1>2, <2>1
<1>5. /\ b \in Seq(T) /\ Len(b) = Len(others) - n
      /\ \A i \in 1 .. Len(others) - n : b[i] = others[n + i]
    <2>0. \A i \in n + 1 .. Len(others) : others[i] \in T
        BY <1>2, <1>3
    <2>1. /\ b \in Seq(T)
          /\ Len(b) = (IF n + 1 <= Len(others) THEN Len(others) - (n + 1) + 1 ELSE 0)
          /\ \A i \in 1 .. Len(others) - (n + 1) + 1 : b[i] = others[n + 1 + i - 1]
        <3> HIDE DEF T, n
        <3> QED
            BY <1>2, <2>0, SubSeqProperties
    <2> HIDE DEF T, n, b
    <2> QED
        BY <1>2, <2>1
<1>6. b \in WalkTasks(q)
    <2> HIDE DEF a, b, n, T
    <2>1. ASSUME NEW i \in 1 .. Len(b), b[i].what = "calls"
          PROVE  i + n <= Len(b)
        <3>1. n + i \in 1 .. Len(others) /\ b[i] = others[n + i]
            BY <1>2, <1>5
        <3>2. (n + i) + n <= Len(others)
            BY <1>1, <2>1, <3>1
        <3> QED
            BY <1>2, <1>5, <3>2
    <2> QED
        BY <1>5, <2>1 DEF WalkTasks, T, n
<1> DEFINE c == visits \o b
<1>7. c \in WalkTasks(q) /\ Len(c) = Len(visits) + Len(b)
    <2> HIDE DEF b, n, T
    <2> QED
        BY <1>6, TasksAdd
<1>8. Len(visits) \in Nat
    BY <1>1
<1>9. a \o c = a \o visits \o b
    <2>1. a \in Seq(T) /\ visits \in Seq(T) /\ b \in Seq(T)
        BY <1>1, <1>4, <1>5
    <2> HIDE DEF a, b, T, n
    <2> QED
        BY <2>1, ConcatAssociative DEF c
<1> HIDE DEF c
<1>10. \A i \in 1 .. Len(a) : a[i].what = "calls" => i + n <= Len(a) + Len(c)
    <2> HIDE DEF a, b, n, T
    <2>1. Len(a) = n /\ Len(others) <= Len(a) + Len(c)
        BY <1>2, <1>4, <1>5, <1>7, <1>8
    <2>2. \A i \in 1 .. n : i \in 1 .. Len(others) /\ a[i] = others[i]
        BY <1>2, <1>4
    <2>3. ASSUME NEW i \in 1 .. n, a[i].what = "calls"
          PROVE  i + n <= Len(a) + Len(c)
        <3>1. i + n <= Len(others)
            BY <1>1, <2>2, <2>3
        <3> QED
            BY <1>2, <1>5, <1>7, <1>8, <2>1, <3>1
    <2> QED
        BY <2>1, <2>3
<1>11. a \o c \in WalkTasks(q)
    <2>1. a \in Seq(WalkTask(q))
        BY <1>4
    <2> HIDE DEF a
    <2> QED
        BY <1>7, <1>10, <2>1, TasksJoin
<1>12. Range(a \o visits \o b) = Range(others) \cup Range(visits)
    <2> HIDE DEF T, n
    <2> QED
        BY <1>1, <1>2, RangeWithMore
<1> QED
    BY <1>9, <1>11, <1>12

-----------------------------------------------------------------------------
(* A handler that ends, or reads what decides nothing *)

Good(d) == Rows /\ HandlerInv(d)
Errors == {400, 404, 405, 500, 502}

LEMMA NoNodeFacts ==
    /\ NoNode = [x \in NodeFields |-> NoNode[x]]
    /\ NoNode.line \in Line /\ NoNode.carriers \subseteq Carrier
<1>1. NoNode = [x \in NodeFields |-> NoNode[x]] /\ NoNode.line = <<>> /\ NoNode.carriers = {}
    BY DEF NodeFields, NoNode
<1>2. <<>> \in Line
    BY EmptySeq, EntryFacts
<1> QED
    BY <1>1, <1>2

LEMMA ConcludedFields ==
    ASSUME NEW d, d = [x \in HandlerFields |-> d[x]], NEW status
    PROVE  LET e == Concluded(d, status)
           IN  /\ e = [x \in HandlerFields |-> e[x]]
               /\ e.at = "respond" /\ e.q = d.q /\ e.shown = d.shown /\ e.node = NoNode
               /\ e.answer = d.answer /\ e.status = status /\ e.todo = <<>>
               /\ e.connection = IF d.connection = "open" THEN "closed" ELSE d.connection
BY DEF HandlerFields, Concluded

LEMMA ConcludedFacts ==
    ASSUME NEW d, Types(d), d.at \in {"asked", "read"}, NEW status \in {200} \cup Errors
    PROVE  LET e == Concluded(d, status)
               f == Failed(d, status)
           IN  /\ Types(e) /\ e.at = "respond" /\ e.q = d.q /\ e.shown = d.shown
               /\ e.answer = d.answer /\ e.status = status
               /\ Types(f) /\ f.at = "respond" /\ f.q = d.q /\ f.shown = {}
               /\ f.status = status
<1> DEFINE e == Concluded(d, status)
           f == Failed(d, status)
<1>0. /\ d = [x \in HandlerFields |-> d[x]]
      /\ d.connection \in {"none", "open", "closed"} /\ d.shown \subseteq Shown
    BY TypesAre, AtWork
<1>1. /\ e = [x \in HandlerFields |-> e[x]]
      /\ e.at = "respond" /\ e.q = d.q /\ e.shown = d.shown /\ e.node = NoNode
      /\ e.answer = d.answer /\ e.status = status /\ e.todo = <<>>
      /\ e.connection = IF d.connection = "open" THEN "closed" ELSE d.connection
    BY <1>0, ConcludedFields
<1>2. f = [e EXCEPT !.shown = {}]
    BY DEF Failed
<1> HIDE DEF e, f
<1>3. IsNode(e.node)
    BY <1>1, NoNodeFacts DEF IsNode
<1>4. Types(e)
    <2>1. e.at \in {"respond"} /\ e.status \in {0, 200, 400, 404, 405, 500, 502} /\ e.todo = <<>>
        BY <1>1 DEF Errors
    <2>2. e.connection \in {"none", "closed"} /\ e.connection # "open"
        BY <1>0, <1>1
    <2> QED
        BY <1>0, <1>1, <1>3, <2>1, <2>2, TypesKept
<1>5. Types(f) /\ f.at = "respond" /\ f.q = d.q /\ f.shown = {} /\ f.status = status
    <2>1. /\ f = [x \in HandlerFields |-> f[x]]
          /\ f.at = e.at /\ f.q = e.q /\ f.shown = {} /\ f.node = e.node
          /\ f.status = e.status /\ f.todo = e.todo /\ f.connection = e.connection
        BY <1>1, <1>2 DEF HandlerFields
    <2>2. /\ e.status \in {0, 200, 400, 404, 405, 500, 502} /\ e.todo = <<>>
          /\ e.connection \in {"none", "open", "closed"} /\ e.connection # "open"
        BY <1>0, <1>1, <1>4, TypesAre
    <2>3. f.at = "respond"
        BY <1>1, <2>1
    <2>4. Types(f)
        BY <1>3, <2>1, <2>2, <2>3, TypesKept
    <2> QED
        BY <1>1, <2>1, <2>4
<1> QED
    BY <1>1, <1>4, <1>5 DEF e, f

LEMMA ErrorsAreGood ==
    ASSUME NEW d, Good(d), d.at \in {"asked", "read"}, NEW status \in Errors
    PROVE  Good(Concluded(d, status)) /\ Good(Failed(d, status))
<1>1. Types(d) /\ Rows
    BY DEF Good, HandlerInv
<1> DEFINE e == Concluded(d, status)
           f == Failed(d, status)
<1>2. /\ Types(e) /\ e.at = "respond" /\ e.status # 200
      /\ Types(f) /\ f.at = "respond" /\ f.status # 200
    BY <1>1, ConcludedFacts DEF Errors
<1> HIDE DEF e, f
<1>3. Good(e) /\ Good(f)
    BY <1>1, <1>2 DEF Good, HandlerInv
<1> QED
    BY <1>3 DEF e, f

(* Whatever has been read, an answer without a walk or a verdict is good. *)
LEMMA OthersAreGood ==
    ASSUME NEW d, Good(d), NEW e, Types(e), e.at \in {"respond", "answered"}, e.q = d.q,
           ~ Walks(d), ~ AsksVerdict(d)
    PROVE  Good(e)
BY DEF Good, HandlerInv, Walks, AsksVerdict

LEMMA RefuseIsGood ==
    ASSUME Good(h), Refuse
    PROVE  Good(h')
<1>1. \A status \in Errors : Good(Concluded(h, status))
    BY ErrorsAreGood DEF Refuse
<1> QED
    BY <1>1 DEF Refuse, Becomes, Errors

LEMMA ServeFileIsGood ==
    ASSUME Good(h), ServeFile
    PROVE  Good(h')
<1>1. \E status \in {200} \cup Errors : h' = Concluded(h, status)
    BY DEF ServeFile, Becomes, Errors
<1>2. Types(h) /\ h.at = "asked" /\ ~ Walks(h) /\ ~ AsksVerdict(h)
    BY DEF ServeFile, Walks, WalkViews, AsksVerdict, Good, HandlerInv
<1> QED
    BY <1>1, <1>2, ConcludedFacts, OthersAreGood

LEMMA LoseDatabaseIsGood ==
    ASSUME Good(h), LoseDatabase
    PROVE  Good(h')
<1>1. Good(Failed(h, 502))
    BY ErrorsAreGood DEF Errors, LoseDatabase
<1> QED
    BY <1>1 DEF LoseDatabase, Becomes

LEMMA RespondIsGood ==
    ASSUME Good(h), Respond
    PROVE  Good(h')
<1>1. h.at = "respond" /\ Types(h) /\ Rows
    BY DEF Respond, Good, HandlerInv
<1>9. /\ h.connection \in {"none", "unchecked", "closed"}
      /\ h.connection = "unchecked" => h.status \in {0, 502}
    BY <1>1, TypesAre DEF ConnectionFits
<1>2. ASSUME NEW status \in {0} \cup Errors, status \in {0, h.status}
      PROVE  Good(Bare(status))
    <2> DEFINE e == Bare(status)
    <2>1. /\ e = [x \in HandlerFields |-> e[x]]
          /\ e.at = "answered" /\ e.status = status /\ e.node = NoNode /\ e.shown = {}
          /\ e.connection = h.connection /\ e.todo = <<>>
        BY DEF HandlerFields, Bare, Waiting
    <2>2. /\ e.node = [x \in NodeFields |-> e.node[x]]
          /\ e.node.line \in Line /\ e.node.carriers \subseteq Carrier
        BY <2>1, NoNodeFacts
    <2> HIDE DEF e
    <2>3. Types(e)
        <3>1. e.status \in {0, 200, 400, 404, 405, 500, 502}
            BY <2>1 DEF Errors
        <3>2. ConnectionFits(e) /\ e.at \in {"answered"} /\ e.shown \subseteq Shown
            BY <1>2, <1>9, <2>1 DEF ConnectionFits
        <3> QED
            BY <2>1, <2>2, <3>1, <3>2 DEF Types
    <2>4. Good(e)
        BY <1>1, <2>1, <2>3 DEF Good, HandlerInv, Errors
    <2> QED
        BY <2>4 DEF e
<1>3. ASSUME h.status = 200
      PROVE  Good([h EXCEPT !.at = "answered"])
    <2> DEFINE e == [h EXCEPT !.at = "answered"]
    <2>1. /\ Types(e) /\ e.at = "answered" /\ e.status = h.status /\ e.q = h.q
          /\ e.shown = h.shown /\ e.answer = h.answer
        BY <1>1 DEF Types, HandlerFields, ConnectionFits
    <2> HIDE DEF e
    <2>2. Good(e)
        BY <1>1, <1>3, <2>1 DEF Good, HandlerInv, Walks, AsksVerdict
    <2> QED
        BY <2>2 DEF e
<1>4. h.status \in {0, 200} \cup Errors
    BY <1>1 DEF Types, Errors
<1>5. \/ h.status = 200 /\ h' = [h EXCEPT !.at = "answered"]
      \/ h.status # 200 /\ h' = Bare(h.status)
      \/ h' = Bare(0)
    BY DEF Respond, Becomes
<1> QED
    BY <1>2, <1>3, <1>4, <1>5

LEMMA WithTodo ==
    ASSUME NEW d, Types(d), d.at = "read", NEW todo
    PROVE  LET e == [d EXCEPT !.todo = todo]
           IN  /\ Types(e) /\ e.at = "read" /\ e.q = d.q /\ e.node = d.node
               /\ e.shown = d.shown /\ e.todo = todo
BY DEF Types, HandlerFields, ConnectionFits

LEMMA DoneFacts ==
    ASSUME NEW d, Types(d), d.at = "read"
    PROVE  LET e == Done1(d)
           IN  /\ Types(e) /\ e.at = "read" /\ e.q = d.q /\ e.node = d.node
               /\ e.shown = d.shown /\ e.todo = Tail(d.todo)
<1> DEFINE todo == Tail(d.todo)
<1>1. Done1(d) = [d EXCEPT !.todo = todo]
    BY DEF Done1
<1> HIDE DEF todo
<1>2. LET e == [d EXCEPT !.todo = todo]
      IN  /\ Types(e) /\ e.at = "read" /\ e.q = d.q /\ e.node = d.node
          /\ e.shown = d.shown /\ e.todo = todo
    BY WithTodo
<1> QED
    BY <1>1, <1>2 DEF todo

LEMMA WithShown ==
    ASSUME NEW d, Types(d), d.at = "read", NEW line \in Line,
           NEW state \in States \cup {"not_found", "cycle_detected", "truncated"}
    PROVE  LET e == Show(d, line, state)
           IN  /\ Types(e) /\ e.at = "read" /\ e.q = d.q /\ e.todo = d.todo
               /\ e.shown = d.shown \cup {[line |-> line, state |-> state]}
<1> DEFINE s == [line |-> line, state |-> state]
           e == Show(d, line, state)
<1>1. e = [d EXCEPT !.shown = @ \cup {s}] /\ s \in Shown
    BY DEF Show, Shown
<1> HIDE DEF s, e
<1>2. Types(e) /\ e.at = "read" /\ e.q = d.q /\ e.todo = d.todo /\ e.shown = d.shown \cup {s}
    <2>0. d = [x \in HandlerFields |-> d[x]]
        BY TypesAre
    <2>9. /\ IsNode(d.node) /\ d.connection = "open"
          /\ d.status \in {0, 200, 400, 404, 405, 500, 502} /\ d.shown \subseteq Shown
        BY TypesAre DEF ConnectionFits
    <2>4. e = [x \in HandlerFields |-> e[x]]
        BY <1>1, <2>0
    <2>1. /\ e.at = d.at /\ e.q = d.q /\ e.todo = d.todo /\ e.shown = d.shown \cup {s}
          /\ e.node = d.node /\ e.connection = d.connection /\ e.status = d.status
        BY <1>1, <2>0 DEF HandlerFields
    <2>2. /\ e.shown \subseteq Shown /\ e.at = "read" /\ e.connection = "open" /\ IsNode(e.node)
          /\ e.status \in {0, 200, 400, 404, 405, 500, 502}
        BY <1>1, <2>1, <2>9
    <2>3. Types(e)
        BY <2>2, <2>4, TypesKept
    <2> QED
        BY <2>1, <2>2, <2>3
<1> QED
    BY <1>2 DEF s, e

-----------------------------------------------------------------------------
(* What comes first *)

LEMMA WalkHead ==
    ASSUME Good(h), h.at = "read", Walks(h)
    PROVE  /\ Rows /\ Types(h) /\ ~ AsksVerdict(h)
           /\ h.q.key \in Entry /\ h.q.depth \in Int /\ h.q.depth >= 1
           /\ ShownRightly(h.q, h.shown) /\ Owed(h)
           /\ h.todo \in WalkTasks(h.q)
           /\ h.todo # <<>> =>
                 /\ Head(h.todo) \in WalkTask(h.q) /\ Tail(h.todo) \in WalkTasks(h.q)
                 /\ Range(h.todo) = {Head(h.todo)} \cup Range(Tail(h.todo))
<1>1. WalkGoesWell(h) /\ Rows /\ Types(h) /\ Proper(h.q)
    BY DEF Good, HandlerInv
<1>2. h.q.view \in WalkViews /\ ~ AsksVerdict(h)
    BY DEF Walks, AsksVerdict, WalkViews
<1> QED
    BY <1>1, <1>2, TasksGoOn DEF WalkGoesWell, Proper

LEMMA WalkGoesOn ==
    ASSUME Good(h), h.at = "read", Walks(h), NEW e, Types(e), e.at = "read", e.q = h.q,
           e.todo \in WalkTasks(h.q), ShownRightly(h.q, e.shown), Owed(e)
    PROVE  Good(e)
<1>1. WalkGoesWell(e)
    BY WalkHead DEF WalkGoesWell
<1> QED
    BY <1>1 DEF Good, HandlerInv, Walks, AsksVerdict, WalkViews

LEMMA DescentHead ==
    ASSUME Good(h), h.at = "read", AsksVerdict(h), h.todo # <<>>
    PROVE  LET line == h.node.line  what == Head(h.todo).what
               operations == Read("operations", line)
               checkpoints == Read("checkpoints", line)
           IN  /\ what \in {"row", "clock", "operations", "checkpoints", "called", "children"}
               /\ what = "row" => Tail(h.todo) = <<>> /\ Follows(Head(h.todo).line)
               /\ what \in {"clock", "operations", "checkpoints"} => AtNode(h)
               /\ what = "clock" => Tail(h.todo) = <<operations, checkpoints>>
               /\ what = "operations" => Tail(h.todo) = <<checkpoints>>
               /\ what \in {"called", "children"} => GoesBelow(h)
               /\ what = "children" =>
                     /\ h.todo = ToVisit(line, Left(h.todo))
                     /\ Left(h.todo) \subseteq RowAt(line).calls
                     /\ Unfinished(line) \subseteq Left(h.todo)
<1>1. Descends(h)
    BY DEF Good, HandlerInv
<1> DEFINE line == h.node.line
           clock == Read("clock", line)
           operations == Read("operations", line)
           checkpoints == Read("checkpoints", line)
<1>0. /\ clock.what = "clock" /\ operations.what = "operations" /\ checkpoints.what = "checkpoints"
      /\ Read("called", line).what = "called"
      /\ \A l : Read("row", l).what = "row" /\ Read("row", l).line = l
    BY DEF Read
<1>2. CASE h.todo = <<Read("row", Head(h.todo).line)>> /\ Follows(Head(h.todo).line)
    <2> DEFINE row == Read("row", Head(h.todo).line)
    <2>1. row.what = "row"
        BY <1>0
    <2> HIDE DEF row
    <2>2. h.todo = <<row>>
        BY <1>2 DEF row
    <2>3. Head(h.todo) = row /\ Tail(h.todo) = <<>>
        BY <2>2
    <2>4. Follows(Head(h.todo).line)
        BY <1>2
    <2> QED
        BY <2>1, <2>3, <2>4
<1> HIDE DEF clock, operations, checkpoints
<1>3. CASE AtNode(h) /\ h.todo = <<clock, operations, checkpoints>>
    <2>1. Head(h.todo) = clock /\ Tail(h.todo) = <<operations, checkpoints>>
        BY <1>3
    <2> QED
        BY <1>0, <1>3, <2>1 DEF clock, operations, checkpoints
<1>4. CASE AtNode(h) /\ h.todo = <<operations, checkpoints>>
    <2>1. Head(h.todo) = operations /\ Tail(h.todo) = <<checkpoints>>
        BY <1>4
    <2> QED
        BY <1>0, <1>4, <2>1 DEF clock, operations, checkpoints
<1>5. CASE AtNode(h) /\ h.todo = <<checkpoints>>
    <2>1. Head(h.todo) = checkpoints
        BY <1>5
    <2> QED
        BY <1>0, <1>5, <2>1 DEF clock, operations, checkpoints
<1>6. CASE GoesBelow(h) /\ h.todo = <<Read("called", line)>>
    <2>1. Head(h.todo) = Read("called", line)
        BY <1>6
    <2>2. Head(h.todo).what = "called"
        BY <1>0, <2>1
    <2> QED
        BY <1>6, <2>2
<1>7. CASE /\ GoesBelow(h)
           /\ h.todo = ToVisit(line, Left(h.todo))
           /\ Left(h.todo) \subseteq RowAt(line).calls
           /\ Unfinished(line) \subseteq Left(h.todo)
    <2>1. Head(h.todo).what = "children"
        BY <1>7 DEF ToVisit
    <2> QED
        BY <1>7, <2>1
<1> QED
    BY <1>1, <1>2, <1>3, <1>4, <1>5, <1>6, <1>7 DEF Descends, clock, operations, checkpoints

(* Who is reading. *)
LEMMA OnceHead ==
    ASSUME Good(h), h.at = "read", ~ Walks(h), ~ AsksVerdict(h)
    PROVE  /\ h.todo # <<>>
           /\ Head(h.todo).what = "clock" \/ Head(h.todo).what = "summaries"
<1>1. AsksOnce(h)
    BY DEF Good, HandlerInv
<1> DEFINE clock == Read("clock", <<>>)  summaries == Read("summaries", <<>>)
<1>2. clock.what = "clock" /\ summaries.what = "summaries"
    BY DEF Read
<1>3. h.todo = <<clock>> \/ h.todo = <<summaries>>
    BY <1>1 DEF AsksOnce
<1> HIDE DEF clock, summaries
<1>4. \A t : <<t>> # <<>> /\ Head(<<t>>) = t
    OBVIOUS
<1> QED
    BY <1>2, <1>3, <1>4

LEMMA ReaderIs ==
    ASSUME Good(h), h.at = "read", h.todo # <<>>
    PROVE  LET what == Head(h.todo).what
           IN  /\ what \in {"plan", "args", "events", "calls", "merged events"} => Walks(h)
               /\ what = "called" => AsksVerdict(h)
               /\ what \in {"row", "operations", "checkpoints", "children"} => Walks(h) \/ AsksVerdict(h)
               /\ what = "clock" => ~ Walks(h)
               /\ what = "summaries" => ~ Walks(h) /\ ~ AsksVerdict(h)
BY WalkHead, DescentHead, OnceHead DEF WalkTask

LEMMA DescentGoesOn ==
    ASSUME Good(h), AsksVerdict(h), h.at = "read", NEW e, Types(e), e.at = "read", e.q = h.q, Descends(e)
    PROVE  Good(e)
BY DEF Good, HandlerInv, Walks, AsksVerdict, WalkViews

(* Of a node, only its line and its state are remembered. *)
LEMMA SameNode ==
    ASSUME NEW d, NEW e, e.node.line = d.node.line, e.node.state = d.node.state
    PROVE  (AtNode(d) => AtNode(e)) /\ (GoesBelow(d) => GoesBelow(e))
BY DEF AtNode, GoesBelow

-----------------------------------------------------------------------------
(* Requests *)

LEMMA FirstReadsFacts ==
    ASSUME NEW q, q.key \in Entry
    PROVE  LET todo == FirstReads(q)  row == Read("row", <<q.key>>)
           IN  /\ q.view \in WalkViews => todo \in WalkTasks(q) /\ row \in Range(todo)
               /\ q.view = "stuck" => todo = <<row>>
<1> DEFINE todo == FirstReads(q)
           row == Read("row", <<q.key>>)
           merged == Read("merged events", <<>>)
           T == WalkTask(q)
<1>1. merged \in T /\ merged.what # "calls" /\ row \in T /\ row.what # "calls"
    <2>1. <<>> \in Line /\ <<q.key>> \in Line
        BY NoNodeFacts, LineBegins DEF NoNode
    <2> QED
        BY <2>1 DEF Read, WalkTask, Task, Kinds
<1> HIDE DEF row, merged
<1>2. CASE q.view = "timeline"
    <2>1. todo = <<row, merged>>
        BY <1>2 DEF FirstReads, row, merged
    <2>2. todo \in Seq(T) /\ Len(todo) = 2 /\ todo[1] = row /\ todo[2] = merged
        <3> HIDE DEF T, todo
        <3> QED
            BY <1>1, <2>1
    <2> HIDE DEF todo
    <2>3. todo \in WalkTasks(q)
        <3>1. \A i \in 1 .. Len(todo) : todo[i] \in {row, merged}
            BY <2>2
        <3>2. \A i \in 1 .. Len(todo) : todo[i].what # "calls"
            BY <1>1, <3>1
        <3> QED
            BY <2>2, <3>2 DEF WalkTasks
    <2>4. row \in Range(todo)
        <3>1. Range(todo) = {todo[i] : i \in 1 .. Len(todo)}
            BY <2>2, RangeEquality
        <3> QED
            BY <2>2, <3>1
    <2> QED
        BY <1>2, <2>3, <2>4 DEF todo, row
<1>3. CASE q.view \in {"inspect", "tree", "stuck"}
    <2>1. todo = <<row>>
        BY <1>3 DEF FirstReads, row
    <2>2. todo \in Seq(T) /\ Len(todo) = 1 /\ todo[1] = row
        <3> HIDE DEF T, todo
        <3> QED
            BY <1>1, <2>1
    <2>3. Range(todo) = {row}
        BY <1>1, <2>1, RangeOfFew
    <2> HIDE DEF todo
    <2>4. todo \in WalkTasks(q)
        <3>1. \A i \in 1 .. Len(todo) : todo[i].what # "calls"
            BY <1>1, <2>2
        <3> QED
            BY <2>2, <3>1 DEF WalkTasks
    <2> QED
        BY <1>3, <2>1, <2>3, <2>4 DEF row, todo
<1> QED
    BY <1>2, <1>3 DEF WalkViews

LEMMA ConnectIsGood ==
    ASSUME Good(h), Connect
    PROVE  Good(h')
<1> DEFINE e == [h EXCEPT !.at = "read", !.connection = "open", !.todo = FirstReads(h.q)]
           c == [h EXCEPT !.connection = "closed"]
           u == [h EXCEPT !.connection = "unchecked"]
           q == h.q
<1>1. /\ Types(h) /\ h.at = "asked" /\ h.shown = {} /\ Rows /\ Proper(q)
      /\ Walks(h) \/ AsksVerdict(h) => q.depth >= 1
    BY DEF Connect, Good, HandlerInv, Walks, AsksVerdict, WalkViews
<1>2. Good(Failed(h, 502))
    BY <1>1, ErrorsAreGood DEF Errors
<1>3. Good(Failed(c, 502))
    <2>0. h = [x \in HandlerFields |-> h[x]]
        BY <1>1, TypesAre
    <2>9. IsNode(h.node) /\ h.todo = <<>> /\ h.status \in {0, 200, 400, 404, 405, 500, 502}
        BY <1>1, TypesAre
    <2>4. c = [x \in HandlerFields |-> c[x]]
        BY <2>0
    <2>1. /\ c.at = h.at /\ c.shown = h.shown
          /\ c.q = h.q /\ c.node = h.node /\ c.todo = h.todo /\ c.status = h.status
          /\ c.connection = "closed"
        BY <2>0 DEF HandlerFields
    <2> HIDE DEF c
    <2>5. c.at = "asked" /\ c.shown = {} /\ c.todo = <<>> /\ IsNode(c.node)
        BY <1>1, <2>1, <2>9
    <2>7. c.status \in {0, 200, 400, 404, 405, 500, 502} /\ c.shown \subseteq Shown
        BY <2>1, <2>5, <2>9
    <2>6. Types(c)
        BY <2>1, <2>4, <2>5, <2>7, TypesKept
    <2>3. Types(c) /\ c.at = "asked" /\ c.shown = {} /\ c.q = h.q
        BY <2>1, <2>5, <2>6
    <2>2. Good(c)
        BY <1>1, <2>3 DEF Good, HandlerInv, Walks, AsksVerdict
    <2> QED
        BY <2>2, <2>3, ErrorsAreGood DEF Errors
<1>5. Good(Failed(u, 502))
    <2> DEFINE f == Failed(u, 502)
    <2>1. h = [x \in HandlerFields |-> h[x]] /\ Rows
        BY <1>1, TypesAre
    <2>8. /\ u = [x \in HandlerFields |-> u[x]] /\ u.connection = "unchecked"
        BY <2>1 DEF HandlerFields
    <2> HIDE DEF u
    <2> DEFINE e1 == Concluded(u, 502)
    <2>9. /\ e1 = [x \in HandlerFields |-> e1[x]]
          /\ e1.at = "respond" /\ e1.status = 502 /\ e1.connection = "unchecked"
          /\ e1.node = NoNode /\ e1.todo = <<>>
        BY <2>8, ConcludedFields
    <2>10. f = [e1 EXCEPT !.shown = {}]
        BY DEF Failed
    <2> HIDE DEF e1, f
    <2>2. /\ f = [x \in HandlerFields |-> f[x]]
          /\ f.at = "respond" /\ f.status = 502 /\ f.connection = "unchecked"
          /\ f.node = NoNode /\ f.shown = {} /\ f.todo = <<>>
        BY <2>9, <2>10 DEF HandlerFields
    <2>3. f.node = [x \in NodeFields |-> f.node[x]] /\ f.node.line \in Line
          /\ f.node.carriers \subseteq Carrier
        BY <2>2, NoNodeFacts
    <2>4. ConnectionFits(f) /\ f.shown \subseteq Shown
        BY <2>2 DEF ConnectionFits
    <2>5. f.at \in {"respond"} /\ f.status \in {502}
        BY <2>2
    <2>6. Types(f)
        BY <2>2, <2>3, <2>4, <2>5 DEF Types
    <2>7. Good(f)
        BY <2>1, <2>2, <2>6 DEF Good, HandlerInv
    <2> QED
        BY <2>7 DEF f
<1>4. Good(e)
    <2>9. /\ h = [x \in HandlerFields |-> h[x]] /\ IsNode(h.node)
          /\ h.status \in {0, 200, 400, 404, 405, 500, 502}
        BY <1>1, TypesAre DEF Good, HandlerInv
    <2>8. e = [x \in HandlerFields |-> e[x]]
        BY <2>9
    <2>0. /\ e.at = "read" /\ e.q = h.q /\ e.shown = {} /\ e.todo = FirstReads(q)
          /\ e.connection = "open" /\ e.node = h.node /\ e.status = h.status
        BY <1>1, <2>9 DEF HandlerFields
    <2>1. Types(e) /\ e.at = "read" /\ e.q = h.q /\ e.shown = {} /\ e.todo = FirstReads(q)
        <3> HIDE DEF e
        <3>1. e.at \in {"read"} /\ e.connection \in {"open"} /\ e.shown \subseteq Shown
            BY <2>0
        <3> QED
            BY <2>0, <2>8, <2>9, <3>1, TypesKept
    <2> HIDE DEF e
    <2>2. CASE Walks(h)
        <3>1. /\ e.todo \in WalkTasks(q) /\ Read("row", <<q.key>>) \in Range(e.todo)
              /\ q.view \in WalkViews
            BY <1>1, <2>1, <2>2, FirstReadsFacts DEF Walks, Proper
        <3>2. Owed(e)
            BY <3>1 DEF Owed, Awaited, Read
        <3>3. WalkGoesWell(e)
            BY <1>1, <2>1, <2>2, <3>1, <3>2 DEF WalkGoesWell, ShownRightly
        <3> QED
            BY <1>1, <2>1, <3>1, <3>3 DEF Good, HandlerInv, Walks, AsksVerdict, WalkViews
    <2>3. CASE AsksVerdict(h)
        <3> DEFINE k == q.key  row == Read("row", <<k>>)
        <3>1. q.view = "stuck" /\ k \in Entry
            BY <1>1, <2>3 DEF AsksVerdict, Proper
        <3>2. e.todo = <<row>>
            BY <2>1, <3>1, FirstReadsFacts
        <3>3. row.line = <<k>> /\ Head(<<row>>) = row /\ <<row>> # <<>>
            BY DEF Read
        <3>4. Head(e.todo).line = <<k>> /\ e.todo # <<>>
            BY <3>2, <3>3
        <3>5. Follows(<<k>>)
            BY <3>1, LineBegins DEF Follows
        <3>6. Descends(e)
            BY <3>2, <3>4, <3>5 DEF Descends
        <3> QED
            BY <1>1, <2>1, <3>1, <3>6 DEF Good, HandlerInv, Walks, AsksVerdict, WalkViews
    <2>4. CASE ~ Walks(h) /\ ~ AsksVerdict(h)
        <3>1. q.view \in {"health", "search"}
            BY <2>4 DEF Connect, Walks, AsksVerdict
        <3>2. AsksOnce(e)
            BY <2>1, <3>1 DEF AsksOnce, FirstReads
        <3> QED
            BY <1>1, <2>1, <2>4, <3>2 DEF Good, HandlerInv, Walks, AsksVerdict
    <2> QED
        BY <2>2, <2>3, <2>4
<1> QED
    BY <1>2, <1>3, <1>4, <1>5 DEF Connect, Becomes

LEMMA RequestFacts ==
    ASSUME NEW q \in Requests
    PROVE  Proper(q)
<1>1. \A v : /\ ForView(v).view = v
             /\ \A k, d : ForWorkflow(v, k, d).key = k /\ ForWorkflow(v, k, d).depth = d
    BY DEF ForView, ForWorkflow, ARequest
<1>2. \A f : ForSearch(f).view = "search" /\ ForFile(f).view = "static"
    BY DEF ForView, ForSearch, ForFile, ARequest
<1>3. \/ \E v : \E w \in Ids, c \in Spellings, d \in Depths : q = ForWorkflow(v, Key(w, c), d)
      \/ \E f : q = ForSearch(f) \/ q = ForFile(f)
      \/ \E v \in {"health", "unknown", "mutate"} : q = ForView(v)
    BY DEF Requests
<1>4. \A w \in Ids, c \in Spellings : Key(w, c) \in Entry
    BY VizAssumption DEF Key, Entry
<1>5. Depths \subseteq Int
    BY VizAssumption
<1> QED
    BY <1>1, <1>2, <1>3, <1>4, <1>5 DEF Proper, WalkViews

LEMMA WaitingFacts ==
    /\ Types(Waiting) /\ Waiting.at = "waiting"
    /\ \A q : /\ Types(Asked(q)) /\ Asked(q).at = "asked"
              /\ Asked(q).q = q /\ Asked(q).shown = {}
<1> DEFINE e == Waiting
<1>1. /\ e = [x \in HandlerFields |-> e[x]] /\ e.node = NoNode
      /\ e.at = "waiting" /\ e.shown = {} /\ e.connection = "none" /\ e.status = 0 /\ e.todo = <<>>
    BY DEF Waiting, HandlerFields
<1> HIDE DEF e
<1>2. /\ e.node = [x \in NodeFields |-> e.node[x]]
      /\ e.node.line \in Line /\ e.node.carriers \subseteq Carrier
    BY <1>1, NoNodeFacts
<1>3. e.at \in {"waiting"} /\ e.status \in {0} /\ e.connection \in {"none"} /\ e.shown \subseteq Shown
    BY <1>1
<1>4. Types(e)
    BY <1>1, <1>2, <1>3 DEF Types, ConnectionFits
<1>5. ASSUME NEW q
      PROVE  Types(Asked(q)) /\ Asked(q).at = "asked" /\ Asked(q).q = q /\ Asked(q).shown = {}
    <2> DEFINE d == [e EXCEPT !.at = "asked", !.q = q]
    <2>1. /\ d = [x \in HandlerFields |-> d[x]]
          /\ d.at = "asked" /\ d.q = q /\ d.shown = {}
          /\ d.connection = "none" /\ d.node = e.node /\ d.status = 0 /\ d.todo = <<>>
        BY <1>1 DEF HandlerFields
    <2>2. Types(d) /\ d.at = "asked" /\ d.q = q /\ d.shown = {}
        <3> HIDE DEF d
        <3>1. /\ d.at \in {"asked"} /\ d.connection \in {"none"} /\ d.shown \subseteq Shown
              /\ d.status \in {0}
            BY <2>1
        <3> QED
            BY <1>2, <2>1, <3>1 DEF Types, ConnectionFits
    <2> QED
        BY <2>2 DEF Asked, e
<1> QED
    BY <1>1, <1>4, <1>5 DEF e

LEMMA ReceiveIsGood ==
    ASSUME Good(h), NEW q \in Requests, Receive(q)
    PROVE  Good(h')
<1>1. Rows /\ h' = Asked(q)
    BY DEF Good, Receive, Becomes
<1>2. Types(h') /\ h'.at = "asked" /\ h'.q = q /\ h'.shown = {} /\ Proper(q)
    BY <1>1, WaitingFacts, RequestFacts
<1> QED
    BY <1>1, <1>2 DEF Good, HandlerInv

-----------------------------------------------------------------------------
(* Reads that show nothing *)

LEMMA PassesOver ==
    ASSUME Good(h), h.at = "read", Walks(h), h.todo # <<>>,
           Head(h.todo).what \notin {"row", "calls", "children"}
    PROVE  Good(Done1(h))
<1> DEFINE e == Done1(h)  task == Head(h.todo)
<1>1. /\ Types(h) /\ Owed(h) /\ ShownRightly(h.q, h.shown) /\ Tail(h.todo) \in WalkTasks(h.q)
      /\ Range(h.todo) = {task} \cup Range(Tail(h.todo))
    BY WalkHead
<1>2. Types(e) /\ e.at = "read" /\ e.q = h.q /\ e.shown = h.shown /\ e.todo = Tail(h.todo)
    BY <1>1, DoneFacts
<1> HIDE DEF e
<1>3. \A line : ~ Awaited(task, line)
    BY DEF Awaited
<1>4. Owed(e)
    BY <1>1, <1>2, <1>3 DEF Owed
<1>5. Good(e)
    BY <1>1, <1>2, <1>4, WalkGoesOn
<1> QED
    BY <1>5 DEF e

LEMMA ReadDetailIsGood ==
    ASSUME Good(h), ReadDetail
    PROVE  Good(h')
<1>1. h.at = "read" /\ h.todo # <<>> /\ Head(h.todo).what \in {"plan", "args", "events"}
    BY DEF ReadDetail, Reading, Next1
<1>2. Walks(h)
    BY <1>1, ReaderIs
<1>3. Good(Done1(h))
    BY <1>1, <1>2, PassesOver
<1> QED
    BY <1>3 DEF ReadDetail, Becomes

LEMMA ReadMergedEventsIsGood ==
    ASSUME Good(h), ReadMergedEvents
    PROVE  Good(h')
<1>1. h.at = "read" /\ h.todo # <<>> /\ Head(h.todo).what = "merged events"
    BY DEF ReadMergedEvents, Reading, Next1
<1>2. Walks(h)
    BY <1>1, ReaderIs
<1>3. Good(Done1(h))
    BY <1>1, <1>2, PassesOver
<1>6. h.at \in {"asked", "read"} /\ 502 \in Errors
    BY <1>1 DEF Errors
<1>5. Good(Failed(h, 502))
    BY <1>6, ErrorsAreGood
<1>4. h' = Done1(h) \/ h' = Failed(h, 502)
    BY DEF ReadMergedEvents, Becomes
<1> QED
    BY <1>3, <1>4, <1>5

LEMMA ReadSummariesIsGood ==
    ASSUME Good(h), ReadSummaries
    PROVE  Good(h')
<1> DEFINE found == {[line |-> <<Lower(w)>>, state |-> store[w].state] : w \in Found(h.q.filter)}
           c == Concluded(h, 200)
           e == [c EXCEPT !.shown = found]
<1>1. h.at = "read" /\ h.todo # <<>> /\ Head(h.todo).what = "summaries" /\ Types(h) /\ Rows
    BY DEF ReadSummaries, Reading, Next1, Good, HandlerInv
<1>2. ~ Walks(h) /\ ~ AsksVerdict(h)
    BY <1>1, ReaderIs
<1>3. Good(Failed(h, 400))
    BY <1>1, ErrorsAreGood DEF Errors
<1>4. found \subseteq Shown
    <2>1. ASSUME NEW w \in Found(h.q.filter)
          PROVE  [line |-> <<Lower(w)>>, state |-> store[w].state] \in Shown
        <3>1. w \in Ids
            BY VizAssumption DEF Found
        <3>2. store[w].state \in States
            BY <1>1, <3>1 DEF Rows, StoredRow
        <3>3. <<Lower(w)>> \in Line
            BY <3>1, EntryFacts, LineBegins
        <3> QED
            BY <3>2, <3>3 DEF Shown
    <2> QED
        BY <2>1
<1> HIDE DEF found
<1>5. Types(c) /\ c.at = "respond" /\ c.q = h.q
    BY <1>1, ConcludedFacts
<1> HIDE DEF c
<1>6. Types(e) /\ e.at = "respond" /\ e.q = h.q
    BY <1>4, <1>5 DEF Types, HandlerFields, ConnectionFits
<1> HIDE DEF e
<1>7. Good(e)
    BY <1>2, <1>6, OthersAreGood
<1>8. h' = Failed(h, 400) \/ h' = e
    BY DEF ReadSummaries, Becomes, e, c, found
<1> QED
    BY <1>3, <1>7, <1>8

LEMMA FinishWalkIsGood ==
    ASSUME Good(h), FinishWalk
    PROVE  Good(h')
<1> DEFINE e == Concluded(h, 200)
<1>1. h.at = "read" /\ h.todo = <<>> /\ Walks(h) /\ h' = e
    BY DEF FinishWalk, Becomes, Walks
<1>2. /\ Rows /\ Types(h) /\ ~ AsksVerdict(h) /\ ShownRightly(h.q, h.shown) /\ Owed(h)
    BY <1>1, WalkHead
<1>3. Types(e) /\ e.at = "respond" /\ e.q = h.q /\ e.shown = h.shown
    BY <1>1, <1>2, ConcludedFacts
<1> HIDE DEF e
<1>4. ASSUME NEW line \in Wanted(h.q)
      PROVE  [line |-> line, state |-> StateToShow(line, h.q.depth)] \in h.shown
    <2>1. PICK s \in h.shown : s.line = line
        BY <1>1, <1>2, NoTasks DEF Owed
    <2>4. h.shown \subseteq Shown
        BY <1>2, TypesAre
    <2>2. s \in Shown /\ s.state = StateToShow(line, h.q.depth)
        BY <1>2, <2>1, <2>4 DEF ShownRightly
    <2>3. s = [line |-> s.line, state |-> s.state]
        BY <2>2 DEF Shown
    <2> QED
        BY <2>1, <2>2, <2>3
<1>5. ASSUME NEW s \in h.shown
      PROVE  s \in ToShow(h.q)
    <2>1. s \in Shown /\ s.line \in Wanted(h.q) /\ s.state = StateToShow(s.line, h.q.depth)
        BY <1>2 DEF Types, ShownRightly
    <2>2. s = [line |-> s.line, state |-> s.state]
        BY <2>1 DEF Shown
    <2> QED
        BY <2>1, <2>2 DEF ToShow
<1>6. h.shown = ToShow(h.q)
    BY <1>4, <1>5 DEF ToShow
<1>7. Good(e)
    BY <1>1, <1>2, <1>3, <1>6 DEF Good, HandlerInv, Walks, AsksVerdict
<1> QED
    BY <1>1, <1>7

-----------------------------------------------------------------------------
(* Walks *)

LEMMA OneOrMore ==
    ASSUME NEW q, q.key \in Entry, q.depth \in Int, NEW line \in Wanted(q)
    PROVE  line = <<q.key>> \/ Extends(line, <<q.key>>)
<1> DEFINE k == q.key
<1>1. line \in Line /\ line # <<>> /\ line[1] = k
    BY WantedFacts
<1>2. line \in Seq(Entry) /\ Len(line) \in Nat \ {0}
    BY <1>1, LineFacts
<1>3. <<k>> \in Seq(Entry) /\ Len(<<k>>) = 1 /\ <<k>>[1] = k
    BY LineBegins, EntryFacts
<1> HIDE DEF k
<1>4. CASE Len(line) = 1
    <2>1. \A i \in 1 .. Len(line) : line[i] = <<k>>[i]
        BY <1>1, <1>3, <1>4
    <2>2. line = <<k>>
        BY <1>2, <1>3, <1>4, <2>1, SeqEqual
    <2> QED
        BY <2>2 DEF k
<1>5. CASE Len(line) # 1
    <2>1. Extends(line, <<k>>)
        BY <1>1, <1>2, <1>3, <1>5 DEF Extends
    <2> QED
        BY <2>1 DEF k
<1> QED
    BY <1>4, <1>5

LEMMA ThroughTheChild ==
    ASSUME NEW above \in Line, above # <<>>, NEW w \in Ids, NEW line \in Line, line # <<>>,
           Extends(line, above), line[Len(above) + 1] = Lower(w)
    PROVE  line = Append(above, Lower(w)) \/ Extends(line, Append(above, Lower(w)))
<1> DEFINE longer == Append(above, Lower(w))  n == Len(above)
<1>1. /\ longer \in Line /\ longer # <<>> /\ Len(longer) = n + 1
      /\ \A i \in 1 .. n : longer[i] = above[i]
      /\ longer[Len(longer)] = Lower(w)
    BY LineGoesOn
<1>2. n \in Nat \ {0} /\ line \in Seq(Entry) /\ Len(line) \in Nat
    BY LineFacts
<1>3. n < Len(line) /\ \A i \in 1 .. n : line[i] = above[i]
    BY DEF Extends
<1>4. longer \in Seq(Entry)
    BY <1>1, EntryFacts
<1> HIDE DEF longer, n
<1>5. \A i \in 1 .. n + 1 : line[i] = longer[i]
    BY <1>1, <1>2, <1>3 DEF n
<1>6. CASE Len(line) = n + 1
    <2>1. line = longer
        BY <1>1, <1>2, <1>4, <1>5, <1>6, SeqEqual
    <2> QED
        BY <2>1 DEF longer
<1>7. CASE Len(line) # n + 1
    <2>1. Extends(line, longer)
        BY <1>1, <1>2, <1>3, <1>5, <1>7 DEF Extends
    <2> QED
        BY <2>1 DEF longer
<1> QED
    BY <1>6, <1>7

(* A walk that goes on with a line shown. *)
LEMMA ShowsGood ==
    ASSUME Good(h), h.at = "read", Walks(h), NEW todo \in WalkTasks(h.q),
           NEW line \in Wanted(h.q), NEW state, state = StateToShow(line, h.q.depth),
           state \in States \cup {"not_found", "cycle_detected", "truncated"},
           \A l \in Wanted(h.q) :
               \/ l = line
               \/ \E s \in h.shown : s.line = l
               \/ \E t \in Range(todo) : Awaited(t, l)
    PROVE  Good(Show([h EXCEPT !.todo = todo], line, state))
<1> DEFINE s == [line |-> line, state |-> state]
           d == [h EXCEPT !.todo = todo]
           e == Show(d, line, state)
<1>1. /\ Types(h) /\ h.q.key \in Entry /\ h.q.depth \in Int
      /\ ShownRightly(h.q, h.shown)
    BY WalkHead
<1>2. line \in Line
    BY <1>1, WantedFacts
<1>3. Types(d) /\ d.at = "read" /\ d.q = h.q /\ d.todo = todo /\ d.shown = h.shown
    BY <1>1, WithTodo
<1> HIDE DEF d
<1>4. Types(e) /\ e.at = "read" /\ e.q = d.q /\ e.todo = d.todo /\ e.shown = d.shown \cup {s}
    BY <1>2, <1>3, WithShown
<1>5. s.line = line /\ s.state = state
    OBVIOUS
<1> HIDE DEF s, e
<1>6. ShownRightly(h.q, e.shown)
    BY <1>1, <1>3, <1>4, <1>5 DEF ShownRightly
<1>7. Owed(e)
    BY <1>3, <1>4, <1>5 DEF Owed
<1>8. Good(e)
    BY <1>3, <1>4, <1>6, <1>7, WalkGoesOn
<1> QED
    BY <1>8 DEF e, d

LEMMA ReadRowOfWalk ==
    ASSUME Good(h), ReadRow, Walks(h)
    PROVE  Good(h')
<1> DEFINE q == h.q  line == Head(h.todo).line  row == RowAt(line)
           reads == NodeReads(q.view, line)  others == Tail(h.todo)
           todo == reads \o others
<1>1. h.at = "read" /\ h.todo # <<>> /\ Head(h.todo).what = "row"
    BY DEF ReadRow, Reading, Next1
<1>2. /\ Rows /\ Types(h) /\ q.key \in Entry /\ q.depth \in Int /\ q.depth >= 1
      /\ q.view \in WalkViews /\ q.view # "stuck"
      /\ Owed(h) /\ Head(h.todo) \in WalkTask(q) /\ others \in WalkTasks(q)
      /\ Range(h.todo) = {Head(h.todo)} \cup Range(others)
    BY <1>1, WalkHead DEF Walks, AsksVerdict
<1>3. line = <<q.key>>
    BY <1>1, <1>2 DEF WalkTask
<1>4. /\ line \in Wanted(q) /\ line \in Line /\ line # <<>> /\ ~ IsCircle(line) /\ Depth(line) = 0
    BY <1>2, <1>3, FirstIsWanted, LineBegins
<1>5. CASE row.state = "absent"
    <2>1. h' = Failed(h, 404)
        BY <1>5 DEF ReadRow, Becomes, Next1, RowAt
    <2> QED
        BY <1>1, <2>1, ErrorsAreGood DEF Errors
<1>6. CASE row.state # "absent"
    <2>1. h' = Show([h EXCEPT !.todo = todo], line, row.state)
        BY <1>2, <1>6 DEF ReadRow, Becomes, Next1, RowAt
    <2>2. Entered(q, line)
        BY <1>2, <1>4, <1>6 DEF Entered
    <2>3. reads \in WalkTasks(q) /\ Read("calls", line) \in Range(reads)
        BY <1>2, <1>4, <2>2, NodeReadsFacts
    <2>4. todo \in WalkTasks(q) /\ Range(todo) = Range(reads) \cup Range(others)
        BY <1>2, <2>3, TasksAdd
    <2>5. row.state = StateToShow(line, q.depth) /\ row.state \in States
        BY <1>2, <1>4, <1>6, RowFacts DEF StateToShow
    <2>6. ASSUME NEW l \in Wanted(q)
          PROVE  \/ l = line
                 \/ \E s \in h.shown : s.line = l
                 \/ \E t \in Range(todo) : Awaited(t, l)
        <3>1. l # line => Extends(l, line)
            BY <1>2, <1>3, OneOrMore
        <3>2. l # line => Awaited(Read("calls", line), l)
            BY <3>1 DEF Awaited, Read
        <3> QED
            BY <2>3, <2>4, <3>2
    <2> HIDE DEF todo, row, line
    <2>7. Good(Show([h EXCEPT !.todo = todo], line, row.state))
        BY <1>1, <1>4, <2>4, <2>5, <2>6, ShowsGood
    <2> QED
        BY <2>1, <2>7
<1> QED
    BY <1>5, <1>6

LEMMA ReadCallsIsGood ==
    ASSUME Good(h), ReadCalls
    PROVE  Good(h')
<1> DEFINE q == h.q  line == Head(h.todo).line  calls == RowAt(line).calls
           n == AfterCalls(q.view)
           others == Tail(h.todo)
           visits == ToVisit(line, calls)
           todo == SubSeq(others, 1, n) \o visits \o SubSeq(others, n + 1, Len(others))
           e == [h EXCEPT !.todo = todo]
<1>1. h.at = "read" /\ h.todo # <<>> /\ Head(h.todo).what = "calls" /\ h' = e
    BY DEF ReadCalls, Reading, Next1, Becomes, RowAt
<1>2. Walks(h)
    BY <1>1, ReaderIs
<1>3. /\ Rows /\ Types(h) /\ q.key \in Entry /\ q.depth \in Int /\ q.depth >= 1
      /\ Owed(h) /\ ShownRightly(q, h.shown)
      /\ h.todo \in WalkTasks(q) /\ Head(h.todo) \in WalkTask(q) /\ others \in WalkTasks(q)
      /\ Range(h.todo) = {Head(h.todo)} \cup Range(others)
    BY <1>1, <1>2, WalkHead
<1>4. Entered(q, line)
    BY <1>1, <1>3 DEF WalkTask
<1>5. line \in Line /\ line # <<>>
    BY <1>3, <1>4, WantedFacts DEF Entered
<1>6. calls \subseteq CallRow
    BY <1>3, <1>5, RowFacts
<1>7. /\ visits \in WalkTasks(q)
      /\ Range(visits) =
             IF calls = {} THEN {} ELSE {[what |-> "children", line |-> line, left |-> calls]}
    BY <1>4, <1>5, <1>6, VisitsAreTasks
<1>8. n <= Len(others)
    <2>1. h.todo \in Seq(WalkTask(q))
        BY <1>3 DEF WalkTasks
    <2>2. /\ Len(h.todo) \in Nat \ {0} /\ Head(h.todo) = h.todo[1] /\ Len(others) = Len(h.todo) - 1
          /\ n \in Nat
        BY <1>1, <2>1, HeadTailProperties, EmptySeq DEF AfterCalls
    <2>3. \A i \in 1 .. Len(h.todo) : h.todo[i].what = "calls" => i + n <= Len(h.todo)
        BY <1>3 DEF WalkTasks
    <2> HIDE DEF others, n
    <2>4. h.todo[1].what = "calls"
        BY <1>1, <2>2
    <2>5. 1 \in 1 .. Len(h.todo)
        BY <2>2
    <2>6. 1 + n <= Len(h.todo)
        BY <2>3, <2>4, <2>5
    <2> QED
        BY <2>2, <2>6
<1>9. todo \in WalkTasks(q) /\ Range(todo) = Range(others) \cup Range(visits)
    <2> HIDE DEF others, visits
    <2> QED
        BY <1>3, <1>7, <1>8, TasksInsert DEF todo
<1> HIDE DEF todo
<1>10. Types(e) /\ e.at = "read" /\ e.q = q /\ e.todo = todo /\ e.shown = h.shown
    BY <1>1, <1>3, WithTodo
<1> HIDE DEF e
<1>11. ASSUME NEW l \in Wanted(q), Awaited(Head(h.todo), l)
       PROVE  \E t \in Range(todo) : Awaited(t, l)
    <2> DEFINE task == [what |-> "children", line |-> line, left |-> calls]
    <2>1. Extends(l, line)
        BY <1>1, <1>11 DEF Awaited
    <2>2. \E call \in calls : Lower(call.child) = l[Len(line) + 1]
        BY <1>3, <1>5, <2>1, StopsThere
    <2>3. task \in Range(todo)
        BY <1>7, <1>9, <2>2
    <2>4. task.what = "children" /\ task.line = line /\ task.left = calls
        OBVIOUS
    <2> HIDE DEF task
    <2>5. Awaited(task, l)
        BY <2>1, <2>2, <2>4 DEF Awaited
    <2> QED
        BY <2>3, <2>5
<1>12. Owed(e)
    BY <1>3, <1>9, <1>10, <1>11 DEF Owed
<1> QED
    BY <1>1, <1>2, <1>3, <1>9, <1>10, <1>12, WalkGoesOn

LEMMA VisitChildIsGood ==
    ASSUME Good(h), VisitChild
    PROVE  Good(h')
<1> DEFINE q == h.q  above == Head(h.todo).line  left == Head(h.todo).left  others == Tail(h.todo)
<1>1. /\ h.at = "read" /\ h.todo # <<>> /\ Head(h.todo).what = "children" /\ q.view # "stuck"
    BY DEF VisitChild, Reading, Next1
<1>2. Walks(h)
    BY <1>1, ReaderIs DEF AsksVerdict
<1>3. /\ Rows /\ Types(h) /\ q.key \in Entry /\ q.depth \in Int /\ q.depth >= 1 /\ q.view \in WalkViews
      /\ Owed(h) /\ Head(h.todo) \in WalkTask(q) /\ others \in WalkTasks(q)
      /\ Range(h.todo) = {Head(h.todo)} \cup Range(others)
    BY <1>1, <1>2, WalkHead DEF Walks
<1>4. Entered(q, above) /\ left \subseteq RowAt(above).calls /\ left \subseteq CallRow
    BY <1>1, <1>3 DEF WalkTask, Task
<1>5. PICK call \in left :
         LET line == Append(above, Lower(call.child))
             row == store[call.child]
             after == ToVisit(above, left \ {call}) \o others
             on == [h EXCEPT !.todo = after]
         IN  CASE Descend(h, line) # "walked" -> h' = Show(on, line, Descend(h, line))
               [] Descend(h, line) = "walked" /\ row.state = "absent" -> h' = Show(on, line, "not_found")
               [] OTHER -> h' = Show([on EXCEPT !.todo = NodeReads(h.q.view, line) \o @], line, row.state)
    BY DEF VisitChild, Earliest, Next1, Becomes
<1> DEFINE child == call.child  line == Append(above, Lower(child))  row == store[child]
           visits == ToVisit(above, left \ {call})
           after == visits \o others
           reads == NodeReads(q.view, line)
           next == reads \o after
           descends == Descend(h, line)
<1>6. \/ /\ descends # "walked"
         /\ h' = Show([h EXCEPT !.todo = after], line, descends)
      \/ /\ descends = "walked" /\ row.state = "absent"
         /\ h' = Show([h EXCEPT !.todo = after], line, "not_found")
      \/ /\ descends = "walked" /\ row.state # "absent"
         /\ h' = Show([h EXCEPT !.todo = next], line, row.state)
    <2>1. [[h EXCEPT !.todo = after] EXCEPT !.todo = reads \o @] = [h EXCEPT !.todo = next]
        <3> HIDE DEF after, reads
        <3> QED
            BY <1>3 DEF Types, HandlerFields
    <2> QED
        BY <1>5, <2>1
<1>7. above \in Line /\ above # <<>> /\ child \in Ids
    BY <1>3, <1>4, WantedFacts DEF Entered, CallRow
<1>8. line \in Wanted(q)
    BY <1>3, <1>4, ChildIsWanted
<1>9. /\ line \in Line /\ line # <<>> /\ WorkflowOf(line) = child
      /\ row = RowAt(line) /\ row.state \in States
    BY <1>3, <1>7, LineGoesOn, RowFacts DEF RowAt
<1>10. /\ descends = IF IsCircle(line) THEN "cycle_detected"
                     ELSE IF Depth(line) > q.depth THEN "truncated" ELSE "walked"
       /\ StateToShow(line, q.depth) =
              IF descends # "walked" THEN descends
              ELSE IF row.state = "absent" THEN "not_found" ELSE row.state
    BY <1>9 DEF Descend, StateToShow
<1>11. /\ visits \in WalkTasks(q)
       /\ Range(visits) =
              IF left \ {call} = {} THEN {}
              ELSE {[what |-> "children", line |-> above, left |-> left \ {call}]}
    BY <1>4, <1>7, VisitsAreTasks
<1>12. after \in WalkTasks(q) /\ Range(after) = Range(visits) \cup Range(others)
    <2> HIDE DEF visits, others
    <2> QED
        BY <1>3, <1>11, TasksAdd
(* Every other line is awaited by a read that is left, or lies below the child. *)
<1>13. ASSUME NEW l \in Wanted(q)
       PROVE  \/ l = line
              \/ \E s \in h.shown : s.line = l
              \/ \E t \in Range(after) : Awaited(t, l)
              \/ Extends(l, line)
    <2>1. CASE \E t \in Range(others) : Awaited(t, l)
        BY <1>12, <2>1
    <2>2. CASE Awaited(Head(h.todo), l)
        <3>1. Extends(l, above)
            BY <1>1, <2>2 DEF Awaited
        <3>2. PICK c \in left : l[Len(above) + 1] = Lower(c.child)
            BY <1>1, <2>2 DEF Awaited
        <3>3. CASE c = call
            <4>1. l \in Line /\ l # <<>>
                BY <1>3, WantedFacts
            <4> QED
                BY <1>7, <3>1, <3>2, <3>3, <4>1, ThroughTheChild
        <3>4. CASE c # call
            <4> DEFINE task == [what |-> "children", line |-> above, left |-> left \ {call}]
            <4>1. task \in Range(after)
                BY <1>11, <1>12, <3>4
            <4>2. task.what = "children" /\ task.line = above /\ task.left = left \ {call}
                OBVIOUS
            <4> HIDE DEF task
            <4>3. Awaited(task, l)
                BY <3>1, <3>2, <3>4, <4>2 DEF Awaited
            <4> QED
                BY <4>1, <4>3
        <3> QED
            BY <3>3, <3>4
    <2> QED
        BY <1>3, <2>1, <2>2 DEF Owed
<1> HIDE DEF after, next, visits, line, row, descends
<1>14. CASE descends # "walked" \/ row.state = "absent"
    <2> DEFINE state == StateToShow(line, q.depth)
    <2>1. h' = Show([h EXCEPT !.todo = after], line, state)
        BY <1>6, <1>10, <1>14
    <2>2. state \in States \cup {"not_found", "cycle_detected", "truncated"}
        BY <1>9, <1>10
    <2>3. ASSUME NEW l \in Wanted(q)
          PROVE  ~ Extends(l, line)
        <3>1. Extends(l, line) => ~ IsCircle(line) /\ Depth(line) <= q.depth /\ RowAt(line).state # "absent"
            BY <1>3, <1>9, StopsThere
        <3>2. line \in Seq(Entry) /\ Len(line) \in Nat
            BY <1>9, LineFacts
        <3> QED
            BY <1>3, <1>9, <1>10, <1>14, <3>1, <3>2 DEF Depth
    <2> HIDE DEF state
    <2>4. Good(Show([h EXCEPT !.todo = after], line, state))
        BY <1>1, <1>2, <1>8, <1>12, <1>13, <2>2, <2>3, ShowsGood DEF state
    <2> QED
        BY <2>1, <2>4
<1>15. CASE descends = "walked" /\ row.state # "absent"
    <2>1. h' = Show([h EXCEPT !.todo = next], line, row.state)
        BY <1>6, <1>15
    <2>2. Entered(q, line)
        <3>1. line \in Seq(Entry) /\ Len(line) \in Nat
            BY <1>9, LineFacts
        <3> QED
            BY <1>3, <1>8, <1>9, <1>10, <1>15, <3>1 DEF Entered, Depth
    <2>3. reads \in WalkTasks(q) /\ Read("calls", line) \in Range(reads)
        BY <1>3, <1>9, <2>2, NodeReadsFacts
    <2>4. next \in WalkTasks(q) /\ Range(next) = Range(reads) \cup Range(after)
        <3> HIDE DEF reads
        <3> QED
            BY <1>12, <2>3, TasksAdd DEF next
    <2>5. ASSUME NEW l \in Wanted(q), Extends(l, line)
          PROVE  \E t \in Range(next) : Awaited(t, l)
        <3>1. Awaited(Read("calls", line), l)
            BY <2>5 DEF Awaited, Read
        <3> QED
            BY <2>3, <2>4, <3>1
    <2>6. row.state = StateToShow(line, q.depth)
        BY <1>10, <1>15
    <2>7. Good(Show([h EXCEPT !.todo = next], line, row.state))
        BY <1>1, <1>2, <1>8, <1>9, <1>13, <2>4, <2>5, <2>6, ShowsGood
    <2> QED
        BY <2>1, <2>7
<1> QED
    BY <1>14, <1>15

-----------------------------------------------------------------------------
(* The descent to a verdict *)

(* A handler that goes on with this node and these reads. *)
WithNode(d, node, todo) == [d EXCEPT !.node = node, !.todo = todo]

LEMMA WithNodeFacts ==
    ASSUME NEW d, Types(d), d.at = "read", NEW todo, NEW node, IsNode(node)
    PROVE  /\ Types(WithNode(d, node, todo))
           /\ WithNode(d, node, todo).at = "read" /\ WithNode(d, node, todo).q = d.q
           /\ WithNode(d, node, todo).node = node /\ WithNode(d, node, todo).todo = todo
<1> DEFINE e == WithNode(d, node, todo)
<1>0. d = [x \in HandlerFields |-> d[x]]
    BY TypesAre
<1>4. /\ d.connection = "open" /\ d.status \in {0, 200, 400, 404, 405, 500, 502}
      /\ d.shown \subseteq Shown
    BY TypesAre DEF ConnectionFits
<1>3. e = [x \in HandlerFields |-> e[x]]
    BY <1>0 DEF WithNode
<1>1. /\ e.at = "read" /\ e.q = d.q /\ e.node = node /\ e.todo = todo
      /\ e.connection = d.connection /\ e.status = d.status /\ e.shown = d.shown
    BY <1>0 DEF HandlerFields, WithNode
<1> HIDE DEF e
<1>2. Types(e)
    BY <1>1, <1>3, <1>4, TypesKept
<1> QED
    BY <1>1, <1>2 DEF e

LEMMA AtNodeFacts ==
    ASSUME Rows, NEW d, AtNode(d)
    PROVE  LET line == d.node.line  row == RowAt(line)
           IN  /\ line \in Line /\ line # <<>> /\ Follows(line)
               /\ row = store[WorkflowOf(line)]
               /\ d.node.state = row.state /\ row.state \in States \ {"absent"}
               /\ row.calls \subseteq CallRow
               /\ row.operations \subseteq Carrier /\ row.checkpoints \subseteq Carrier
BY RowFacts DEF AtNode, Follows

(* The row of a node that a descent has come to. *)
LEMMA ReadRowOfNode ==
    ASSUME Good(h), ReadRow, AsksVerdict(h)
    PROVE  Good(h')
<1> DEFINE line == Head(h.todo).line  row == RowAt(line)
           node == [line |-> line, state |-> row.state, leased |-> row.leased,
                    lapsed |-> row.lapsed, due |-> row.due, carriers |-> {}]
           reads == NodeReads("stuck", line)
           todo == reads \o Tail(h.todo)
           e == WithNode(h, node, todo)
<1>1. /\ h.at = "read" /\ h.todo # <<>> /\ Head(h.todo).what = "row" /\ Types(h) /\ Rows
      /\ h.q.view = "stuck"
    BY DEF ReadRow, Reading, Next1, Good, HandlerInv, AsksVerdict
<1>2. Tail(h.todo) = <<>> /\ Follows(line) /\ line \in Line
    BY <1>1, DescentHead DEF Follows
<1>3. CASE row.state = "absent"
    <2>1. h' = Failed(h, 404)
        BY <1>3 DEF ReadRow, Becomes, Next1, RowAt
    <2> QED
        BY <1>1, <2>1, ErrorsAreGood DEF Errors
<1>4. CASE row.state # "absent"
    <2>1. h' = [[h EXCEPT !.todo = todo] EXCEPT !.node = node]
        BY <1>1, <1>4 DEF ReadRow, Becomes, Next1, RowAt
    <2>2. /\ node.line = line /\ node.state = row.state /\ node = [x \in NodeFields |-> node[x]]
          /\ node.carriers \subseteq Carrier
        BY DEF NodeFields
    <2> HIDE DEF node, todo
    <2>3. h' = e
        BY <1>1, <2>1 DEF Types, HandlerFields, WithNode
    <2>0. IsNode(node)
        BY <1>2, <2>2 DEF IsNode
    <2>4. Types(e) /\ e.at = "read" /\ e.q = h.q /\ e.node = node /\ e.todo = todo
        BY <1>1, <2>0, WithNodeFacts
    <2> HIDE DEF e
    <2>5. AtNode(e)
        BY <1>2, <1>4, <2>2, <2>4 DEF AtNode
    <2> DEFINE clock == Read("clock", line)
               operations == Read("operations", line)
               checkpoints == Read("checkpoints", line)
    <2>6. reads \in {<<clock, operations, checkpoints>>, <<operations, checkpoints>>}
        BY DEF NodeReads
    <2> HIDE DEF clock, operations, checkpoints, reads
    <2>7. todo = reads
        <3>1. reads \in Seq({clock, operations, checkpoints})
            <4>1. CASE reads = <<clock, operations, checkpoints>>
                BY <4>1
            <4>2. CASE reads = <<operations, checkpoints>>
                BY <4>2
            <4> QED
                BY <2>6, <4>1, <4>2
        <3>2. todo = reads \o <<>>
            BY <1>2 DEF todo
        <3> QED
            BY <3>1, <3>2, ConcatEmptySeq
    <2>8. Descends(e)
        BY <2>2, <2>4, <2>5, <2>6, <2>7 DEF Descends, clock, operations, checkpoints
    <2> QED
        BY <1>1, <2>3, <2>4, <2>8, DescentGoesOn
<1> QED
    BY <1>3, <1>4

LEMMA ReadRowIsGood ==
    ASSUME Good(h), ReadRow
    PROVE  Good(h')
<1>1. h.at = "read" /\ h.todo # <<>> /\ Head(h.todo).what = "row"
    BY DEF ReadRow, Reading, Next1
<1>2. Walks(h) \/ AsksVerdict(h)
    BY <1>1, ReaderIs
<1> QED
    BY <1>2, ReadRowOfWalk, ReadRowOfNode

LEMMA ReadClockIsGood ==
    ASSUME Good(h), ReadClock
    PROVE  Good(h')
<1> DEFINE e == Done1(h)  c == Concluded(h, 200)
<1>1. h.at = "read" /\ h.todo # <<>> /\ Head(h.todo).what = "clock" /\ Types(h)
    BY DEF ReadClock, Reading, Next1, Good, HandlerInv
<1>2. CASE h.q.view = "health"
    <2>1. ~ Walks(h) /\ ~ AsksVerdict(h)
        BY <1>2 DEF Walks, WalkViews, AsksVerdict
    <2>2. Types(c) /\ c.at = "respond" /\ c.q = h.q /\ h' = c
        BY <1>1, <1>2, ConcludedFacts DEF ReadClock, Becomes
    <2> HIDE DEF c
    <2> QED
        BY <2>1, <2>2, OthersAreGood
<1>3. CASE h.q.view # "health"
    <2>1. h' = e
        BY <1>3 DEF ReadClock, Becomes
    <2>2. AsksVerdict(h)
        <3>1. ~ Walks(h)
            BY <1>1, ReaderIs
        <3>2. SUFFICES ASSUME ~ AsksVerdict(h) PROVE FALSE
            OBVIOUS
        <3>3. h.q.view = "search" /\ h.todo = <<Read("summaries", <<>>)>>
            BY <1>1, <1>3, <3>1, <3>2 DEF Good, HandlerInv, AsksOnce
        <3>4. Head(h.todo) = Read("summaries", <<>>)
            BY <3>3
        <3> QED
            BY <1>1, <3>4 DEF Read
    <2>3. Types(e) /\ e.at = "read" /\ e.q = h.q /\ e.node = h.node /\ e.todo = Tail(h.todo)
        BY <1>1, DoneFacts
    <2> HIDE DEF e
    <2>4. /\ AtNode(h)
          /\ Tail(h.todo) = <<Read("operations", h.node.line), Read("checkpoints", h.node.line)>>
        BY <1>1, <2>2, DescentHead
    <2>5. AtNode(e)
        BY <2>3, <2>4, SameNode
    <2>6. Descends(e)
        BY <2>3, <2>4, <2>5 DEF Descends
    <2> QED
        BY <1>1, <2>1, <2>2, <2>3, <2>6, DescentGoesOn
<1> QED
    BY <1>2, <1>3

LEMMA ReadOperationsIsGood ==
    ASSUME Good(h), ReadOperations
    PROVE  Good(h')
<1>1. h.at = "read" /\ h.todo # <<>> /\ Head(h.todo).what = "operations" /\ Types(h) /\ Rows
    BY DEF ReadOperations, Reading, Next1, Good, HandlerInv
<1>2. CASE ~ AsksVerdict(h)
    <2>1. h' = Done1(h)
        BY <1>2 DEF ReadOperations, Becomes, AsksVerdict
    <2>2. Walks(h)
        BY <1>1, <1>2, ReaderIs
    <2> QED
        BY <1>1, <2>1, <2>2, PassesOver
<1>3. CASE AsksVerdict(h)
    <2> DEFINE f == Done1(h)
               carriers == store[WorkflowOf(h.node.line)].operations
               node == [h.node EXCEPT !.carriers = carriers]
               todo == Tail(h.todo)
               e == WithNode(h, node, todo)
    <2>1. h' = [f EXCEPT !.node.carriers = carriers]
        BY <1>3 DEF ReadOperations, Becomes, AsksVerdict
    <2>2. AtNode(h) /\ todo = <<Read("checkpoints", h.node.line)>>
        BY <1>1, <1>3, DescentHead
    <2>3. carriers \subseteq Carrier /\ h.node.line \in Line
        BY <1>1, <2>2, AtNodeFacts
    <2>4. f = [h EXCEPT !.todo = todo]
        BY DEF Done1
    <2> HIDE DEF f, carriers, todo
    <2>5. h' = e
        <3>1. h = [x \in HandlerFields |-> h[x]]
            BY <1>1, TypesAre
        <3> HIDE DEF node, e
        <3>2. f.node = h.node
            BY <2>4, <3>1 DEF HandlerFields
        <3>3. h' = [f EXCEPT !.node = node]
            BY <2>1, <3>2 DEF node
        <3> QED
            BY <2>4, <3>1, <3>3 DEF HandlerFields, WithNode, e
    <2>6. /\ node.line = h.node.line /\ node.state = h.node.state /\ node.carriers = carriers
          /\ node = [x \in NodeFields |-> node[x]]
        BY <1>1 DEF Types, NodeFields
    <2> HIDE DEF node
    <2>0. IsNode(node)
        BY <2>3, <2>6 DEF IsNode
    <2>7. Types(e) /\ e.at = "read" /\ e.q = h.q /\ e.node = node /\ e.todo = todo
        BY <1>1, <2>0, WithNodeFacts
    <2> HIDE DEF e
    <2>8. AtNode(e)
        BY <2>2, <2>6, <2>7, SameNode
    <2>9. Descends(e)
        BY <2>2, <2>6, <2>7, <2>8 DEF Descends
    <2> QED
        BY <1>1, <1>3, <2>5, <2>7, <2>9, DescentGoesOn
<1> QED
    BY <1>2, <1>3

LEMMA VerdictFacts ==
    ASSUME NEW d, Types(d), d.at = "read", NEW verdict, NEW carriers
    PROVE  LET e == Verdict(d, verdict, carriers)
           IN  /\ Types(e) /\ e.at = "respond" /\ e.q = d.q /\ e.shown = d.shown /\ e.status = 200
               /\ e.answer.verdict = verdict /\ e.answer.line = d.node.line
<1> DEFINE c == Concluded(d, 200)
           answer == [verdict |-> verdict, line |-> d.node.line, carriers |-> carriers]
           e == [c EXCEPT !.answer = answer]
<1>1. Types(c) /\ c.at = "respond" /\ c.q = d.q /\ c.shown = d.shown /\ c.status = 200
    BY ConcludedFacts
<1>2. answer.verdict = verdict /\ answer.line = d.node.line
    OBVIOUS
<1> HIDE DEF c, answer
<1>3. /\ Types(e) /\ e.at = "respond" /\ e.q = d.q /\ e.shown = d.shown /\ e.status = 200
      /\ e.answer = answer
    BY <1>1 DEF Types, HandlerFields, ConnectionFits
<1>4. e = Verdict(d, verdict, carriers)
    BY DEF Verdict, c, answer
<1> HIDE DEF e
<1> QED
    BY <1>2, <1>3, <1>4

(* A verdict is good at a node whose unfinished calls do not matter, or that *)
(* has none.                                                                 *)
LEMMA VerdictIsGood ==
    ASSUME Good(h), h.at = "read", AsksVerdict(h), AtNode(h), NEW verdict, NEW carriers,
           \/ Unfinished(h.node.line) = {}
           \/ verdict \in {"terminal", "blocked_resolution", "running_under_lease"}
    PROVE  Good(Verdict(h, verdict, carriers))
<1> DEFINE e == Verdict(h, verdict, carriers)
<1>1. /\ Types(e) /\ e.at = "respond" /\ e.q = h.q /\ e.status = 200
      /\ e.answer.verdict = verdict /\ e.answer.line = h.node.line
    BY VerdictFacts DEF Good, HandlerInv
<1> HIDE DEF e
<1>2. EndsWell(e.answer)
    BY <1>1 DEF EndsWell, AtNode
<1>3. Good(e)
    BY <1>1, <1>2 DEF Good, HandlerInv, Walks, AsksVerdict, WalkViews
<1> QED
    BY <1>3 DEF e

LEMMA ReadCheckpointsIsGood ==
    ASSUME Good(h), ReadCheckpoints
    PROVE  Good(h')
<1>1. h.at = "read" /\ h.todo # <<>> /\ Head(h.todo).what = "checkpoints" /\ Types(h) /\ Rows
    BY DEF ReadCheckpoints, Reading, Next1, Good, HandlerInv
<1>2. CASE ~ AsksVerdict(h)
    <2>1. h' = Done1(h)
        BY <1>2 DEF ReadCheckpoints, Becomes, AsksVerdict
    <2>2. Walks(h)
        BY <1>1, <1>2, ReaderIs
    <2> QED
        BY <1>1, <2>1, <2>2, PassesOver
<1>3. CASE AsksVerdict(h)
    <2> DEFINE carriers == h.node.carriers \cup store[WorkflowOf(h.node.line)].checkpoints
               node == [h.node EXCEPT !.carriers = carriers]
               todo == <<Read("called", node.line)>>
               e == WithNode(h, node, todo)
    <2>1. AtNode(h)
        BY <1>1, <1>3, DescentHead
    <2>2. carriers \subseteq Carrier /\ h.node.line \in Line /\ h.node.state \in States \ {"absent"}
        BY <1>1, <2>1, AtNodeFacts DEF Types
    <2>3. h.node = [x \in NodeFields |-> h.node[x]]
        BY <1>1 DEF Types
    <2> HIDE DEF carriers
    <2>4. /\ node.line = h.node.line /\ node.state = h.node.state /\ node.carriers = carriers
          /\ node = [x \in NodeFields |-> node[x]]
        BY <2>3 DEF NodeFields
    <2>5. \/ \E verdict \in {"terminal", "blocked_resolution", "running_under_lease"} :
                 h' = Verdict(h, verdict, {})
          \/ node.state \notin Terminal \cup {"blocked"} /\ h' = [h EXCEPT !.node = node, !.todo = todo]
        BY <1>3 DEF ReadCheckpoints, Becomes, AsksVerdict, carriers
    <2> HIDE DEF node
    <2>6. CASE \E verdict \in {"terminal", "blocked_resolution", "running_under_lease"} :
                   h' = Verdict(h, verdict, {})
        BY <1>1, <1>3, <2>1, <2>6, VerdictIsGood
    <2>7. CASE node.state \notin Terminal \cup {"blocked"} /\ h' = [h EXCEPT !.node = node, !.todo = todo]
        <3>1. IsNode(node)
            BY <2>2, <2>4 DEF IsNode
        <3>2. h' = e
            BY <2>7 DEF WithNode
        <3>3. Types(e) /\ e.at = "read" /\ e.q = h.q /\ e.node = node /\ e.todo = todo
            BY <1>1, <3>1, WithNodeFacts
        <3> HIDE DEF e
        <3>4. AtNode(e)
            BY <2>1, <2>4, <3>3, SameNode
        <3>5. e.node.state \in {"forward", "reversing"}
            BY <2>2, <2>4, <2>7, <3>3 DEF States, Terminal
        <3>6. GoesBelow(e)
            BY <3>4, <3>5 DEF GoesBelow
        <3>7. Descends(e)
            BY <3>3, <3>6 DEF Descends
        <3> QED
            BY <1>1, <1>3, <3>2, <3>3, <3>7, DescentGoesOn
    <2> QED
        BY <2>5, <2>6, <2>7
<1> QED
    BY <1>2, <1>3

(* A node whose children are asked, one after the other. *)
LEMMA AsksOn ==
    ASSUME Good(h), h.at = "read", AsksVerdict(h), GoesBelow(h), NEW left,
           left \subseteq RowAt(h.node.line).calls, Unfinished(h.node.line) \subseteq left
    PROVE  Good([h EXCEPT !.todo = ToVisit(h.node.line, left)])
<1> DEFINE todo == ToVisit(h.node.line, left)
           e == [h EXCEPT !.todo = todo]
<1>1. Left(todo) = left
    BY LeftOf
<1> HIDE DEF todo
<1>2. Types(e) /\ e.at = "read" /\ e.q = h.q /\ e.node = h.node /\ e.todo = todo
    BY WithTodo DEF Good, HandlerInv
<1> HIDE DEF e
<1>3. GoesBelow(e)
    BY <1>2, SameNode
<1>4. e.todo = ToVisit(e.node.line, Left(e.todo))
    BY <1>1, <1>2 DEF todo
<1>5. Descends(e)
    BY <1>1, <1>2, <1>3, <1>4 DEF Descends
<1>6. Good(e)
    BY <1>2, <1>5, DescentGoesOn
<1> QED
    BY <1>6 DEF e, todo

LEMMA ReadCalledIsGood ==
    ASSUME Good(h), ReadCalled
    PROVE  Good(h')
<1>1. h.at = "read" /\ h.todo # <<>> /\ Head(h.todo).what = "called"
    BY DEF ReadCalled, Reading, Next1
<1>2. AsksVerdict(h)
    BY <1>1, ReaderIs
<1>3. GoesBelow(h)
    BY <1>1, <1>2, DescentHead
<1> DEFINE line == h.node.line  calls == RowAt(line).calls
<1>4. h' = [h EXCEPT !.todo = ToVisit(line, calls)]
    BY DEF ReadCalled, Becomes, RowAt
<1>5. Unfinished(line) \subseteq calls
    BY DEF Unfinished, RowAt
<1> HIDE DEF calls
<1>6. Good([h EXCEPT !.todo = ToVisit(line, calls)])
    BY <1>1, <1>2, <1>3, <1>5, AsksOn DEF calls
<1> QED
    BY <1>4, <1>6

LEMMA FollowsOn ==
    ASSUME Rows, NEW above, Follows(above), RowAt(above).state \in {"forward", "reversing"},
           NEW call \in Earliest(Unfinished(above)), call.child \in Ids
    PROVE  Follows(Append(above, Lower(call.child)))
<1> DEFINE line == Append(above, Lower(call.child))
<1>1. above \in Line /\ above # <<>>
    BY DEF Follows
<1>2. /\ line \in Line /\ line # <<>> /\ Len(line) = Len(above) + 1
      /\ \A i \in 1 .. Len(above) : line[i] = above[i]
      /\ line[Len(line)] = Lower(call.child)
      /\ Above(line) = above
    BY <1>1, LineGoesOn
<1>3. Len(above) \in Nat \ {0} /\ above \in Seq(Entry) /\ line \in Seq(Entry)
    BY <1>1, <1>2, LineFacts, EntryFacts
<1> HIDE DEF line
<1>4. \A n \in 1 .. Len(above) : SubSeq(line, 1, n) = SubSeq(above, 1, n)
    <2> SUFFICES ASSUME NEW n \in 1 .. Len(above)
                 PROVE  SubSeq(line, 1, n) = SubSeq(above, 1, n)
        OBVIOUS
    <2>1. n \in Nat /\ \A i \in 1 .. n : line[i] \in Entry /\ above[i] \in Entry /\ line[i] = above[i]
        BY <1>2, <1>3, <1>1, LineFacts
    <2>2. /\ SubSeq(line, 1, n) \in Seq(Entry) /\ Len(SubSeq(line, 1, n)) = n
          /\ \A i \in 1 .. n : SubSeq(line, 1, n)[i] = line[i]
        BY <2>1, SubSeqProperties
    <2>3. /\ SubSeq(above, 1, n) \in Seq(Entry) /\ Len(SubSeq(above, 1, n)) = n
          /\ \A i \in 1 .. n : SubSeq(above, 1, n)[i] = above[i]
        BY <2>1, SubSeqProperties
    <2> QED
        BY <2>1, <2>2, <2>3, SeqEqual
<1>5. SubSeq(line, 1, Len(above)) = above
    BY <1>2, <1>3 DEF Above
<1>6. ASSUME NEW n \in 1 .. Len(line) - 1
      PROVE  /\ store[line[n][1]].state \in {"forward", "reversing"}
             /\ \E c \in Earliest(Unfinished(SubSeq(line, 1, n))) : line[n + 1] = Lower(c.child)
    <2>1. CASE n = Len(above)
        <3>1. line[n] = above[Len(above)] /\ line[n + 1] = Lower(call.child)
            BY <1>2, <1>3, <2>1
        <3> QED
            BY <1>5, <2>1, <3>1 DEF RowAt, WorkflowOf
    <2>2. CASE n # Len(above)
        <3>1. n \in 1 .. Len(above) - 1 /\ n + 1 \in 1 .. Len(above) /\ n \in 1 .. Len(above)
            BY <1>2, <1>3, <2>2
        <3>2. line[n] = above[n] /\ line[n + 1] = above[n + 1]
            BY <1>2, <3>1
        <3> QED
            BY <1>4, <3>1, <3>2 DEF Follows
    <2> QED
        BY <2>1, <2>2
<1>7. Follows(line)
    BY <1>2, <1>6 DEF Follows
<1> QED
    BY <1>7 DEF line

LEMMA AskChildIsGood ==
    ASSUME Good(h), AskChild
    PROVE  Good(h')
<1> DEFINE above == h.node.line  left == Head(h.todo).left
<1>1. h.at = "read" /\ h.todo # <<>> /\ Head(h.todo).what = "children" /\ Rows /\ Types(h) /\ AsksVerdict(h)
    BY DEF AskChild, Reading, Next1, Good, HandlerInv, AsksVerdict
<1>2. /\ GoesBelow(h) /\ h.todo = ToVisit(above, Left(h.todo))
      /\ left \subseteq RowAt(above).calls /\ Unfinished(above) \subseteq left
      /\ left = Left(h.todo)
    BY <1>1, DescentHead DEF Left
<1>3. Head(h.todo).line = above
    <2> DEFINE rest == Left(h.todo)
    <2>1. h.todo = ToVisit(above, rest)
        BY <1>2
    <2> HIDE DEF rest
    <2>2. rest # {}
        BY <1>1, <2>1 DEF ToVisit
    <2>3. Head(ToVisit(above, rest)).line = above
        BY <2>2, LeftOf
    <2> QED
        BY <2>1, <2>3
<1> HIDE DEF above, left
<1>4. PICK call \in Earliest(left) :
         LET line == Append(above, Lower(call.child))
             unfinished == store[call.child].state \notin Terminal \cup {"absent"}
         IN  h' = [h EXCEPT !.todo = IF unfinished /\ ~ IsCircle(line)
                                     THEN <<Read("row", line)>>
                                     ELSE ToVisit(above, left \ {call})]
    BY <1>3 DEF AskChild, Becomes, Next1, left
<1> DEFINE child == call.child  line == Append(above, Lower(child))
           unfinished == store[child].state \notin Terminal \cup {"absent"}
<1>5. above \in Line /\ above # <<>> /\ Follows(above) /\ RowAt(above).calls \subseteq CallRow
    BY <1>1, <1>2, AtNodeFacts DEF GoesBelow, above
<1>6. call \in left /\ call \in CallRow /\ child \in Ids /\ call \in RowAt(above).calls
    BY <1>2, <1>4, <1>5 DEF Earliest, CallRow
<1>7. store[child].state \in States
    BY <1>1, <1>6 DEF Rows, StoredRow
<1>8. IsCircle(line) <=> Lower(child) \in Seen(above)
    BY <1>5, <1>6, LineGoesOn
<1>9. unfinished /\ ~ IsCircle(line) <=> call \in Unfinished(above)
    BY <1>6, <1>7, <1>8 DEF Unfinished, States, Terminal, RowAt
<1>10. CASE call \in Unfinished(above)
    <2> DEFINE row == Read("row", line)
               todo == <<row>>
               e == [h EXCEPT !.todo = todo]
    <2>1. h' = e
        BY <1>4, <1>9, <1>10
    <2>2. call \in Earliest(Unfinished(above))
        BY <1>2, <1>4, <1>10 DEF Earliest
    <2>3. RowAt(above).state \in {"forward", "reversing"}
        BY <1>2 DEF GoesBelow, AtNode, above
    <2>4. Follows(line)
        BY <1>1, <1>5, <1>6, <2>2, <2>3, FollowsOn
    <2>5. row.line = line
        BY DEF Read
    <2>6. todo # <<>> /\ Head(todo) = row
        OBVIOUS
    <2>7. todo = <<Read("row", line)>>
        OBVIOUS
    <2> HIDE DEF todo, row
    <2>8. Types(e) /\ e.at = "read" /\ e.q = h.q /\ e.node = h.node /\ e.todo = todo
        BY <1>1, WithTodo
    <2> HIDE DEF e, line
    <2>9. Descends(e)
        BY <2>4, <2>5, <2>6, <2>7, <2>8 DEF Descends
    <2> QED
        BY <1>1, <2>1, <2>8, <2>9, DescentGoesOn
<1>11. CASE call \notin Unfinished(above)
    <2>1. h' = [h EXCEPT !.todo = ToVisit(above, left \ {call})]
        BY <1>4, <1>9, <1>11
    <2>2. left \ {call} \subseteq RowAt(above).calls /\ Unfinished(above) \subseteq left \ {call}
        BY <1>2, <1>11
    <2>3. Good([h EXCEPT !.todo = ToVisit(above, left \ {call})])
        BY <1>1, <1>2, <2>2, AsksOn DEF above
    <2> QED
        BY <2>1, <2>3
<1> QED
    BY <1>10, <1>11

LEMMA FinishStuckIsGood ==
    ASSUME Good(h), FinishStuck
    PROVE  Good(h')
<1>1. h.at = "read" /\ h.todo = <<>> /\ AsksVerdict(h)
    BY DEF FinishStuck, AsksVerdict
<1>2. Descends(h)
    BY <1>1 DEF Good, HandlerInv
<1>3. GoesBelow(h) /\ Unfinished(h.node.line) \subseteq Left(h.todo)
    <2> DEFINE line == h.node.line
               clock == Read("clock", line)  operations == Read("operations", line)
               checkpoints == Read("checkpoints", line)  called == Read("called", line)
    <2> HIDE DEF clock, operations, checkpoints, called
    <2>1. /\ <<clock, operations, checkpoints>> # <<>> /\ <<operations, checkpoints>> # <<>>
          /\ <<checkpoints>> # <<>> /\ <<called>> # <<>>
        OBVIOUS
    <2> QED
        BY <1>1, <1>2, <2>1 DEF Descends, clock, operations, checkpoints, called
<1>4. Unfinished(h.node.line) = {} /\ AtNode(h)
    BY <1>1, <1>3 DEF Left, GoesBelow
<1>5. \E verdict, carriers : h' = Verdict(h, verdict, carriers)
    BY DEF FinishStuck, Becomes
<1> QED
    BY <1>1, <1>4, <1>5, VerdictIsGood

-----------------------------------------------------------------------------
(* Every step *)

LEMMA HandlesIsGood ==
    ASSUME Good(h), Handles
    PROVE  Good(h')
BY RefuseIsGood, ServeFileIsGood, ConnectIsGood, LoseDatabaseIsGood, RespondIsGood,
   ReadRowIsGood, VisitChildIsGood, ReadDetailIsGood, ReadOperationsIsGood, ReadCallsIsGood,
   ReadMergedEventsIsGood, FinishWalkIsGood, ReadSummariesIsGood, ReadClockIsGood,
   ReadCheckpointsIsGood, ReadCalledIsGood, AskChildIsGood, FinishStuckIsGood
   DEF Handles, Reads

(* A thread that waits for a request has read nothing and promises nothing.  *)
LEMMA RInvBegins == Init => RInv
<1> SUFFICES ASSUME Init PROVE RInv
    OBVIOUS
<1>1. Rows
    BY VizAssumption DEF Init, Rows
<1>2. HandlerInv(h)
    BY WaitingFacts DEF Init, HandlerInv
<1> QED
    BY <1>1, <1>2 DEF Init, RInv

LEMMA RInvGoesOn == RInv /\ [Next]_everything => RInv'
<1> SUFFICES ASSUME RInv, [Next]_everything PROVE RInv'
    OBVIOUS
<1> USE DEF RInv
<1>1. Good(h) /\ UNCHANGED store
    BY DEF Good, Next, everything
<1>2. Rows'
    BY <1>1 DEF Rows
<1>3. CASE UNCHANGED h /\ (StartsSomehow \/ UNCHANGED server)
    <2>1. HandlerInv(h)'
        BY <1>1, <1>3, StandsStill
    <2>2. server' \in {"off", "serving", "refused"}
        BY <1>3 DEF StartsSomehow, Start
    <2> QED
        BY <1>2, <2>1, <2>2
<1>4. CASE Good(h') /\ UNCHANGED server
    <2>1. HandlerInv(h')
        BY <1>4 DEF Good
    <2>2. PICK d : d = h'
        OBVIOUS
    <2>3. HandlerInv(d) /\ h' = d
        BY <2>1, <2>2
    <2>4. HandlerInv(h)'
        BY <1>1, <2>3, StandsStill
    <2> QED
        BY <1>2, <1>4, <2>4
<1>5. CASE UNCHANGED everything
    BY <1>3, <1>5 DEF everything
<1>6. CASE StartsSomehow
    BY <1>3, <1>6, Zenon DEF StartsSomehow, Start
<1>7. CASE \E q \in Requests : Receive(q)
    BY <1>1, <1>4, <1>7, ReceiveIsGood DEF Receive, Becomes
<1>8. CASE Handles
    <2>1. Good(h')
        BY <1>1, <1>8, HandlesIsGood
    <2>2. UNCHANGED server
        <3>1. CASE Refuse \/ ServeFile \/ Connect \/ LoseDatabase \/ Respond
            BY <3>1 DEF Refuse, ServeFile, Connect, LoseDatabase, Respond, Becomes
        <3>2. CASE \/ ReadRow \/ VisitChild \/ ReadDetail \/ ReadOperations \/ ReadCalls
                   \/ ReadMergedEvents \/ FinishWalk
            BY <3>2 DEF ReadRow, VisitChild, ReadDetail, ReadOperations, ReadCalls,
                        ReadMergedEvents, FinishWalk, Becomes
        <3>3. CASE \/ ReadSummaries \/ ReadClock \/ ReadCheckpoints \/ ReadCalled
                   \/ AskChild \/ FinishStuck
            BY <3>3 DEF ReadSummaries, ReadClock, ReadCheckpoints, ReadCalled, AskChild,
                        FinishStuck, Becomes
        <3> QED
            BY <1>8, <3>1, <3>2, <3>3 DEF Handles, Reads
    <2> QED
        BY <1>4, <2>1, <2>2
<1> QED
    BY <1>5, <1>6, <1>7, <1>8 DEF Next

(* What a handler has still to read are tables of workflows, or of none.     *)
LEMMA TasksAreTyped ==
    ASSUME HandlerInv(h), NEW r \in {h.todo[i] : i \in 1 .. Len(h.todo)}
    PROVE  r.line \in Line
<1>1. PICK i \in 1 .. Len(h.todo) : r = h.todo[i]
    OBVIOUS
<1>2. CASE h.at # "read"
    <2>1. h.todo = <<>>
        BY <1>2 DEF HandlerInv, Types
    <2> QED
        BY <1>1, <2>1
<1>3. CASE h.at = "read" /\ Walks(h)
    <2>1. h.todo \in Seq(WalkTask(h.q))
        BY <1>3 DEF HandlerInv, WalkGoesWell, WalkTasks
    <2>2. r \in WalkTask(h.q)
        BY <1>1, <2>1, ElementOfSeq
    <2> QED
        BY <2>2 DEF WalkTask, Task
<1>4. CASE h.at = "read" /\ AsksVerdict(h)
    <2>0. Types(h) /\ Descends(h)
        BY <1>4 DEF HandlerInv
    <2> DEFINE line == h.node.line
    <2>1. line \in Line
        BY <2>0 DEF Types
    <2>2. \A what, l : Read(what, l).line = l
        BY DEF Read
    <2>3. CASE h.todo = <<Read("row", Head(h.todo).line)>> /\ Follows(Head(h.todo).line)
        <3> DEFINE first == Head(h.todo).line
        <3> HIDE DEF first
        <3>1. h.todo = <<Read("row", first)>> /\ Follows(first)
            BY <2>3 DEF first
        <3>2. r = Read("row", first)
            BY <1>1, <3>1
        <3> QED
            BY <2>2, <3>1, <3>2 DEF Follows
    <2>4. CASE h.todo = <<Read("called", line)>>
        BY <1>1, <2>1, <2>2, <2>4
    <2>5. CASE h.todo = ToVisit(line, Left(h.todo))
        <3> DEFINE left == Left(h.todo)
                   task == [what |-> "children", line |-> line, left |-> left]
        <3> HIDE DEF left
        <3>1. h.todo = <<>> \/ h.todo = <<task>>
            BY <2>5 DEF left, ToVisit
        <3>2. r = task
            BY <1>1, <3>1
        <3> QED
            BY <2>1, <3>2
    <2> DEFINE clock == Read("clock", line)  operations == Read("operations", line)
               checkpoints == Read("checkpoints", line)
    <2>6. CASE h.todo \in {<<clock, operations, checkpoints>>, <<operations, checkpoints>>, <<checkpoints>>}
        <3> HIDE DEF clock, operations, checkpoints
        <3>1. r \in {clock, operations, checkpoints}
            BY <1>1, <2>6
        <3> QED
            BY <2>1, <2>2, <3>1 DEF clock, operations, checkpoints
    <2> QED
        BY <2>0, <2>3, <2>4, <2>5, <2>6 DEF Descends
<1>5. CASE h.at = "read" /\ ~ Walks(h) /\ ~ AsksVerdict(h)
    <2>1. AsksOnce(h)
        BY <1>5 DEF HandlerInv
    <2>2. \E what : h.todo = <<Read(what, <<>>)>>
        BY <2>1 DEF AsksOnce
    <2>3. PICK what : h.todo = <<Read(what, <<>>)>>
        BY <2>2
    <2>4. r = Read(what, <<>>)
        BY <1>1, <2>3
    <2>5. <<>> \in Line
        BY EmptySeq, EntryFacts
    <2> QED
        BY <2>4, <2>5 DEF Read
<1> QED
    BY <1>2, <1>3, <1>4, <1>5

-----------------------------------------------------------------------------
(* The results *)

LEMMA RInvAlways == Spec => []RInv
<1>1. Init => RInv
    BY RInvBegins
<1>2. RInv /\ [Next]_everything => RInv'
    BY RInvGoesOn
<1> QED
    BY <1>1, <1>2, PTL DEF Spec

(* Rows, reads and answers keep their types; a connection that passed its    *)
(* check is open just as long as its request reads, and one that is never    *)
(* closed is one whose check raised, of a request that fails with 502.       *)
THEOREM RequestsAreTyped == Spec => []VizTypeOK
<1>1. RInv => VizTypeOK
    <2> SUFFICES ASSUME RInv
                 PROVE  VizTypeOK
        OBVIOUS
    <2>1. /\ store \in [Ids -> StoredRow] /\ server \in {"off", "serving", "refused"}
          /\ HandlerInv(h)
        BY DEF RInv, Rows
    <2>9. Types(h)
        BY <2>1 DEF HandlerInv
    <2>2. \A r \in {h.todo[i] : i \in 1 .. Len(h.todo)} : r.line \in Line
        BY <2>1, TasksAreTyped
    <2>3. h.node.line \in Line /\ h.node.carriers \subseteq Carrier
        BY <2>9 DEF Types
    <2>5. h.shown \subseteq Shown
        BY <2>9, TypesAre
    <2>4. \A s \in h.shown :
              /\ s.line \in Line
              /\ s.state \in States \cup {"not_found", "cycle_detected", "truncated"}
        BY <2>5 DEF Shown
    <2>6. /\ h.at \in {"waiting", "asked", "read", "respond", "answered"}
          /\ ConnectionFits(h)
          /\ h.status \in {0, 200, 400, 404, 405, 500, 502}
        BY <2>9, TypesAre
    <2> QED
        BY <2>1, <2>2, <2>3, <2>4, <2>6, Zenon DEF VizTypeOK
<1> QED
    BY <1>1, RInvAlways, PTL

(* inspect, tree and timeline show every chain of calls below the workflow   *)
(* asked for, to max_depth, each once and to its end or to a stub, and       *)
(* nothing else: whatever the rows say, a circle of calls, a workflow called *)
(* from several places, a child that is missing.                             *)
THEOREM WalksAreWhole == Spec => []WalkIsWhole
<1>1. RInv => WalkIsWhole
    BY DEF RInv, HandlerInv, Walks, WalkIsWhole, Answered
<1> QED
    BY <1>1, RInvAlways, PTL

(* A stuck verdict was found by going down from the workflow asked for, from *)
(* each one to the first it called that has not ended, as far as that goes.  *)
THEOREM VerdictsAreFromTheEnd == Spec => []DescendsToTheEnd
<1>1. RInv => DescendsToTheEnd
    BY DEF RInv, HandlerInv, AsksVerdict, EndsWell, Follows, DescendsToTheEnd, Answered
<1> QED
    BY <1>1, RInvAlways, PTL
=============================================================================
