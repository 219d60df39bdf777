----------------------------- MODULE VizRequest -----------------------------
(***************************************************************************)
(* The observer, microflows-viz: how one request to its server is answered *)
(* (server.py) with the queries of dbq.py, and how the server starts       *)
(* (cli.py).  A request has its own thread and its own connection and      *)
(* shares nothing with the others, so one request is modelled.             *)
(*                                                                         *)
(* The connection commits by itself: each SELECT sees the rows as they are *)
(* at that moment, and an answer is put together from several moments.     *)
(* The rows are the variable store; this module says nothing of how they   *)
(* change.  Viz gives it the rows of a live engine, MCVizRequest rows of   *)
(* any shape, corrupted ones included.                                     *)
(***************************************************************************)
EXTENDS Integers, Sequences, FiniteSets

CONSTANTS
    Ids,            \* workflow ids
    Matching,       \* those the script and the created_at bounds of a search select
    Depths,         \* the values of max_depth asked for; one that is no number is below 1
    Views,          \* the endpoints that are asked for
    Spellings,      \* how the hex digits of an id are spelled
    Stores          \* the databases a request is put to when nothing changes them

States == {"absent", "forward", "reversing", "blocked",
           "completed", "reversed", "resolved_exception", "failed"}

(* Deviations: a workflow parked for an operator, or one that has failed and *)
(* is unwinding, has come to its end.                                        *)
UnwindingIsTerminal == {"reversing", "completed", "reversed", "resolved_exception", "failed"}
BlockedIsTerminal == {"blocked", "completed", "reversed", "resolved_exception", "failed"}
Terminal == {"completed", "reversed", "resolved_exception", "failed"}

(* A row of tb_mf_operation or tb_mf_workflow_checkpoint that counts         *)
(* deferrals: by which timer, and whether it has been settled.               *)
Carrier == [timer: {"redispatch", "reconcile"}, settled: BOOLEAN]

(* A row of tb_mf_call: the child that an operation called. *)
CallRow == [seq: Nat, child: Ids]

StoredRow ==
    [state: States, leased: BOOLEAN, lapsed: BOOLEAN, due: BOOLEAN, calls: SUBSET CallRow,
     operations: SUBSET Carrier, checkpoints: SUBSET Carrier]

WalkViews == {"inspect", "tree", "timeline"}

ASSUME VizAssumption ==
    /\ Matching \subseteq Ids
    /\ Depths \subseteq Int
    /\ Views \subseteq WalkViews \cup {"stuck", "health", "search", "static", "unknown", "mutate"}
    /\ Spellings \subseteq {"lower", "upper"}
    /\ Stores \subseteq [Ids -> StoredRow]

VARIABLES
    store,      \* the rows of the coordinator database
    server,     \* "off", "serving", or "refused": the process exits with 1
    h           \* the request and what its handler has read

-----------------------------------------------------------------------------
(* Requests, and what a handler holds *)

(* An id as it is compared in Python: the one asked for keeps the spelling   *)
(* of the request, those read from the database are in lower case.           *)
Key(w, spelling) == <<w, spelling>>
Lower(w) == Key(w, "lower")

(* A search filters by a state, by none, or by a name that is no state's;    *)
(* "unbounded" is one that leaves the script or a bound out.                 *)
Filters == (States \ {"absent"}) \cup {"any", "no such state", "unbounded"}

(* Under the static root, on the list of what is served from it, or neither. *)
Files == {"allowed", "not allowed", "absent"}
NoFile == "no file"
ARequest == [view |-> "tree", key |-> Lower(CHOOSE w \in Ids : TRUE), depth |-> 1,
             filter |-> "any", file |-> NoFile]

ForView(view) == [ARequest EXCEPT !.view = view]
ForWorkflow(view, key, depth) == [ForView(view) EXCEPT !.key = key, !.depth = depth]
ForSearch(filter) == [ForView("search") EXCEPT !.filter = filter]
ForFile(file) == [ForView("static") EXCEPT !.file = file]

Requests ==
    {r \in {ForWorkflow(v, Key(w, c), d) :
                v \in WalkViews \cup {"stuck"}, w \in Ids, c \in Spellings, d \in Depths}
           \cup {ForSearch(f) : f \in Filters}
           \cup {ForFile(f) : f \in Files}
           \cup {ForView(v) : v \in {"health", "unknown", "mutate"}} :
        r.view \in Views}

NoVerdict == [verdict |-> "none", line |-> <<>>, carriers |-> {}]
NoNode == [line |-> <<>>, state |-> "absent", leased |-> FALSE, lapsed |-> FALSE, due |-> FALSE,
           carriers |-> {}]

Waiting == [at |-> "waiting", q |-> ARequest, connection |-> "none", todo |-> <<>>,
            node |-> NoNode, shown |-> {}, answer |-> NoVerdict, status |-> 0]

Asked(q) == [Waiting EXCEPT !.at = "asked", !.q = q]

(* Deviation: the connection is left to the garbage collector. *)
ConcludedOpen(d, status) ==
    [d EXCEPT !.at = "respond", !.status = status, !.todo = <<>>, !.node = NoNode]

(* What has been read no longer matters once it has been put in the answer. *)
Concluded(d, status) ==
    [d EXCEPT !.at = "respond", !.status = status, !.todo = <<>>, !.node = NoNode,
              !.connection = IF @ = "open" THEN "closed" ELSE @]
Failed(d, status) == [Concluded(d, status) EXCEPT !.shown = {}]

-----------------------------------------------------------------------------
(* The order of the reads *)

(* A read of one table, of the workflow at the end of a line; `left` is what *)
(* is left to visit of its calls.                                            *)
Read(what, line) == [what |-> what, line |-> line, left |-> {}]
Depth(line) == Len(line) - 1
Seen(line) == {line[i] : i \in 1 .. Len(line)}
Above(line) == SubSeq(line, 1, Len(line) - 1)
IsCircle(line) == line[Len(line)] \in Seen(Above(line))
WorkflowOf(line) == line[Len(line)][1]

(* The tables of a node, after its row, in the order they are read; the      *)
(* children come last, each a node.                                          *)
NodeReads(view, line) ==
    CASE view = "inspect" -> [i \in 1 .. 6 |->
               Read(<<"plan", "args", "operations", "calls", "checkpoints", "events">>[i], line)]
      [] view = "stuck" /\ Depth(line) = 0 ->
               <<Read("clock", line), Read("operations", line), Read("checkpoints", line)>>
      [] view = "stuck" /\ Depth(line) # 0 -> <<Read("operations", line), Read("checkpoints", line)>>
      [] OTHER -> <<Read("calls", line)>>

(* How many of them follow the calls. *)
AfterCalls(view) == IF view = "inspect" THEN 2 ELSE 0

(* ORDER BY operation_seq. *)
Earliest(calls) == {c \in calls : \A d \in calls : c.seq <= d.seq}
ToVisit(line, calls) ==
    IF calls = {} THEN <<>> ELSE <<[what |-> "children", line |-> line, left |-> calls]>>

FirstReads(q) ==
    CASE q.view = "health" -> <<Read("clock", <<>>)>>
      [] q.view = "search" -> <<Read("summaries", <<>>)>>
      [] q.view = "timeline" -> <<Read("row", <<q.key>>), Read("merged events", <<>>)>>
      [] OTHER -> <<Read("row", <<q.key>>)>>

Next1(d) == Head(d.todo)
Done1(d) == [d EXCEPT !.todo = Tail(@)]
Reading(what) == h.at = "read" /\ h.todo # <<>> /\ Next1(h).what = what
Becomes(d) == h' = d /\ UNCHANGED server
Show(d, line, state) == [d EXCEPT !.shown = @ \cup {[line |-> line, state |-> state]}]

(* Deviation: a workflow already walked anywhere is not walked again. *)
DescendOnce(d, line) ==
    CASE \E s \in d.shown : s.line[Len(s.line)] = line[Len(line)] -> "cycle_detected"
      [] Depth(line) > d.q.depth -> "truncated"
      [] OTHER -> "walked"

(* The walk of a child: a stub if it is above itself or too deep. *)
Descend(d, line) ==
    CASE IsCircle(line) -> "cycle_detected"
      [] Depth(line) > d.q.depth /\ ~ IsCircle(line) -> "truncated"
      [] OTHER -> "walked"

-----------------------------------------------------------------------------
(* Reading *)

(* SELECT ... FROM tb_mf_workflow, of the workflow asked for, or of one that *)
(* a stuck verdict descends to; the latter was there a moment ago, and rows  *)
(* are never deleted.                                                        *)
ReadRow ==
    /\ Reading("row")
    /\ LET line == Next1(h).line
           row == store[WorkflowOf(line)]
           on == [h EXCEPT !.todo = NodeReads(h.q.view, line) \o Tail(@)]
       IN  CASE row.state = "absent" -> Becomes(Failed(h, 404))
             [] row.state # "absent" /\ h.q.view = "stuck" ->
                    Becomes([on EXCEPT !.node =
                               [line |-> line, state |-> row.state, leased |-> row.leased,
                                lapsed |-> row.lapsed, due |-> row.due, carriers |-> {}]])
             [] OTHER -> Becomes(Show(on, line, row.state))

(* The next child of a walk: a stub, for which nothing is read; or its row,  *)
(* and then its other tables.  A child that is not there is an error of its  *)
(* own in the answer.                                                        *)
VisitChild ==
    /\ Reading("children") /\ h.q.view # "stuck"
    /\ \E call \in Earliest(Next1(h).left) :
          LET above == Next1(h).line
              line == Append(above, Lower(call.child))
              row == store[call.child]
              after == ToVisit(above, Next1(h).left \ {call}) \o Tail(h.todo)
              on == [h EXCEPT !.todo = after]
          IN  CASE Descend(h, line) # "walked" -> Becomes(Show(on, line, Descend(h, line)))
                [] Descend(h, line) = "walked" /\ row.state = "absent" ->
                       Becomes(Show(on, line, "not_found"))
                [] OTHER -> Becomes(Show([on EXCEPT !.todo = NodeReads(h.q.view, line) \o @],
                                         line, row.state))

(* Tables whose rows go into the answer and decide nothing about the walk,   *)
(* and the clock.                                                            *)
ReadDetail ==
    /\ \E what \in {"plan", "args", "events"} : Reading(what)
    /\ Becomes(Done1(h))

ReadOperations ==
    /\ Reading("operations")
    /\ Becomes(IF h.q.view = "stuck"
               THEN [Done1(h) EXCEPT !.node.carriers = store[WorkflowOf(h.node.line)].operations]
               ELSE Done1(h))

(* tb_mf_call: the children, to be walked when the node has been read. *)
ReadCalls ==
    /\ Reading("calls")
    /\ LET line == Next1(h).line
           others == Tail(h.todo)
           n == AfterCalls(h.q.view)
       IN  Becomes([h EXCEPT !.todo = SubSeq(others, 1, n)
                                      \o ToVisit(line, store[WorkflowOf(line)].calls)
                                      \o SubSeq(others, n + 1, Len(others))])

(* Everything a walk returns has been read: the one SELECT of the timeline   *)
(* takes the events of all of it.  Each row, its id in lower case, is looked *)
(* up among the ids as the walk has them.                                    *)
Nodes(d) == {s \in d.shown : s.state \in States}
Walked(d) == {s.line[Len(s.line)] : s \in Nodes(d)}
ReadMergedEvents ==
    /\ Reading("merged events")
    /\ Becomes(IF \A k \in Walked(h) : Lower(k[1]) \in Walked(h) THEN Done1(h) ELSE Failed(h, 502))

(* Deviation: the heading is read again when all else has been read. *)
FinishWithFreshHeading ==
    /\ h.at = "read" /\ h.todo = <<>> /\ h.q.view \in WalkViews
    /\ Becomes([Concluded(h, 200) EXCEPT !.shown =
                   {IF Len(s.line) = 1 THEN [s EXCEPT !.state = store[s.line[1][1]].state] ELSE s : s \in @}])

FinishWalk ==
    /\ h.at = "read" /\ h.todo = <<>> /\ h.q.view \in WalkViews
    /\ Becomes(Concluded(h, 200))

(* One SELECT, one moment. *)
Found(filter) == {w \in Matching : store[w].state # "absent" /\ filter \in {"any", store[w].state}}
ReadSummaries ==
    /\ Reading("summaries")
    /\ IF h.q.filter = "no such state" THEN Becomes(Failed(h, 400))
       ELSE Becomes([Concluded(h, 200) EXCEPT !.shown =
                        {[line |-> <<Lower(w)>>, state |-> store[w].state] : w \in Found(h.q.filter)}])

(* NOW(6): all there is to health, and what a stuck verdict measures every   *)
(* workflow on its path by.                                                  *)
ReadClock ==
    /\ Reading("clock")
    /\ Becomes(IF h.q.view = "health" THEN Concluded(h, 200) ELSE Done1(h))

-----------------------------------------------------------------------------
(* The stuck verdict *)

(* The clock was read after the first row and before all others.  A lease    *)
(* that had run out when the first row was read has run out by the clock; a  *)
(* lease that is still running when a child is read is running by the clock. *)
JudgedLive(node) ==
    IF Depth(node.line) = 0 THEN (IF node.lapsed THEN {FALSE} ELSE BOOLEAN)
                            ELSE (IF node.lapsed THEN BOOLEAN ELSE {TRUE})

(* Likewise for next_attempt_at. *)
JudgedDue(node) ==
    IF Depth(node.line) = 0 THEN (IF node.due THEN {TRUE} ELSE BOOLEAN)
                            ELSE (IF node.due THEN BOOLEAN ELSE {FALSE})

Verdict(d, verdict, carriers) ==
    [Concluded(d, 200) EXCEPT !.answer = [verdict |-> verdict, line |-> d.node.line,
                                          carriers |-> carriers]]

(* Terminal before blocked before a live lease; only then the children. *)
ReadCheckpoints ==
    /\ Reading("checkpoints")
    /\ IF h.q.view # "stuck" THEN Becomes(Done1(h))
       ELSE LET node == [h.node EXCEPT !.carriers =
                            @ \cup store[WorkflowOf(h.node.line)].checkpoints]
                on == [h EXCEPT !.node = node, !.todo = <<Read("called", node.line)>>]
            IN  CASE node.state \in Terminal -> Becomes(Verdict(h, "terminal", {}))
                  [] node.state \notin Terminal /\ node.state = "blocked" ->
                        Becomes(Verdict(h, "blocked_resolution", {}))
                  [] OTHER -> \E live \in IF node.leased THEN JudgedLive(node) ELSE {FALSE} :
                        Becomes(IF live THEN Verdict(h, "running_under_lease", {}) ELSE on)

(* Deviation: what is above is forgotten on the way down. *)
ReadCalledAnew ==
    /\ Reading("called")
    /\ LET line == h.node.line
       IN  Becomes([h EXCEPT !.todo = ToVisit(<<line[Len(line)]>>, store[WorkflowOf(line)].calls)])

(* Deviation: only the first call is looked at. *)
ReadFirstCalled ==
    /\ Reading("called")
    /\ LET line == h.node.line
       IN  Becomes([h EXCEPT !.todo = ToVisit(line, Earliest(store[WorkflowOf(line)].calls))])

ReadCalled ==
    /\ Reading("called")
    /\ LET line == h.node.line
       IN  Becomes([h EXCEPT !.todo = ToVisit(line, store[WorkflowOf(line)].calls)])

(* The first child that has not ended has the answer; one that is above      *)
(* itself is passed over.                                                    *)
AskChild ==
    /\ Reading("children") /\ h.q.view = "stuck"
    /\ \E call \in Earliest(Next1(h).left) :
          LET above == Next1(h).line
              line == Append(above, Lower(call.child))
              unfinished == store[call.child].state \notin Terminal \cup {"absent"}
          IN  Becomes([h EXCEPT !.todo = IF unfinished /\ ~ IsCircle(line)
                                         THEN <<Read("row", line)>>
                                         ELSE ToVisit(above, Next1(h).left \ {call})])

On(timer) == {c \in h.node.carriers : c.timer = timer}

(* No child to wait for: the escalation, the budget, the schedule. *)
FinishStuck ==
    /\ h.at = "read" /\ h.todo = <<>> /\ h.q.view = "stuck"
    /\ CASE On("redispatch") # {} -> Becomes(Verdict(h, "redispatch_pending", On("redispatch")))
         [] On("redispatch") = {} /\ On("reconcile") # {} ->
               Becomes(Verdict(h, "reconcile_pending", On("reconcile")))
         [] OTHER -> \E due \in JudgedDue(h.node) :
               Becomes(Verdict(h, IF due THEN "claimable_now" ELSE "scheduled_retry", {}))

-----------------------------------------------------------------------------
(* The server and the handler *)

(* Anything wrong with the command line, or a database that does not run     *)
(* UTC, ends the process; a database that cannot be reached does not.        *)
Start(listen, allowRemote, password, ui, database) ==
    /\ server = "off"
    /\ server' = IF /\ listen # "malformed"
                    /\ listen = "loopback" \/ allowRemote
                    /\ password
                    /\ database # "not utc"
                    /\ ui
                 THEN "serving" ELSE "refused"
    /\ UNCHANGED h

Receive(q) ==
    /\ server = "serving"
    /\ h.at = "waiting"
    /\ Becomes(Asked(q))

(* Answered without the database. *)
Refuse ==
    /\ h.at = "asked"
    /\ \/ h.q.view = "mutate" /\ Becomes(Concluded(h, 405))
       \/ h.q.view = "unknown" /\ Becomes(Concluded(h, 404))
       \/ h.q.view \in WalkViews \cup {"stuck"} /\ h.q.depth < 1 /\ Becomes(Concluded(h, 400))
       \/ h.q.view = "search" /\ h.q.filter = "unbounded" /\ Becomes(Concluded(h, 400))

(* The file may be gone again when it is read. *)
ServeFile ==
    /\ h.at = "asked" /\ h.q.view = "static"
    /\ \/ h.q.file # "allowed" /\ Becomes(Concluded(h, 404))
       \/ h.q.file = "allowed" /\ \E status \in {200, 500} : Becomes(Concluded(h, status))

(* Every connection is asked whether it runs UTC before it is used.  One     *)
(* that does not is closed; one on which the question itself raises is not:  *)
(* no handler gets hold of it.                                               *)
Connect ==
    /\ h.at = "asked"
    /\ \/ h.q.view = "health"
       \/ h.q.view = "search" /\ h.q.filter # "unbounded"
       \/ h.q.view \in WalkViews \cup {"stuck"} /\ h.q.depth >= 1
    /\ \/ Becomes([h EXCEPT !.at = "read", !.connection = "open", !.todo = FirstReads(h.q)])
       \/ Becomes(Failed([h EXCEPT !.connection = "closed"], 502))     \* not UTC
       \/ Becomes(Failed([h EXCEPT !.connection = "unchecked"], 502))  \* no answer
       \/ Becomes(Failed(h, 502))                                      \* not reached

(* Any read may find the database gone; for a stub nothing is read. *)
IsStub(line) == IF h.q.view = "stuck" THEN IsCircle(line) ELSE Descend(h, line) # "walked"
LoseDatabase ==
    /\ h.at = "read" /\ h.todo # <<>>
    /\ Next1(h).what = "children" =>
          \E call \in Earliest(Next1(h).left) :
              ~ IsStub(Append(Next1(h).line, Lower(call.child)))
    /\ Becomes(Failed(h, 502))

(* The client may have gone away: nothing is sent and nothing is raised.     *)
Bare(status) ==
    [Waiting EXCEPT !.at = "answered", !.status = status, !.connection = h.connection]
Respond ==
    /\ h.at = "respond"
    /\ \/ Becomes(IF h.status = 200 THEN [h EXCEPT !.at = "answered"] ELSE Bare(h.status))
       \/ Becomes(Bare(0))

Reads ==
    \/ ReadRow \/ VisitChild \/ ReadDetail \/ ReadOperations \/ ReadCalls \/ ReadMergedEvents \/ FinishWalk
    \/ ReadSummaries \/ ReadClock
    \/ ReadCheckpoints \/ ReadCalled \/ AskChild \/ FinishStuck

Handles == Refuse \/ ServeFile \/ Connect \/ Reads \/ LoseDatabase \/ Respond

StartsSomehow ==
    \E listen \in {"loopback", "remote", "malformed"}, allowRemote, password, ui \in BOOLEAN,
       database \in {"utc", "not utc", "unreachable"} :
          Start(listen, allowRemote, password, ui, database)

Init ==
    /\ store \in Stores
    /\ server = "off"
    /\ h = Waiting

Next == UNCHANGED store /\ (StartsSomehow \/ (\E q \in Requests : Receive(q)) \/ Handles)

(* The thread of a request runs, and every call of the driver returns or     *)
(* raises.                                                                   *)
everything == <<store, server, h>>
Spec == Init /\ [][Next]_everything /\ WF_everything(UNCHANGED store /\ Handles)

-----------------------------------------------------------------------------
(* Properties *)

Answered(views) == h.at = "answered" /\ h.q.view \in views /\ h.status = 200

Line == Seq(Ids \X {"lower", "upper"})

(* A connection is open just while its handler reads; the only one that is  *)
(* never closed is one whose check raised, and its request fails.           *)
ConnectionFits(d) ==
    /\ d.connection \in {"none", "open", "unchecked", "closed"}
    /\ d.connection = "open" <=> d.at = "read"
    /\ d.connection = "unchecked" => d.at \in {"respond", "answered"} /\ d.status \in {0, 502}

(* Rows, reads and answers keep their types, and the connection fits.       *)
VizTypeOK ==
    /\ store \in [Ids -> StoredRow]
    /\ server \in {"off", "serving", "refused"}
    /\ h.at \in {"waiting", "asked", "read", "respond", "answered"}
    /\ ConnectionFits(h)
    /\ h.status \in {0, 200, 400, 404, 405, 500, 502}
    /\ \A r \in {h.todo[i] : i \in 1 .. Len(h.todo)} : r.line \in Line
    /\ h.node.line \in Line /\ h.node.carriers \subseteq Carrier
    /\ \A s \in h.shown :
          s.line \in Line /\ s.state \in States \cup {"not_found", "cycle_detected", "truncated"}

(* What a walk of a database that stands still has to show: every chain of   *)
(* calls from the workflow asked for, as far as max_depth allows, each       *)
(* ending in a stub that says why it goes no further, and nothing else.      *)
IsChain(line) ==
    \A i \in 1 .. Len(line) - 1 :
        \E call \in store[line[i][1]].calls : Lower(call.child) = line[i + 1]
IsWalkedDown(line, depth) ==
    \A i \in 1 .. Len(line) - 1 :
        /\ i - 1 <= depth
        /\ store[line[i][1]].state # "absent"
        /\ \A j \in 1 .. i - 1 : line[j] # line[i]
StateToShow(line, depth) ==
    IF IsCircle(line) THEN "cycle_detected"
    ELSE IF Depth(line) > depth THEN "truncated"
    ELSE IF store[WorkflowOf(line)].state = "absent" THEN "not_found"
    ELSE store[WorkflowOf(line)].state

Chains(q) ==
    UNION {{<<q.key>> \o rest : rest \in [1 .. n -> {Lower(w) : w \in Ids}]} : n \in 0 .. q.depth + 1}
Wanted(q) == {line \in Chains(q) : IsChain(line) /\ IsWalkedDown(line, q.depth)}
ToShow(q) == {[line |-> line, state |-> StateToShow(line, q.depth)] : line \in Wanted(q)}

(* The three walks show just that: a workflow called from two places is      *)
(* shown at both, a missing or corrupted row cuts only its own branch off.   *)
WalkIsWhole == Answered(WalkViews) => h.shown = ToShow(h.q)

(* A stuck verdict is that of the workflow at which all above it are         *)
(* waiting: each is followed by the first it called that has not ended, none *)
(* of them has an answer of its own, and the last waits for none.            *)
Unfinished(line) ==
    {c \in store[WorkflowOf(line)].calls :
        /\ Lower(c.child) \notin Seen(line)
        /\ store[c.child].state \in {"forward", "reversing", "blocked"}}

DescendsToTheEnd ==
    Answered({"stuck"}) =>
        LET line == h.answer.line
        IN  /\ \A n \in 1 .. Len(line) - 1 :
                  /\ store[line[n][1]].state \in {"forward", "reversing"}
                  /\ \E c \in Earliest(Unfinished(SubSeq(line, 1, n))) : line[n + 1] = Lower(c.child)
            /\ Unfinished(line) # {} =>
                  h.answer.verdict \in {"terminal", "blocked_resolution", "running_under_lease"}

(* Every request comes to an answer, or to a client that has gone, with      *)
(* whatever calls are recorded, circles included.                            *)
RequestEnds == (h.at = "asked") ~> (h.at = "answered")
=============================================================================
