------------------------------ MODULE Singular ------------------------------
(***************************************************************************)
(* The Singular work-item store: the stored procedures                     *)
(* sp_singular_{start,resume,extend_lease,complete,fail,inspect} over the  *)
(* tables tb_singular_work_item (one projection row per key) and           *)
(* tb_singular_work_item_history (one row per event, keyed by key and      *)
(* event_ts).                                                              *)
(*                                                                         *)
(* A procedure locks its projection row and runs in one transaction, so a  *)
(* call is one step.  Callers are not modelled one by one: any call may    *)
(* arrive at any time with any lease token and any caller-supplied time,   *)
(* which covers workers that are slow, restarted, superseded, whose clock  *)
(* is wrong, or that repeat a call whose answer was lost.  A call that     *)
(* only reports exists, not_found, active, token_stale or an error changes *)
(* no state and is a stuttering step.                                      *)
(***************************************************************************)
EXTENDS Naturals, FiniteSets

CONSTANTS
    Keys,       \* idempotency keys of one service group
    Tokens,     \* 16-byte lease tokens
    Payloads,   \* result and error documents
    Times,      \* event times and lease deadlines, supplied by the callers
    NoToken,    \* SQL NULL in a token column
    NoPayload   \* the empty document of an event that carries no outcome

ASSUME ConstantsAssumption ==
    /\ Times \subseteq Nat \ {0}
    /\ NoToken \notin Tokens
    /\ NoPayload \notin Payloads

VARIABLES
    head,       \* current_event_ts of the projection row, 0 when there is no row
    current,    \* current_lease_token
    terminal,   \* terminal_lease_token
    history,    \* the history rows
    told,       \* terminal documents callers have been given (for checking only)
    grants      \* leases callers have been granted (for checking only)

projection == <<head, current, terminal>>
vars == <<head, current, terminal, history, told, grants>>

-----------------------------------------------------------------------------
(* The rows *)

WorkingTypes  == {"claimed", "extended"}     \* event types with status WORKING
TerminalTypes == {"completed", "failed"}     \* event types with status DONE or FAILED
NoTime == 0                                  \* lease_expires_at NULL

Event == [ts: Times, type: WorkingTypes \cup TerminalTypes, token: Tokens,
          expires: Times \cup {NoTime}, payload: Payloads \cup {NoPayload}]

Answer == [type: TerminalTypes, payload: Payloads]

TypeOK ==
    /\ head \in [Keys -> Times \cup {0}]
    /\ current \in [Keys -> Tokens \cup {NoToken}]
    /\ terminal \in [Keys -> Tokens \cup {NoToken}]
    /\ history \in [Keys -> SUBSET Event]
    /\ told \in [Keys -> SUBSET Answer]
    /\ grants \in [Keys -> SUBSET [token: Tokens, attempt: Nat]]

(* The history row current_event_ts points to, by its status. *)
Heads(k)         == {e \in history[k] : e.ts = head[k]}
WorkingHeads(k)  == {e \in Heads(k) : e.type \in WorkingTypes}
TerminalHeads(k) == {e \in Heads(k) : e.type \in TerminalTypes}

Claims(k) == {e \in history[k] : e.type = "claimed"}

(* The capability check of the fenced procedures. *)
HolderOrPastHolder(k, t) == t \in {e.token : e \in Claims(k)}
IsHolder(k, t) == t = current[k]

(* Event times are strictly increasing per key. *)
NotARecordedTime(k, ts) == ts # head[k]
IsAfterHead(k, ts) == ts > head[k]

(* The lease of a working item has run out: its deadline is still covered. *)
HasReachedDeadline(k, ts) == \E e \in WorkingHeads(k) : ts >= e.expires
HasExpired(k, ts) == \E e \in WorkingHeads(k) : ts > e.expires

(* Each claim numbers its attempt by the claims recorded before it. *)
EventsSoFar(k) == Cardinality(history[k])
RecoveryAttempt(k) == Cardinality(Claims(k))

(* INSERT of an event and UPDATE of the projection's current_event_ts. *)
Append(k, e) ==
    /\ history' = [history EXCEPT ![k] = @ \cup {e}]
    /\ head' = [head EXCEPT ![k] = e.ts]

(* The terminal document of the head event, handed to a caller. *)
Tell(k, e) == told' = [told EXCEPT ![k] = @ \cup {[type |-> e.type, payload |-> e.payload]}]

Grant(k, t, n) == grants' = [grants EXCEPT ![k] = @ \cup {[token |-> t, attempt |-> n]}]

Lease(ts, type, t, expires) ==
    [ts |-> ts, type |-> type, token |-> t, expires |-> expires, payload |-> NoPayload]

OutcomeWithoutDocument(ts, type, t, p) ==
    [ts |-> ts, type |-> type, token |-> t, expires |-> NoTime, payload |-> NoPayload]

Outcome(ts, type, t, p) ==
    [ts |-> ts, type |-> type, token |-> t, expires |-> NoTime, payload |-> p]

-----------------------------------------------------------------------------
(* The procedures *)

(* The first submission: the primary key lets one INSERT through. *)
Start(k, t, ts, expires) ==
    /\ expires > ts
    /\ head[k] = 0
    /\ Append(k, Lease(ts, "claimed", t, expires))
    /\ current' = [current EXCEPT ![k] = t]
    /\ Grant(k, t, 0)
    /\ UNCHANGED <<terminal, told>>

(* The writer's token, and no other, learns a settled item's document. *)
ReplayToWriter(k, t) ==
    \E e \in TerminalHeads(k) :
        /\ t = terminal[k]
        /\ Tell(k, e)
        /\ UNCHANGED <<projection, history, grants>>

(* Deviation: the writer's token may settle its item again. *)
SettleAgain(k, t, ts, type, p) ==
    /\ Heads(k) # {}
    /\ t \in {current[k], terminal[k]}
    /\ IsAfterHead(k, ts)
    /\ Append(k, Outcome(ts, type, t, p))
    /\ terminal' = [terminal EXCEPT ![k] = t]
    /\ current' = [current EXCEPT ![k] = NoToken]
    /\ Tell(k, Outcome(ts, type, t, p))
    /\ UNCHANGED grants

(* The holder's token settles a working item, whatever its deadline. *)
Settle(k, t, ts, type, p) ==
    /\ WorkingHeads(k) # {}
    /\ IsHolder(k, t)
    /\ IsAfterHead(k, ts)
    /\ Append(k, Outcome(ts, type, t, p))
    /\ terminal' = [terminal EXCEPT ![k] = t]
    /\ current' = [current EXCEPT ![k] = NoToken]
    /\ Tell(k, Outcome(ts, type, t, p))
    /\ UNCHANGED grants

Complete(k, t, ts, p) == Settle(k, t, ts, "completed", p) \/ ReplayToWriter(k, t)

Fail(k, t, ts, p) == Settle(k, t, ts, "failed", p) \/ ReplayToWriter(k, t)

(* The deadline is taken as given: it may be earlier than the one it replaces. *)
ExtendLease(k, t, ts, expires) ==
    \/ /\ WorkingHeads(k) # {}
       /\ IsHolder(k, t)
       /\ IsAfterHead(k, ts)
       /\ expires > ts
       /\ Append(k, Lease(ts, "extended", t, expires))
       /\ UNCHANGED <<current, terminal, told, grants>>
    \/ ReplayToWriter(k, t)

(* A terminal item is replayed to anyone, with or without a recovery lease. *)
Replay(k) ==
    \E e \in TerminalHeads(k) :
        /\ Tell(k, e)
        /\ UNCHANGED <<projection, history, grants>>

(* A working item is reclaimed only after its deadline, by a token the      *)
(* caller has minted for this claim.                                        *)
Reclaim(k, t, ts, expires) ==
    /\ \A e \in history[k] : e.token # t
    /\ expires > ts
    /\ HasExpired(k, ts)
    /\ IsAfterHead(k, ts)
    /\ Append(k, Lease(ts, "claimed", t, expires))
    /\ current' = [current EXCEPT ![k] = t]
    /\ Grant(k, t, RecoveryAttempt(k))
    /\ UNCHANGED <<terminal, told>>

Resume(k, t, ts, expires) == Replay(k) \/ Reclaim(k, t, ts, expires)

Inspect(k) == Replay(k)

-----------------------------------------------------------------------------
Init ==
    /\ head = [k \in Keys |-> 0]
    /\ current = [k \in Keys |-> NoToken]
    /\ terminal = [k \in Keys |-> NoToken]
    /\ history = [k \in Keys |-> {}]
    /\ told = [k \in Keys |-> {}]
    /\ grants = [k \in Keys |-> {}]

Next ==
    \E k \in Keys :
        \/ Inspect(k)
        \/ \E t \in Tokens, ts \in Times :
              \/ \E expires \in Times :
                    \/ Start(k, t, ts, expires)
                    \/ Resume(k, t, ts, expires)
                    \/ ExtendLease(k, t, ts, expires)
              \/ \E p \in Payloads :
                    \/ Complete(k, t, ts, p)
                    \/ Fail(k, t, ts, p)

Spec == Init /\ [][Next]_vars

-----------------------------------------------------------------------------
(* Safety *)

(* The projection row is a faithful summary of the history: the event it    *)
(* points to exists and is the latest, two events never share a time, the   *)
(* live token is the one that wrote a working head, and a settled item has  *)
(* no live token and pins its writer.  Every procedure decides from the     *)
(* projection and the one history row it points to.                         *)
ProjectionSummarisesHistory ==
    \A k \in Keys :
        /\ head[k] = 0 => history[k] = {} /\ current[k] = NoToken /\ terminal[k] = NoToken
        /\ head[k] # 0 => Heads(k) # {}
        /\ \A d, e \in history[k] : d.ts = e.ts => d = e
        /\ \A e \in history[k] : e.ts <= head[k]
        /\ \A e \in WorkingHeads(k) : current[k] = e.token /\ terminal[k] = NoToken
        /\ \A e \in TerminalHeads(k) : terminal[k] = e.token /\ current[k] = NoToken

(* Fencing: after a second claim, the token of the first writes nothing any *)
(* more, no lease extension and no outcome, however late its call arrives.  *)
Fenced ==
    \A k \in Keys : \A c, d \in Claims(k) : \A e \in history[k] :
        c.ts < d.ts /\ d.ts <= e.ts => e.token # c.token

(* The outcome of an item is its last event, written once: complete and     *)
(* fail, retried and crossed by workers that all believe they hold the      *)
(* lease, leave one terminal event and nothing after it.                    *)
OutcomeIsLast ==
    \A k \in Keys : \A e \in history[k] : e.type \in TerminalTypes => e.ts = head[k]

(* Leases exclude: a worker that was told a deadline and has not moved it   *)
(* since is not superseded by another token at or before that deadline.     *)
ExclusiveUntilDeadline ==
    \A k \in Keys : \A w \in history[k], c \in Claims(k) :
        w.type \in WorkingTypes /\ w.ts < c.ts /\ w.token # c.token
        => \/ c.ts > w.expires
           \/ \E e \in history[k] : e.token = w.token /\ w.ts < e.ts /\ e.ts < c.ts

(* Whatever mixture of settle calls, replays, resumes and inspections they   *)
(* made, all callers who were told an outcome were told the same one, and it *)
(* is the stored one.                                                       *)
AnswersAgree ==
    \A k \in Keys : \A a \in told[k] :
        \E e \in TerminalHeads(k) : e.type = a.type /\ e.payload = a.payload

(* The attempt numbers handed out with claims are 0, 1, 2, ... without gap  *)
(* or repetition: a worker can tell its attempt from every other.           *)
AttemptsAreNumbered ==
    \A k \in Keys :
        /\ {g.attempt : g \in grants[k]} = 0 .. Cardinality(Claims(k)) - 1
        /\ Cardinality(grants[k]) = Cardinality(Claims(k))

(* Terminal immutability: nothing changes the rows of a settled item.        *)
TerminalIsImmutable ==
    [][\A k \in Keys : TerminalHeads(k) # {} =>
          /\ history'[k] = history[k]
          /\ <<head'[k], current'[k], terminal'[k]>> = <<head[k], current[k], terminal[k]>>]_vars

-----------------------------------------------------------------------------
(* What the store promises, without times, tokens' columns or a history. *)

Settled(k) == {[type |-> e.type, payload |-> e.payload] : e \in TerminalHeads(k)}

Register == INSTANCE SingularRegister WITH
    Outcomes <- Answer,
    Workers  <- Tokens,
    Nobody   <- NoToken,
    holder   <- current,
    winner   <- terminal,
    claimed  <- [k \in Keys |-> {e.token : e \in history[k]}],
    decided  <- [k \in Keys |-> Settled(k)],
    known    <- told

ImplementsRegister == Register!Spec
=============================================================================
