--------------------------- MODULE SingularProofs ---------------------------
(***************************************************************************)
(* Safety of the Singular store for every set of keys, tokens, documents   *)
(* and times.  Every step of Next either hands out the document of a       *)
(* settled item (Hands) or writes one event after the head (Writes); each  *)
(* conjunct of the inductive invariant IInv is shown to survive a write in *)
(* a lemma of its own.                                                     *)
(***************************************************************************)
EXTENDS Singular, FiniteSetTheorems, TLAPS

(* Strengthening: histories and grants are finite, working events carry a  *)
(* deadline, and every event was written under a claim of its token.       *)
HistoryIsFinite == \A k \in Keys : IsFiniteSet(history[k])

GrantsAreFinite == \A k \in Keys : IsFiniteSet(grants[k])

WorkingEventsHaveDeadline ==
    \A k \in Keys : \A e \in history[k] : e.type \in WorkingTypes => e.expires \in Times

AnswersHaveDocuments ==
    \A k \in Keys : \A e \in history[k] : e.type \in TerminalTypes => e.payload \in Payloads

EveryEventIsClaimed ==
    \A k \in Keys : \A e \in history[k] :
        \E c \in Claims(k) : c.ts <= e.ts /\ c.token = e.token

IInv ==
    /\ TypeOK
    /\ HistoryIsFinite
    /\ ProjectionSummarisesHistory
    /\ WorkingEventsHaveDeadline
    /\ AnswersHaveDocuments
    /\ EveryEventIsClaimed
    /\ OutcomeIsLast
    /\ Fenced
    /\ ExclusiveUntilDeadline
    /\ AnswersAgree
    /\ GrantsAreFinite
    /\ AttemptsAreNumbered

(* The two shapes of a step. *)
Hands(k) == Replay(k)

WritesLease(k, e) ==
    /\ e.type \in WorkingTypes
    /\ e.expires \in Times
    /\ current' = [current EXCEPT ![k] = e.token]
    /\ UNCHANGED <<terminal, told>>
    /\ IF e.type = "claimed" THEN Grant(k, e.token, RecoveryAttempt(k)) ELSE grants' = grants

WritesOutcome(k, e) ==
    /\ e.type \in TerminalTypes
    /\ e.payload \in Payloads
    /\ current' = [current EXCEPT ![k] = NoToken]
    /\ terminal' = [terminal EXCEPT ![k] = e.token]
    /\ Tell(k, e)
    /\ grants' = grants

Writes(k, e) ==
    /\ e \in Event
    /\ e.ts > head[k]
    /\ Append(k, e)
    /\ TerminalHeads(k) = {}
    /\ IF e.type = "claimed"
       THEN /\ \A d \in history[k] : d.token # e.token
            /\ \A d \in Heads(k) : e.ts > d.expires
       ELSE \E d \in WorkingHeads(k) : d.token = e.token
    /\ WritesLease(k, e) \/ WritesOutcome(k, e)

-----------------------------------------------------------------------------
LEMMA TimesArePositive == \A ts \in Times : ts \in Nat /\ ts > 0
BY ConstantsAssumption

LEMMA EventTime == \A e \in Event : e.ts \in Nat /\ e.ts > 0
<1>1. \A e \in Event : e.ts \in Times
  BY DEF Event
<1> QED
  BY <1>1, TimesArePositive

LEMMA RecordedTimes ==
    ASSUME TypeOK, NEW k \in Keys
    PROVE  head[k] \in Nat /\ \A d \in history[k] : d \in Event /\ d.ts \in Nat
<1>1. head[k] \in Times \cup {0} /\ history[k] \in SUBSET Event
  BY DEF TypeOK
<1> QED
  BY <1>1, TimesArePositive, EventTime

LEMMA InitInv == Init => IInv
<1> SUFFICES ASSUME Init PROVE IInv
  OBVIOUS
<1>1. ASSUME NEW k \in Keys
      PROVE  /\ history[k] = {} /\ grants[k] = {} /\ told[k] = {} /\ head[k] = 0
             /\ Heads(k) = {} /\ Claims(k) = {} /\ current[k] = NoToken /\ terminal[k] = NoToken
  BY DEF Init, Heads, Claims
<1>2. TypeOK
  BY DEF Init, TypeOK
<1>3. HistoryIsFinite /\ GrantsAreFinite /\ AttemptsAreNumbered
  <2>1. IsFiniteSet({}) /\ Cardinality({}) = 0
    BY FS_EmptySet
  <2>2. 0 .. 0 - 1 = {}
    OBVIOUS
  <2>3. \A k \in Keys : {g.attempt : g \in grants[k]} = {}
    BY <1>1
  <2>4. AttemptsAreNumbered
    BY <1>1, <2>1, <2>2, <2>3 DEF AttemptsAreNumbered
  <2> QED
    BY <1>1, <2>1, <2>4 DEF HistoryIsFinite, GrantsAreFinite
<1> QED
  BY <1>1, <1>2, <1>3
  DEF IInv, ProjectionSummarisesHistory, WorkingEventsHaveDeadline, AnswersHaveDocuments,
      EveryEventIsClaimed, OutcomeIsLast, Fenced, ExclusiveUntilDeadline, AnswersAgree,
      WorkingHeads, TerminalHeads

(* A working head excludes a terminal head: a key has at most one head. *)
LEMMA OneHead ==
    ASSUME IInv, NEW k \in Keys, NEW e \in Heads(k)
    PROVE  Heads(k) = {e}
BY DEF IInv, ProjectionSummarisesHistory, Heads

LEMMA WorkingIsNotTerminal ==
    ASSUME IInv, NEW k \in Keys, WorkingHeads(k) # {}
    PROVE  TerminalHeads(k) = {}
<1>1. PICK e \in WorkingHeads(k) : TRUE
  OBVIOUS
<1>2. e \in Heads(k) /\ e.type \in WorkingTypes
  BY <1>1 DEF WorkingHeads
<1>3. Heads(k) = {e}
  BY <1>2, OneHead
<1> QED
  BY <1>2, <1>3 DEF TerminalHeads, WorkingTypes, TerminalTypes

LEMMA AttemptIsNat ==
    ASSUME IInv, NEW k \in Keys
    PROVE  RecoveryAttempt(k) \in Nat
<1>1. IsFiniteSet(Claims(k))
  BY FS_Subset DEF IInv, HistoryIsFinite, Claims
<1> QED
  BY <1>1, FS_CardinalityType DEF RecoveryAttempt

(* Each procedure, when it writes, writes one event after the head. *)
LEMMA StartWrites ==
    ASSUME IInv, NEW k \in Keys, NEW t \in Tokens, NEW ts \in Times, NEW expires \in Times,
           Start(k, t, ts, expires)
    PROVE  Writes(k, Lease(ts, "claimed", t, expires))
<1> DEFINE e == Lease(ts, "claimed", t, expires)
<1>1. e \in Event /\ e.ts = ts /\ e.type = "claimed" /\ e.token = t /\ e.expires = expires
  BY DEF Lease, Event, WorkingTypes
<1>2. head[k] = 0 /\ Append(k, e) /\ Grant(k, t, 0) /\ UNCHANGED <<terminal, told>>
      /\ current' = [current EXCEPT ![k] = t]
  BY DEF Start
<1>3. history[k] = {}
  BY <1>2 DEF IInv, ProjectionSummarisesHistory
<1>4. Heads(k) = {} /\ TerminalHeads(k) = {}
  BY <1>3 DEF Heads, TerminalHeads
<1>5. WritesLease(k, e)
  <2>1. RecoveryAttempt(k) = 0
    BY <1>3, FS_EmptySet DEF RecoveryAttempt, Claims
  <2>2. Grant(k, e.token, RecoveryAttempt(k))
    BY <1>1, <1>2, <2>1
  <2> HIDE DEF e
  <2> QED
    BY <1>1, <1>2, <2>2 DEF WritesLease, WorkingTypes
<1>6. e.ts > head[k]
  BY <1>1, <1>2, ConstantsAssumption
<1> QED
  BY <1>1, <1>2, <1>3, <1>4, <1>5, <1>6 DEF Writes

LEMMA ReclaimWrites ==
    ASSUME IInv, NEW k \in Keys, NEW t \in Tokens, NEW ts \in Times, NEW expires \in Times,
           Reclaim(k, t, ts, expires)
    PROVE  Writes(k, Lease(ts, "claimed", t, expires))
<1> DEFINE e == Lease(ts, "claimed", t, expires)
<1>1. e \in Event /\ e.ts = ts /\ e.type = "claimed" /\ e.token = t /\ e.expires = expires
  BY DEF Lease, Event, WorkingTypes
<1>2. PICK h \in WorkingHeads(k) : ts > h.expires
  BY DEF Reclaim, HasExpired
<1>3. Heads(k) = {h} /\ TerminalHeads(k) = {}
  BY <1>2, OneHead, WorkingIsNotTerminal DEF WorkingHeads
<1>4. WritesLease(k, e)
  BY <1>1, AttemptIsNat DEF Reclaim, WritesLease, WorkingTypes
<1> QED
  BY <1>1, <1>2, <1>3, <1>4 DEF Reclaim, Writes, IsAfterHead

LEMMA ExtendWrites ==
    ASSUME IInv, NEW k \in Keys, NEW t \in Tokens, NEW ts \in Times, NEW expires \in Times,
           ExtendLease(k, t, ts, expires), ~ ReplayToWriter(k, t)
    PROVE  Writes(k, Lease(ts, "extended", t, expires))
<1> DEFINE e == Lease(ts, "extended", t, expires)
<1>1. e \in Event /\ e.ts = ts /\ e.type = "extended" /\ e.token = t /\ e.expires = expires
  BY DEF Lease, Event, WorkingTypes
<1>2. /\ WorkingHeads(k) # {}
      /\ t = current[k]
      /\ ts > head[k]
      /\ Append(k, e)
      /\ UNCHANGED <<current, terminal, told, grants>>
  BY DEF ExtendLease, IsHolder, IsAfterHead
<1>3. \A d \in WorkingHeads(k) : d.token = t
  BY <1>2 DEF IInv, ProjectionSummarisesHistory
<1>4. current' = [current EXCEPT ![k] = e.token]
  BY <1>1, <1>2 DEF IInv, TypeOK
<1>5. WritesLease(k, e)
  BY <1>1, <1>2, <1>4 DEF WritesLease, WorkingTypes
<1> QED
  BY <1>1, <1>2, <1>3, <1>5, WorkingIsNotTerminal DEF Writes

LEMMA SettleWrites ==
    ASSUME IInv, NEW k \in Keys, NEW t \in Tokens, NEW ts \in Times, NEW p \in Payloads,
           NEW type \in TerminalTypes, Settle(k, t, ts, type, p)
    PROVE  Writes(k, Outcome(ts, type, t, p))
<1> DEFINE e == Outcome(ts, type, t, p)
<1>1. e \in Event /\ e.ts = ts /\ e.type = type /\ e.token = t /\ e.payload = p
  BY DEF Outcome, Event, NoTime
<1>2. /\ WorkingHeads(k) # {}
      /\ t = current[k]
      /\ ts > head[k]
      /\ Append(k, e)
  BY DEF Settle, IsHolder, IsAfterHead
<1>3. \A d \in WorkingHeads(k) : d.token = t
  BY <1>2 DEF IInv, ProjectionSummarisesHistory
<1>4. WritesOutcome(k, e)
  BY <1>1 DEF Settle, WritesOutcome
<1>5. e.type # "claimed"
  BY <1>1 DEF TerminalTypes
<1> QED
  BY <1>1, <1>2, <1>3, <1>4, <1>5, WorkingIsNotTerminal DEF Writes

LEMMA StepShape ==
    ASSUME IInv, Next
    PROVE  \E k \in Keys : Hands(k) \/ \E e \in Event : Writes(k, e)
<1>1. PICK k \in Keys :
        \/ Inspect(k)
        \/ \E t \in Tokens, ts \in Times :
              \/ \E expires \in Times :
                    \/ Start(k, t, ts, expires)
                    \/ Resume(k, t, ts, expires)
                    \/ ExtendLease(k, t, ts, expires)
              \/ \E p \in Payloads :
                    \/ Complete(k, t, ts, p)
                    \/ Fail(k, t, ts, p)
  BY DEF Next
<1>2. CASE Inspect(k)
  BY <1>2 DEF Inspect, Hands
<1> SUFFICES ASSUME NEW t \in Tokens, NEW ts \in Times,
                    \/ \E expires \in Times :
                          \/ Start(k, t, ts, expires)
                          \/ Resume(k, t, ts, expires)
                          \/ ExtendLease(k, t, ts, expires)
                    \/ \E p \in Payloads :
                          \/ Complete(k, t, ts, p)
                          \/ Fail(k, t, ts, p)
             PROVE  Hands(k) \/ \E e : Writes(k, e)
  BY <1>1, <1>2 DEF Writes
<1>3. CASE ReplayToWriter(k, t)
  BY <1>3 DEF ReplayToWriter, Replay, Hands
<1>4. ASSUME NEW expires \in Times, Start(k, t, ts, expires)
      PROVE  \E e : Writes(k, e)
  BY <1>4, StartWrites
<1>5. ASSUME NEW expires \in Times, Resume(k, t, ts, expires)
      PROVE  Hands(k) \/ \E e : Writes(k, e)
  BY <1>5, ReclaimWrites DEF Resume, Hands
<1>6. ASSUME NEW expires \in Times, ExtendLease(k, t, ts, expires), ~ ReplayToWriter(k, t)
      PROVE  \E e : Writes(k, e)
  BY <1>6, ExtendWrites
<1>7. ASSUME NEW p \in Payloads, Complete(k, t, ts, p) \/ Fail(k, t, ts, p),
             ~ ReplayToWriter(k, t)
      PROVE  \E e : Writes(k, e)
  <2>1. PICK type \in TerminalTypes : Settle(k, t, ts, type, p)
    BY <1>7 DEF Complete, Fail, TerminalTypes
  <2> QED
    BY <2>1, SettleWrites
<1> QED
  BY <1>3, <1>4, <1>5, <1>6, <1>7

-----------------------------------------------------------------------------
(* Steps preserve the type invariant, and change one key's rows only. *)
LEMMA TypePreserved ==
    ASSUME IInv, NEW k \in Keys, NEW e \in Event, Writes(k, e)
    PROVE  TypeOK'
<1>1. history' \in [Keys -> SUBSET Event] /\ head' \in [Keys -> Times \cup {0}]
  BY DEF IInv, TypeOK, Writes, Append, Event
<1>2. e.token \in Tokens
  BY DEF Event
<1>3. CASE WritesLease(k, e)
  <2>1. current' \in [Keys -> Tokens \cup {NoToken}]
    BY <1>2, <1>3 DEF IInv, TypeOK, WritesLease
  <2>2. grants' \in [Keys -> SUBSET [token: Tokens, attempt: Nat]]
    <3>1. \E n \in Nat : grants' = grants \/ Grant(k, e.token, n)
      BY <1>3, AttemptIsNat DEF WritesLease
    <3> QED
      BY <1>2, <3>1 DEF Grant, IInv, TypeOK
  <2> QED
    BY <1>1, <1>3, <2>1, <2>2 DEF IInv, TypeOK, WritesLease
<1>4. CASE WritesOutcome(k, e)
  <2>1. current' \in [Keys -> Tokens \cup {NoToken}] /\ terminal' \in [Keys -> Tokens \cup {NoToken}]
    BY <1>2, <1>4 DEF IInv, TypeOK, WritesOutcome
  <2>2. [type |-> e.type, payload |-> e.payload] \in Answer
    BY <1>4 DEF WritesOutcome, Answer
  <2>3. told' \in [Keys -> SUBSET Answer]
    BY <1>4, <2>2 DEF IInv, TypeOK, WritesOutcome, Tell
  <2> QED
    BY <1>1, <1>4, <2>1, <2>3 DEF IInv, TypeOK, WritesOutcome
<1> QED
  BY <1>3, <1>4 DEF Writes

LEMMA WriteEffect ==
    ASSUME IInv, NEW k \in Keys, NEW e \in Event, Writes(k, e)
    PROVE  /\ history'[k] = history[k] \cup {e}
           /\ head'[k] = e.ts
           /\ current'[k] = IF e.type \in WorkingTypes THEN e.token ELSE NoToken
           /\ terminal'[k] = IF e.type \in WorkingTypes THEN terminal[k] ELSE e.token
           /\ \A d \in history[k] : d.ts < e.ts
           /\ \A j \in Keys \ {k} :
                 /\ history'[j] = history[j] /\ head'[j] = head[j]
                 /\ current'[j] = current[j] /\ terminal'[j] = terminal[j]
                 /\ told'[j] = told[j]
<1>1. history'[k] = history[k] \cup {e} /\ head'[k] = e.ts
  BY DEF IInv, TypeOK, Writes, Append
<1>2. \A j \in Keys \ {k} : history'[j] = history[j] /\ head'[j] = head[j]
  BY DEF IInv, TypeOK, Writes, Append
<1>3. \A d \in history[k] : d.ts < e.ts
  <2>1. \A d \in history[k] : d.ts <= head[k] /\ d.ts \in Nat
    BY RecordedTimes DEF IInv, ProjectionSummarisesHistory
  <2>2. head[k] \in Nat /\ e.ts \in Nat /\ e.ts > head[k]
    BY RecordedTimes, EventTime DEF IInv, Writes
  <2> QED
    BY <2>1, <2>2
<1>4. CASE WritesLease(k, e)
  BY <1>1, <1>2, <1>3, <1>4 DEF IInv, TypeOK, WritesLease
<1>5. CASE WritesOutcome(k, e)
  <2>1. e.type \notin WorkingTypes
    BY <1>5 DEF WritesOutcome, WorkingTypes, TerminalTypes
  <2> QED
    BY <1>1, <1>2, <1>3, <1>5, <2>1 DEF IInv, TypeOK, WritesOutcome, Tell
<1> QED
  BY <1>4, <1>5 DEF Writes

LEMMA HeadAfterWrite ==
    ASSUME IInv, NEW k \in Keys, NEW e \in Event, Writes(k, e)
    PROVE  /\ Heads(k)' = {e}
           /\ Claims(k)' = IF e.type = "claimed" THEN Claims(k) \cup {e} ELSE Claims(k)
           /\ \A j \in Keys \ {k} : Heads(j)' = Heads(j) /\ Claims(j)' = Claims(j)
<1>1. /\ history'[k] = history[k] \cup {e}
      /\ head'[k] = e.ts
      /\ \A d \in history[k] : d.ts < e.ts
      /\ \A j \in Keys \ {k} : history'[j] = history[j] /\ head'[j] = head[j]
  BY WriteEffect
<1>2. \A d \in history[k] : d.ts \in Nat
  BY RecordedTimes DEF IInv
<1>3. Heads(k)' = {e}
  BY <1>1, <1>2 DEF Heads
<1>4. Claims(k)' = IF e.type = "claimed" THEN Claims(k) \cup {e} ELSE Claims(k)
  BY <1>1 DEF Claims
<1> QED
  BY <1>1, <1>3, <1>4 DEF Heads, Claims

LEMMA SummaryPreserved ==
    ASSUME IInv, NEW k \in Keys, NEW e \in Event, Writes(k, e)
    PROVE  ProjectionSummarisesHistory'
<1> SUFFICES ASSUME NEW j \in Keys
             PROVE  /\ head'[j] = 0 => history'[j] = {} /\ current'[j] = NoToken /\ terminal'[j] = NoToken
                    /\ head'[j] # 0 => Heads(j)' # {}
                    /\ \A c, d \in history'[j] : c.ts = d.ts => c = d
                    /\ \A d \in history'[j] : d.ts <= head'[j]
                    /\ \A d \in WorkingHeads(j)' : current'[j] = d.token /\ terminal'[j] = NoToken
                    /\ \A d \in TerminalHeads(j)' : terminal'[j] = d.token /\ current'[j] = NoToken
  BY DEF ProjectionSummarisesHistory
<1>1. CASE j # k
  BY <1>1, WriteEffect, HeadAfterWrite
  DEF IInv, ProjectionSummarisesHistory, WorkingHeads, TerminalHeads
<1>2. CASE j = k
  <2>1. e.ts \in Nat /\ e.ts > 0
    BY EventTime
  <2>2. \A d \in history[k] : d.ts < e.ts /\ d.ts \in Nat
    BY WriteEffect, RecordedTimes DEF IInv
  <2>3. \A c, d \in history'[j] : c.ts = d.ts => c = d
    BY <1>2, <2>1, <2>2, WriteEffect DEF IInv, ProjectionSummarisesHistory
  <2>4. \A d \in history'[j] : d.ts <= head'[j]
    BY <1>2, <2>1, <2>2, WriteEffect
  <2>5. head'[j] # 0 /\ Heads(j)' = {e}
    BY <1>2, <2>1, WriteEffect, HeadAfterWrite
  <2>6. terminal[k] = NoToken
    <3>1. TerminalHeads(k) = {}
      BY DEF Writes
    <3>2. Heads(k) = WorkingHeads(k)
      BY <3>1 DEF Heads, WorkingHeads, TerminalHeads, IInv, TypeOK, Event
    <3> QED
      BY <3>2 DEF IInv, ProjectionSummarisesHistory
  <2>7. WorkingHeads(j)' = {d \in {e} : d.type \in WorkingTypes}
        /\ TerminalHeads(j)' = {d \in {e} : d.type \in TerminalTypes}
    BY <2>5 DEF WorkingHeads, TerminalHeads
  <2>8. \A d \in WorkingHeads(j)' : current'[j] = d.token /\ terminal'[j] = NoToken
    BY <1>2, <2>6, <2>7, WriteEffect
  <2>9. \A d \in TerminalHeads(j)' : terminal'[j] = d.token /\ current'[j] = NoToken
    BY <1>2, <2>7, WriteEffect DEF WorkingTypes, TerminalTypes
  <2> QED
    BY <2>3, <2>4, <2>5, <2>8, <2>9
<1> QED
  BY <1>1, <1>2

LEMMA SmallPartsPreserved ==
    ASSUME IInv, NEW k \in Keys, NEW e \in Event, Writes(k, e)
    PROVE  /\ HistoryIsFinite'
           /\ WorkingEventsHaveDeadline'
           /\ AnswersHaveDocuments'
           /\ OutcomeIsLast'
<1>1. HistoryIsFinite'
  <2>1. IsFiniteSet(history[k] \cup {e})
    BY FS_AddElement DEF IInv, HistoryIsFinite
  <2> SUFFICES ASSUME NEW j \in Keys
               PROVE  IsFiniteSet(history'[j])
    BY DEF HistoryIsFinite
  <2>2. CASE j = k
    BY <2>1, <2>2, WriteEffect
  <2>3. CASE j # k
    BY <2>3, WriteEffect DEF IInv, HistoryIsFinite
  <2> QED
    BY <2>2, <2>3
<1>2. WorkingEventsHaveDeadline'
  <2>1. e.type \in WorkingTypes => e.expires \in Times
    BY DEF Writes, WritesLease, WritesOutcome, WorkingTypes, TerminalTypes
  <2> QED
    BY <2>1, WriteEffect DEF IInv, WorkingEventsHaveDeadline
<1>3. OutcomeIsLast'
  <2>1. \A d \in history[k] : d.type \notin TerminalTypes
    BY DEF IInv, OutcomeIsLast, Writes, TerminalHeads, Heads
  <2> QED
    BY <2>1, WriteEffect DEF IInv, OutcomeIsLast
<1>4. AnswersHaveDocuments'
  <2>1. e.type \in TerminalTypes => e.payload \in Payloads
    BY DEF Writes, WritesLease, WritesOutcome, WorkingTypes, TerminalTypes
  <2> QED
    BY <2>1, WriteEffect DEF IInv, AnswersHaveDocuments
<1> QED
  BY <1>1, <1>2, <1>3, <1>4

(* The token of an event that is not a claim is the head's. *)
LEMMA ContinuedToken ==
    ASSUME IInv, NEW k \in Keys, NEW e \in Event, Writes(k, e), e.type # "claimed"
    PROVE  \E h \in history[k] : h.ts = head[k] /\ h.token = e.token
BY DEF Writes, WorkingHeads, Heads

LEMMA ClaimedPreserved ==
    ASSUME IInv, NEW k \in Keys, NEW e \in Event, Writes(k, e)
    PROVE  EveryEventIsClaimed'
<1> SUFFICES ASSUME NEW j \in Keys, NEW d \in history'[j]
             PROVE  \E c \in Claims(j)' : c.ts <= d.ts /\ c.token = d.token
  BY DEF EveryEventIsClaimed
<1>1. CASE j # k
  BY <1>1, WriteEffect, HeadAfterWrite DEF IInv, EveryEventIsClaimed
<1>2. CASE j = k /\ d # e
  BY <1>2, WriteEffect, HeadAfterWrite DEF IInv, EveryEventIsClaimed
<1>3. CASE j = k /\ d = e /\ e.type = "claimed"
  BY <1>3, HeadAfterWrite, EventTime
<1>4. CASE j = k /\ d = e /\ e.type # "claimed"
  <2>1. PICK h \in history[k] : h.token = e.token /\ h.ts < e.ts
    BY <1>4, ContinuedToken, WriteEffect
  <2>2. PICK c \in Claims(k) : c.ts <= h.ts /\ c.token = h.token
    BY DEF IInv, EveryEventIsClaimed
  <2>3. c.ts <= e.ts
    <3>1. c.ts \in Nat /\ h.ts \in Nat /\ e.ts \in Nat
      BY RecordedTimes, EventTime DEF IInv, Claims
    <3> QED
      BY <2>1, <2>2, <3>1
  <2> QED
    BY <1>4, <2>1, <2>2, <2>3, HeadAfterWrite
<1> QED
  BY <1>1, <1>2, <1>3, <1>4

LEMMA FencedPreserved ==
    ASSUME IInv, NEW k \in Keys, NEW e \in Event, Writes(k, e)
    PROVE  Fenced'
<1> SUFFICES ASSUME NEW j \in Keys, NEW c \in Claims(j)', NEW d \in Claims(j)',
                    NEW x \in history'[j], c.ts < d.ts, d.ts <= x.ts
             PROVE  x.token # c.token
  BY DEF Fenced
<1>1. CASE j # k
  BY <1>1, WriteEffect, HeadAfterWrite DEF IInv, Fenced
<1>2. CASE j = k
  <2>1. /\ \A y \in history[k] : y.ts \in Nat /\ y.ts <= head[k] /\ y.ts < e.ts
        /\ e.ts \in Nat /\ head[k] \in Nat
    BY RecordedTimes, EventTime, WriteEffect DEF IInv, ProjectionSummarisesHistory
  <2>2. x \in history[k] \cup {e} /\ c \in history[k] \cup {e} /\ d \in history[k] \cup {e}
    BY <1>2, WriteEffect DEF Claims
  <2>3. CASE x # e
    <3>1. x \in history[k] /\ c # e /\ d # e
      BY <2>1, <2>2, <2>3
    <3>2. c \in Claims(k) /\ d \in Claims(k)
      BY <1>2, <3>1, HeadAfterWrite
    <3> QED
      BY <3>1, <3>2 DEF IInv, Fenced
  <2>4. CASE x = e /\ e.type = "claimed"
    <3>1. c # e
      BY <2>1, <2>2, <2>4
    <3> QED
      BY <2>2, <2>4, <3>1 DEF Writes
  <2>5. CASE x = e /\ e.type # "claimed"
    <3>1. c \in Claims(k) /\ d \in Claims(k)
      BY <1>2, <2>5, HeadAfterWrite
    <3>2. PICK h \in history[k] : h.ts = head[k] /\ h.token = e.token
      BY <2>5, ContinuedToken
    <3>3. d.ts <= h.ts
      BY <2>1, <3>1, <3>2 DEF Claims
    <3> QED
      BY <2>5, <3>1, <3>2, <3>3 DEF IInv, Fenced
  <2> QED
    BY <2>3, <2>4, <2>5
<1> QED
  BY <1>1, <1>2

(* A later event under another token than w's is preceded by a claim of that *)
(* token made after w.                                                      *)
LEMMA TakenOverByClaim ==
    ASSUME IInv, NEW k \in Keys, NEW w \in history[k], NEW h \in history[k],
           w.ts < h.ts, w.token # h.token
    PROVE  \E c \in Claims(k) : w.ts < c.ts /\ c.ts <= h.ts /\ c.token = h.token
<1>1. PICK c \in Claims(k) : c.ts <= h.ts /\ c.token = h.token
  BY DEF IInv, EveryEventIsClaimed
<1>2. PICK b \in Claims(k) : b.ts <= w.ts /\ b.token = w.token
  BY DEF IInv, EveryEventIsClaimed
<1>3. b.ts \in Nat /\ c.ts \in Nat /\ w.ts \in Nat /\ h.ts \in Nat
  BY RecordedTimes DEF IInv, Claims
<1>4. b.ts # c.ts
  BY <1>1, <1>2 DEF IInv, ProjectionSummarisesHistory, Claims
<1>5. ~ (b.ts < c.ts /\ c.ts <= w.ts)
  BY <1>2 DEF IInv, Fenced
<1>6. ~ (c.ts < b.ts /\ b.ts <= h.ts)
  BY <1>1 DEF IInv, Fenced
<1>7. w.ts < c.ts
  BY <1>1, <1>2, <1>3, <1>4, <1>5, <1>6
<1> QED
  BY <1>1, <1>7

LEMMA ExclusionPreserved ==
    ASSUME IInv, NEW k \in Keys, NEW e \in Event, Writes(k, e)
    PROVE  ExclusiveUntilDeadline'
<1> SUFFICES ASSUME NEW j \in Keys, NEW w \in history'[j], NEW c \in Claims(j)',
                    w.type \in WorkingTypes, w.ts < c.ts, w.token # c.token
             PROVE  \/ c.ts > w.expires
                    \/ \E x \in history'[j] : x.token = w.token /\ w.ts < x.ts /\ x.ts < c.ts
  BY DEF ExclusiveUntilDeadline
<1>1. CASE j # k
  BY <1>1, WriteEffect, HeadAfterWrite DEF IInv, ExclusiveUntilDeadline
<1>2. CASE j = k
  <2>1. /\ \A y \in history[k] : y.ts \in Nat /\ y.ts <= head[k] /\ y.ts < e.ts
        /\ e.ts \in Nat /\ head[k] \in Nat
    BY RecordedTimes, EventTime, WriteEffect DEF IInv, ProjectionSummarisesHistory
  <2>2. w \in history[k] \cup {e} /\ c \in history[k] \cup {e} /\ history'[k] = history[k] \cup {e}
    BY <1>2, WriteEffect DEF Claims
  <2>3. w \in history[k]
    BY <2>1, <2>2
  <2>4. CASE c # e
    <3>1. c \in Claims(k)
      BY <1>2, <2>4, HeadAfterWrite
    <3> QED
      BY <1>2, <2>2, <2>3, <3>1 DEF IInv, ExclusiveUntilDeadline
  <2>5. CASE c = e
    <3>1. e.type = "claimed"
      BY <2>5 DEF Claims
    <3>2. \A d \in Heads(k) : e.ts > d.expires
      BY <3>1 DEF Writes
    <3>3. CASE w.ts = head[k]
      BY <2>3, <2>5, <3>2, <3>3 DEF Heads
    <3>4. CASE w.ts # head[k]
      <4>1. PICK h \in history[k] : h.ts = head[k]
        BY <2>1, <2>3, <3>4 DEF IInv, ProjectionSummarisesHistory, Heads
      <4>2. w.ts < h.ts /\ h.ts < c.ts
        BY <2>1, <2>3, <2>5, <3>4, <4>1
      <4>3. CASE h.token = w.token
        BY <1>2, <2>2, <4>2, <4>3
      <4>4. CASE h.token # w.token
        <5>1. PICK b \in Claims(k) : w.ts < b.ts /\ b.ts <= h.ts /\ b.token = h.token
          BY <2>3, <4>2, <4>4, TakenOverByClaim
        <5>2. b.ts < c.ts /\ b.ts \in Nat /\ c.ts \in Nat
          BY <2>1, <2>5, <5>1 DEF Claims
        <5>3. \/ b.ts > w.expires
              \/ \E x \in history[k] : x.token = w.token /\ w.ts < x.ts /\ x.ts < b.ts
          BY <2>3, <4>4, <5>1 DEF IInv, ExclusiveUntilDeadline
        <5>4. w.expires \in Nat
          BY <2>3, TimesArePositive DEF IInv, WorkingEventsHaveDeadline
        <5>5. CASE b.ts > w.expires
          BY <5>2, <5>4, <5>5
        <5>6. ASSUME NEW x \in history[k], x.token = w.token, w.ts < x.ts, x.ts < b.ts
              PROVE  x \in history'[j] /\ x.ts < c.ts
          BY <1>2, <2>1, <2>2, <5>2, <5>6
        <5> QED
          BY <5>3, <5>5, <5>6
      <4> QED
        BY <4>3, <4>4
    <3> QED
      BY <3>3, <3>4
  <2> QED
    BY <2>4, <2>5
<1> QED
  BY <1>1, <1>2

LEMMA AgreementPreserved ==
    ASSUME IInv, NEW k \in Keys, NEW e \in Event, Writes(k, e)
    PROVE  AnswersAgree'
<1> SUFFICES ASSUME NEW j \in Keys, NEW a \in told'[j]
             PROVE  \E d \in TerminalHeads(j)' : d.type = a.type /\ d.payload = a.payload
  BY DEF AnswersAgree
<1>1. CASE j # k
  BY <1>1, WriteEffect, HeadAfterWrite DEF IInv, AnswersAgree, TerminalHeads
<1>2. CASE j = k
  <2>1. told[k] = {}
    BY DEF IInv, AnswersAgree, Writes
  <2>2. CASE WritesLease(k, e)
    BY <1>2, <2>1, <2>2 DEF WritesLease
  <2>3. CASE WritesOutcome(k, e)
    <3>1. told'[k] = {[type |-> e.type, payload |-> e.payload]}
      BY <2>1, <2>3 DEF WritesOutcome, Tell, IInv, TypeOK
    <3>2. TerminalHeads(k)' = {e}
      BY <2>3, HeadAfterWrite DEF WritesOutcome, TerminalHeads
    <3> QED
      BY <1>2, <3>1, <3>2
  <2> QED
    BY <2>2, <2>3 DEF Writes
<1> QED
  BY <1>1, <1>2

(* A claim is numbered by the claims before it, hence by a number that was   *)
(* not given out.                                                            *)
LEMMA AttemptsPreserved ==
    ASSUME IInv, NEW k \in Keys, NEW e \in Event, Writes(k, e)
    PROVE  GrantsAreFinite' /\ AttemptsAreNumbered'
<1> DEFINE Numbers(j) == {g.attempt : g \in grants[j]}
<1> SUFFICES ASSUME NEW j \in Keys
             PROVE  /\ IsFiniteSet(grants'[j])
                    /\ Numbers(j)' = 0 .. Cardinality(Claims(j)') - 1
                    /\ Cardinality(grants'[j]) = Cardinality(Claims(j)')
  BY DEF GrantsAreFinite, AttemptsAreNumbered
<1>1. IsFiniteSet(grants[j]) /\ Numbers(j) = 0 .. Cardinality(Claims(j)) - 1
      /\ Cardinality(grants[j]) = Cardinality(Claims(j))
  BY DEF IInv, GrantsAreFinite, AttemptsAreNumbered
<1>2. grants \in [Keys -> SUBSET [token: Tokens, attempt: Nat]]
  BY DEF IInv, TypeOK
<1>3. CASE j = k /\ e.type = "claimed"
  <2> DEFINE n == Cardinality(Claims(k))
             g == [token |-> e.token, attempt |-> n]
  <2>1. grants'[k] = grants[k] \cup {g}
    BY <1>2, <1>3 DEF Writes, WritesLease, WritesOutcome, TerminalTypes, Grant, RecoveryAttempt
  <2>2. n \in Nat
    BY AttemptIsNat DEF RecoveryAttempt
  <2>3. g.attempt = n
    OBVIOUS
  <2>4. IsFiniteSet(Claims(k)) /\ e \notin Claims(k) /\ Claims(k)' = Claims(k) \cup {e}
    <3>1. \A d \in history[k] : d.ts < e.ts
      BY WriteEffect
    <3>2. e \notin history[k]
      BY <3>1, EventTime
    <3> QED
      BY <1>3, <3>2, HeadAfterWrite, FS_Subset DEF IInv, HistoryIsFinite, Claims
  <2>5. Cardinality(Claims(k)') = n + 1
    BY <2>4, FS_AddElement
  <2> HIDE DEF n, g
  <2>6. g \notin grants[k]
    <3>1. n \notin Numbers(k)
      BY <1>1, <1>3, <2>2 DEF n
    <3> QED
      BY <2>3, <3>1
  <2>7. IsFiniteSet(grants'[k]) /\ Cardinality(grants'[k]) = n + 1
    BY <1>1, <1>3, <2>1, <2>6, FS_AddElement DEF n
  <2>8. Numbers(k)' = Numbers(k) \cup {n}
    BY <2>1, <2>3
  <2>9. Numbers(k)' = 0 .. n
    <3>1. Numbers(k) = 0 .. n - 1
      BY <1>1, <1>3 DEF n
    <3>2. (0 .. n - 1) \cup {n} = 0 .. n
      BY <2>2
    <3> HIDE DEF Numbers
    <3> QED
      BY <2>8, <3>1, <3>2
  <2> QED
    BY <1>3, <2>2, <2>5, <2>7, <2>9
<1>4. CASE ~ (j = k /\ e.type = "claimed")
  <2>1. grants'[j] = grants[j]
    BY <1>2, <1>4 DEF Writes, WritesLease, WritesOutcome, Grant
  <2>2. Claims(j)' = Claims(j)
    BY <1>4, HeadAfterWrite
  <2> QED
    BY <1>1, <2>1, <2>2
<1> QED
  BY <1>3, <1>4

(* Handing out a settled item's document changes no row. *)
LEMMA HandsPreserves ==
    ASSUME IInv, NEW k \in Keys, Hands(k)
    PROVE  IInv'
<1>1. PICK e \in TerminalHeads(k) :
        told' = [told EXCEPT ![k] = @ \cup {[type |-> e.type, payload |-> e.payload]}]
  BY DEF Hands, Replay, Tell
<1>2. UNCHANGED <<head, current, terminal, history, grants>>
  BY DEF Hands, Replay, projection
<1>3. \A j \in Keys : Heads(j)' = Heads(j) /\ Claims(j)' = Claims(j)
  BY <1>2 DEF Heads, Claims
<1>4. \A j \in Keys : WorkingHeads(j)' = WorkingHeads(j) /\ TerminalHeads(j)' = TerminalHeads(j)
  BY <1>3 DEF WorkingHeads, TerminalHeads
<1>6. [type |-> e.type, payload |-> e.payload] \in Answer
  BY DEF IInv, AnswersHaveDocuments, TerminalHeads, Heads, Answer
<1>7. TypeOK'
  BY <1>1, <1>2, <1>6 DEF IInv, TypeOK
<1>8. AnswersAgree'
  <2> SUFFICES ASSUME NEW j \in Keys, NEW b \in told'[j]
               PROVE  \E d \in TerminalHeads(j) : d.type = b.type /\ d.payload = b.payload
    BY <1>4 DEF AnswersAgree
  <2>1. CASE b \in told[j]
    BY <2>1 DEF IInv, AnswersAgree
  <2>2. CASE b \notin told[j]
    BY <1>1, <2>2 DEF IInv, TypeOK
  <2> QED
    BY <2>1, <2>2
<1>9. ProjectionSummarisesHistory'
  BY <1>2, <1>3, <1>4 DEF IInv, ProjectionSummarisesHistory
<1>10. HistoryIsFinite' /\ WorkingEventsHaveDeadline' /\ OutcomeIsLast' /\ AnswersHaveDocuments'
  BY <1>2 DEF IInv, HistoryIsFinite, WorkingEventsHaveDeadline, OutcomeIsLast, AnswersHaveDocuments
<1>11. EveryEventIsClaimed' /\ Fenced' /\ ExclusiveUntilDeadline'
  BY <1>2, <1>3 DEF IInv, EveryEventIsClaimed, Fenced, ExclusiveUntilDeadline
<1>12. GrantsAreFinite' /\ AttemptsAreNumbered'
  BY <1>2, <1>3 DEF IInv, GrantsAreFinite, AttemptsAreNumbered
<1> QED
  BY <1>7, <1>8, <1>9, <1>10, <1>11, <1>12 DEF IInv

LEMMA StutterPreserves == IInv /\ UNCHANGED vars => IInv'
<1> SUFFICES ASSUME IInv, UNCHANGED vars PROVE IInv'
  OBVIOUS
<1>1. AttemptsAreNumbered'
  BY DEF IInv, vars, AttemptsAreNumbered, Claims
<1> QED
  BY <1>1
  DEF IInv, vars, TypeOK, HistoryIsFinite, ProjectionSummarisesHistory,
      WorkingEventsHaveDeadline, AnswersHaveDocuments, EveryEventIsClaimed, OutcomeIsLast,
      Fenced, ExclusiveUntilDeadline, AnswersAgree, GrantsAreFinite,
      Heads, WorkingHeads, TerminalHeads, Claims

LEMMA InductiveStep == IInv /\ [Next]_vars => IInv'
<1> SUFFICES ASSUME IInv, [Next]_vars
             PROVE  IInv'
  OBVIOUS
<1>1. CASE UNCHANGED vars
  BY <1>1, StutterPreserves
<1>2. CASE Next
  <2>1. PICK k \in Keys : Hands(k) \/ \E e \in Event : Writes(k, e)
    BY <1>2, StepShape
  <2>2. CASE Hands(k)
    BY <2>2, HandsPreserves
  <2>3. ASSUME NEW e \in Event, Writes(k, e)
        PROVE  IInv'
    BY <2>3, TypePreserved, SummaryPreserved, SmallPartsPreserved, ClaimedPreserved,
       FencedPreserved, ExclusionPreserved, AgreementPreserved, AttemptsPreserved DEF IInv
  <2> QED
    BY <2>1, <2>2, <2>3
<1> QED
  BY <1>1, <1>2

(* Every behaviour of the store satisfies the inductive invariant, from     *)
(* which the safety properties of Singular are read off.                    *)
THEOREM Invariance == Spec => []IInv
<1>1. Init => IInv
  BY InitInv
<1>2. IInv /\ [Next]_vars => IInv'
  BY InductiveStep
<1> QED
  BY <1>1, <1>2, PTL DEF Spec

(* The rows and answers keep their types. *)
THEOREM TypeCorrect == Spec => []TypeOK
<1>1. IInv => TypeOK
  BY DEF IInv
<1> QED
  BY <1>1, Invariance, PTL

(* The projection row always summarises the history (sp_singular_* decide   *)
(* from the projection alone).                                              *)
THEOREM SummaryCorrect == Spec => []ProjectionSummarisesHistory
<1>1. IInv => ProjectionSummarisesHistory
  BY DEF IInv
<1> QED
  BY <1>1, Invariance, PTL

(* A token displaced by a reclaim never writes again. *)
THEOREM Fencing == Spec => []Fenced
<1>1. IInv => Fenced
  BY DEF IInv
<1> QED
  BY <1>1, Invariance, PTL

(* A settled item's outcome is its last event. *)
THEOREM SingleOutcome == Spec => []OutcomeIsLast
<1>1. IInv => OutcomeIsLast
  BY DEF IInv
<1> QED
  BY <1>1, Invariance, PTL

(* No lease is taken over before the deadline its holder last set. *)
THEOREM Exclusion == Spec => []ExclusiveUntilDeadline
<1>1. IInv => ExclusiveUntilDeadline
  BY DEF IInv
<1> QED
  BY <1>1, Invariance, PTL

(* All callers are told the one stored outcome. *)
THEOREM Agreement == Spec => []AnswersAgree
<1>1. IInv => AnswersAgree
  BY DEF IInv
<1> QED
  BY <1>1, Invariance, PTL

(* Every claim gets the next attempt number, and no two the same one. *)
THEOREM Numbering == Spec => []AttemptsAreNumbered
<1>1. IInv => AttemptsAreNumbered
  BY DEF IInv
<1> QED
  BY <1>1, Invariance, PTL

(* Nothing changes the rows of a settled item. *)
THEOREM TerminalImmutability == Spec => TerminalIsImmutable
<1>1. IInv /\ [Next]_vars =>
        [\A k \in Keys : TerminalHeads(k) # {} =>
            /\ history'[k] = history[k]
            /\ <<head'[k], current'[k], terminal'[k]>> = <<head[k], current[k], terminal[k]>>]_vars
  <2> DEFINE Kept(j) == /\ history'[j] = history[j]
                        /\ <<head'[j], current'[j], terminal'[j]>> = <<head[j], current[j], terminal[j]>>
  <2> SUFFICES ASSUME IInv, Next, NEW j \in Keys, TerminalHeads(j) # {}
               PROVE  Kept(j)
    OBVIOUS
  <2>1. PICK k \in Keys : Hands(k) \/ \E e \in Event : Writes(k, e)
    BY StepShape
  <2>2. CASE Hands(k)
    BY <2>2 DEF Hands, Replay, projection
  <2>3. ASSUME NEW e \in Event, Writes(k, e)
        PROVE  Kept(j)
    <3>1. j # k
      BY <2>3 DEF Writes
    <3> QED
      BY <2>3, <3>1, WriteEffect
  <2> QED
    BY <2>1, <2>2, <2>3
<1> QED
  BY <1>1, Invariance, PTL DEF Spec, TerminalIsImmutable

-----------------------------------------------------------------------------
(* The store implements the write-once register. *)
TokensOf(k) == {e.token : e \in history[k]}

LEMMA LearnsStep ==
    ASSUME IInv, NEW k \in Keys, Hands(k)
    PROVE  Register!Learn(k)
<1>1. PICK e \in TerminalHeads(k) : Tell(k, e)
  BY DEF Hands, Replay
<1>2. UNCHANGED <<head, current, terminal, history, grants>>
  BY DEF Hands, Replay, projection
<1>3. Heads(k) = {e}
  BY <1>1, OneHead DEF TerminalHeads
<1>4. Settled(k) = {[type |-> e.type, payload |-> e.payload]}
  BY <1>1, <1>3 DEF Settled, TerminalHeads
<1>5. \A j \in Keys : Settled(j)' = Settled(j)
  BY <1>2 DEF Settled, TerminalHeads, Heads
<1>6. [j \in Keys |-> Settled(j)]' = [j \in Keys |-> Settled(j)]
  BY <1>5
<1>7. [j \in Keys |-> {d.token : d \in history[j]}]' = [j \in Keys |-> {d.token : d \in history[j]}]
  BY <1>2
<1> QED
  BY <1>1, <1>2, <1>4, <1>6, <1>7 DEF Register!Learn, Tell

LEMMA AdmitsStep ==
    ASSUME IInv, NEW k \in Keys, NEW e \in Event, Writes(k, e), e.type = "claimed"
    PROVE  Register!Admit(k, e.token)
<1>1. WritesLease(k, e)
  BY DEF Writes, WritesOutcome, TerminalTypes
<1>2. Settled(k) = {}
  BY DEF Writes, Settled
<1>3. TerminalHeads(k)' = {}
  BY HeadAfterWrite DEF TerminalHeads, TerminalTypes
<1>4. \A j \in Keys : Settled(j)' = Settled(j)
  BY <1>2, <1>3, HeadAfterWrite DEF Settled, TerminalHeads
<1>5. [j \in Keys |-> Settled(j)]' = [j \in Keys |-> Settled(j)]
  BY <1>4
<1>6. TokensOf(k)' = TokensOf(k) \cup {e.token} /\ \A j \in Keys \ {k} : TokensOf(j)' = TokensOf(j)
  BY WriteEffect DEF TokensOf
<1>7. [j \in Keys |-> TokensOf(j)]' = [[j \in Keys |-> TokensOf(j)] EXCEPT ![k] = @ \cup {e.token}]
  BY <1>6
<1>8. e.token \notin TokensOf(k)
  BY DEF Writes, TokensOf
<1> QED
  BY <1>1, <1>2, <1>5, <1>7, <1>8 DEF Register!Admit, WritesLease, TokensOf

LEMMA ExtendStutters ==
    ASSUME IInv, NEW k \in Keys, NEW e \in Event, Writes(k, e), e.type = "extended"
    PROVE  UNCHANGED Register!vars
<1>1. WritesLease(k, e)
  BY DEF Writes, WritesOutcome, TerminalTypes
<1>2. PICK h \in WorkingHeads(k) : h.token = e.token
  BY DEF Writes
<1>3. current' = current
  BY <1>1, <1>2 DEF WritesLease, IInv, TypeOK, ProjectionSummarisesHistory
<1>4. TerminalHeads(k) = {} /\ TerminalHeads(k)' = {}
  BY HeadAfterWrite DEF Writes, TerminalHeads, TerminalTypes
<1>5. \A j \in Keys : Settled(j)' = Settled(j)
  BY <1>4, HeadAfterWrite DEF Settled, TerminalHeads
<1>6. [j \in Keys |-> Settled(j)]' = [j \in Keys |-> Settled(j)]
  BY <1>5
<1>7. \A j \in Keys : TokensOf(j)' = TokensOf(j)
  BY <1>2, WriteEffect DEF TokensOf, WorkingHeads, Heads
<1>8. [j \in Keys |-> TokensOf(j)]' = [j \in Keys |-> TokensOf(j)]
  BY <1>7
<1> QED
  BY <1>1, <1>3, <1>6, <1>8 DEF Register!vars, WritesLease, TokensOf

LEMMA DecidesStep ==
    ASSUME IInv, NEW k \in Keys, NEW e \in Event, Writes(k, e), e.type \in TerminalTypes
    PROVE  \E o \in Answer : Register!Decide(k, o)
<1> DEFINE o == [type |-> e.type, payload |-> e.payload]
<1>1. WritesOutcome(k, e)
  BY DEF Writes, WritesLease, TerminalTypes, WorkingTypes
<1>2. o \in Answer
  BY <1>1 DEF WritesOutcome, Answer
<1>3. PICK h \in WorkingHeads(k) : h.token = e.token
  BY DEF Writes, TerminalTypes
<1>4. current[k] = e.token /\ e.token \in TokensOf(k)
  BY <1>3 DEF IInv, ProjectionSummarisesHistory, TokensOf, WorkingHeads, Heads
<1>5. Settled(k) = {}
  BY DEF Writes, Settled
<1>6. Settled(k)' = {o}
  BY HeadAfterWrite DEF Settled, TerminalHeads
<1>7. \A j \in Keys \ {k} : Settled(j)' = Settled(j)
  BY HeadAfterWrite DEF Settled, TerminalHeads
<1>8. [j \in Keys |-> Settled(j)]' = [[j \in Keys |-> Settled(j)] EXCEPT ![k] = {o}]
  BY <1>6, <1>7
<1>9. \A j \in Keys : TokensOf(j)' = TokensOf(j)
  BY <1>4, WriteEffect DEF TokensOf
<1>10. [j \in Keys |-> TokensOf(j)]' = [j \in Keys |-> TokensOf(j)]
  BY <1>9
<1>11. told' = [told EXCEPT ![k] = @ \cup {o}]
  BY <1>1 DEF WritesOutcome, Tell
<1>12. current' = [current EXCEPT ![k] = NoToken] /\ terminal' = [terminal EXCEPT ![k] = current[k]]
  BY <1>1, <1>4 DEF WritesOutcome
<1>13. Register!Decide(k, o)
  <2> HIDE DEF o
  <2> QED
    BY <1>4, <1>5, <1>8, <1>10, <1>11, <1>12 DEF Register!Decide, TokensOf
<1> QED
  BY <1>2, <1>13

(* The store with its rows, times and tokens behaves as a register whose    *)
(* value is decided once, by the worker admitted last.                      *)
THEOREM Refinement == Spec => ImplementsRegister
<1>1. Init => Register!Init
  <2> SUFFICES ASSUME Init
               PROVE  Register!Init
    OBVIOUS
  <2>1. \A k \in Keys : Settled(k) = {} /\ TokensOf(k) = {}
    BY DEF Init, Settled, TokensOf, TerminalHeads, Heads
  <2> QED
    BY <2>1 DEF Init, Register!Init, TokensOf
<1>2. IInv /\ [Next]_vars => [Register!Next]_(Register!vars)
  <2> SUFFICES ASSUME IInv, [Next]_vars
               PROVE  Register!Next \/ UNCHANGED Register!vars
    OBVIOUS
  <2>1. CASE UNCHANGED vars
    BY <2>1 DEF vars, Register!vars, Settled, TerminalHeads, Heads
  <2>2. CASE Next
    <3>1. PICK k \in Keys : Hands(k) \/ \E e \in Event : Writes(k, e)
      BY <2>2, StepShape
    <3>2. CASE Hands(k)
      BY <3>2, LearnsStep DEF Register!Next
    <3>3. ASSUME NEW e \in Event, Writes(k, e)
          PROVE  Register!Next \/ UNCHANGED Register!vars
      <4>1. e.type \in WorkingTypes \cup TerminalTypes /\ e.token \in Tokens
        BY DEF Event
      <4> QED
        BY <3>3, <4>1, AdmitsStep, ExtendStutters, DecidesStep DEF Register!Next, WorkingTypes
    <3> QED
      BY <3>1, <3>2, <3>3
  <2> QED
    BY <2>1, <2>2
<1> QED
  BY <1>1, <1>2, Invariance, PTL DEF Spec, ImplementsRegister, Register!Spec
=============================================================================
