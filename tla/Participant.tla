----------------------------- MODULE Participant -----------------------------
(***************************************************************************)
(* A participant service: the reference participant (participant-stub),    *)
(* which keeps one Singular work item per operation, leased to the request *)
(* handler that runs the operation's body.                                 *)
(*                                                                         *)
(* A PUT handler starts or reclaims the item, runs the body, and completes *)
(* the item, in three steps between which other handlers run; it may die   *)
(* between any two of them, and the item then stays working until its      *)
(* lease runs out and another PUT of the same operation reclaims it.  No   *)
(* two attempts have the same lease token (the first is derived from the   *)
(* operation's id, the others are fresh), so an attempt is known by its    *)
(* number.                                                                 *)
(***************************************************************************)
EXTENDS Naturals

CONSTANTS
    Ops,            \* operations, by name and id
    MaxAttempts     \* bound: attempts per operation

Attempts == 1 .. MaxAttempts

(* What the participant makes of an operation, a function of its input: an   *)
(* object result, a 200 without one, or a 400 before anything is recorded.   *)
Verdicts == {"result", "malformed", "refused"}

VARIABLES
    verdict,    \* the verdict on each operation
    item,       \* its Singular work item
    handler,    \* the stage of the handler of each attempt
    effects     \* how often its body was executed (exec_count)

vars == <<verdict, item, handler, effects>>

(* winner: the attempt whose outcome is recorded. *)
Item == [state: {"none", "working", "done"}, attempt: 0 .. MaxAttempts,
         winner: 0 .. MaxAttempts, expired: BOOLEAN]

Stages == {"none", "granted", "applied", "gone"}

TypeOK ==
    /\ verdict \in [Ops -> Verdicts]
    /\ item \in [Ops -> Item]
    /\ handler \in [Ops -> [Attempts -> Stages]]
    /\ effects \in [Ops -> 0 .. MaxAttempts]

Init ==
    /\ item = [o \in Ops |->
                   [state |-> "none", attempt |-> 0, winner |-> 0, expired |-> FALSE]]
    /\ handler = [o \in Ops |-> [a \in Attempts |-> "none"]]
    /\ effects = [o \in Ops |-> 0]

At(o, a, stage) == handler[o][a] = stage
Reach(o, a, stage) == handler' = [handler EXCEPT ![o][a] = stage]

-----------------------------------------------------------------------------
(* Answers that change nothing *)

Terminal(o) == IF verdict[o] = "malformed" THEN "malformed" ELSE "result"

(* A PUT is refused before Singular is asked; a live lease is not stolen. *)
PutReplies(o) ==
    {st \in {"refused", "result", "malformed", "pending"} :
        \/ st = "refused" /\ verdict[o] = "refused"
        \/ st = Terminal(o) /\ item[o].state = "done"
        \/ st = "pending" /\ item[o].state = "working" /\ ~ item[o].expired}

(* A GET reads; it reclaims nothing. *)
GetReply(o) ==
    CASE item[o].state = "done"    -> Terminal(o)
      [] item[o].state = "working" -> "pending"
      [] item[o].state = "none"    -> "unknown"

-----------------------------------------------------------------------------
(* The PUT handler *)

MayReclaim(o) == item[o].state = "working" /\ item[o].expired

(* The handler is granted the item: start() of a new one, resume() of one   *)
(* whose lease ran out.                                                     *)
Accept(o) ==
    /\ verdict[o] # "refused"
    /\ item[o].state = "none" \/ MayReclaim(o)
    /\ item[o].attempt < MaxAttempts
    /\ item' = [item EXCEPT ![o] = [state |-> "working", attempt |-> @.attempt + 1,
                                    winner |-> 0, expired |-> FALSE]]
    /\ Reach(o, item[o].attempt + 1, "granted")
    /\ UNCHANGED <<verdict, effects>>

(* The body runs once per operation; a rerun replays the stored result.     *)
(* Deviation: a rerun executes it.                                          *)
Rerun(o) == effects[o] + 1
RunIdempotent(o) == IF effects[o] = 0 THEN 1 ELSE effects[o]

Apply(o, a) ==
    /\ At(o, a, "granted")
    /\ effects' = [effects EXCEPT ![o] = RunIdempotent(o)]
    /\ Reach(o, a, "applied")
    /\ UNCHANGED <<verdict, item>>

(* complete() asks for the current lease token, not for its deadline.       *)
(* Deviation: any attempt's token will do.                                  *)
AnyToken(o, a) == item[o].state = "working"
HoldsItem(o, a) == item[o].state = "working" /\ item[o].attempt = a

Complete(o, a) ==
    /\ At(o, a, "applied")
    /\ HoldsItem(o, a)
    /\ item' = [item EXCEPT ![o].state = "done", ![o].winner = a]
    /\ Reach(o, a, "gone")
    /\ UNCHANGED <<verdict, effects>>

(* Superseded: token_stale, answered with a 500. *)
CompleteStale(o, a) ==
    /\ At(o, a, "applied")
    /\ ~ HoldsItem(o, a)
    /\ Reach(o, a, "gone")
    /\ UNCHANGED <<verdict, item, effects>>

Alive(o, a) == handler[o][a] \in {"granted", "applied"}

Die(o, a) ==
    /\ Alive(o, a)
    /\ Reach(o, a, "gone")
    /\ UNCHANGED <<verdict, item, effects>>

LeaseExpires(o) ==
    /\ item[o].state = "working"
    /\ ~ item[o].expired
    /\ item' = [item EXCEPT ![o].expired = TRUE]
    /\ UNCHANGED <<verdict, handler, effects>>

Abandoned(o) == item[o].state = "working" /\ ~ Alive(o, item[o].attempt)

-----------------------------------------------------------------------------
(* What this module takes from Singular is what Singular promises: an item   *)
(* is a register decided at most once, by the last attempt admitted to it.   *)

Done(o) == IF item[o].state = "done" THEN {"done"} ELSE {}

Register == INSTANCE SingularRegister WITH
    Keys     <- Ops,
    Workers  <- Attempts,
    Outcomes <- {"done"},
    Nobody   <- 0,
    holder   <- [o \in Ops |-> IF item[o].state = "working" THEN item[o].attempt ELSE 0],
    winner   <- [o \in Ops |-> item[o].winner],
    claimed  <- [o \in Ops |-> 1 .. item[o].attempt],
    decided  <- [o \in Ops |-> Done(o)],
    known    <- [o \in Ops |-> Done(o)]

ImplementsRegister == Register!Spec
=============================================================================
