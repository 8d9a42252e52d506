----------------------------- MODULE MappingCase -----------------------------
(***************************************************************************)
(* The semantic mapping of one document: the append-only mapping case       *)
(* (broker_reports_gate1/ordinary_trade_mapping_case.py) and the turns      *)
(* that work on it (ordinary_trade_mapping_runtime.py), each the answer of  *)
(* some process to a message of the user.                                   *)
(*                                                                         *)
(* The case is a sequence of revisions, stored as artifacts whose ids are   *)
(* made of the case and the revision number.  Every save reads the last     *)
(* revision, decides whether it may follow, and puts the next one: a put of *)
(* another content under an id that is taken is refused.  That is the only  *)
(* thing that keeps two turns apart; nothing is locked, least of all while  *)
(* the provider is called.                                                  *)
(*                                                                         *)
(* A document whose tables fit one request is mapped by one call.  A larger *)
(* one is mapped batch by batch along a fixed plan, and a revision that     *)
(* claims a batch is put before the batch is sent.                          *)
(*                                                                         *)
(* Left out: the branches for cases of retired schema versions, which this  *)
(* code does not write (exclusion questions, instructional classification,  *)
(* batch states v1 and v2), and the replacement of the document's canonical *)
(* version, which begins a case of its own.                                 *)
(***************************************************************************)
EXTENDS Integers, Sequences

CONSTANTS
    NBatches,     \* batches of a document that does not fit one request
    Procs,        \* processes that work on the case
    Currencies,   \* what the user may assert
    Prompts,      \* versions of the approved mapping instruction
    MaxSetbacks,  \* bound: deaths, changes of the instruction, unavailable
                  \* providers and requests for a currency
    None          \* no revision, no instruction, no batch state, no token

ASSUME SizeAssumption == NBatches \in Nat \ {0} /\ MaxSetbacks \in Nat

\* How the tables without a mapping fit into requests.
Shapes == {"nothing", "one", "batches", "too_large"}

\* Statuses a case never leaves by a turn that finds it there.
Final == {"COMPLETE", "UNSUPPORTED", "SPECIALIST_REVIEW_REQUIRED",
          "SOURCE_CONTEXT_LIMIT"}

Statuses == Final \cup {"MAPPING_REQUIRED", "CLARIFICATION_REQUIRED",
                        "CURRENCY_ASSERTION_REQUIRED", "PROVIDER_UNAVAILABLE",
                        "MAPPING_OUTPUT_INVALID"}

\* mapping_batch_state: batches are done in the order of the plan, so the one
\* that is claimed (attempt_token) or waits for a currency is the next.
BatchStates == [done : 0 .. NBatches, token : Procs \cup {None}, pending : BOOLEAN]

FreshPlan == [done |-> 0, token |-> None, pending |-> FALSE]

IsIdle(b)    == b.token = None /\ ~b.pending
Awaiting(b)  == [b EXCEPT !.token = None, !.pending = TRUE]
Completed(b) == [done |-> b.done + 1, token |-> None, pending |-> FALSE]

\* Mutant of Claimed: the claim carries no token of its own.
ClaimedByAnyone(b, p) == [b EXCEPT !.token = CHOOSE q \in Procs : TRUE]

Claimed(b, p) == [b EXCEPT !.token = p]

\* A currency for the tables of a batch, or of the whole document (0).
Assertions == (0 .. NBatches) \X Currencies

Revision == [status    : Statuses \cup {None},
             prompt    : Prompts \cup {None},
             batch     : BatchStates \cup {None},
             decisions : SUBSET Assertions]

\* What a save goes by when the case has no revision yet.
Unborn == [status |-> None, prompt |-> None, batch |-> None, decisions |-> {}]

\* The save a turn is about, and where it goes on after it.
Ops    == {"none", "outcome", "batch", "terminal", "assert", "again"}
Points == {"idle", "retry", "map", "prompt", "plan", "resume", "replay",
           "call", "answer", "save", "put"}

Intent == [op       : Ops,
           status   : Statuses \cup {None},
           prompt   : Prompts \cup {None},
           batch    : BatchStates \cup {None},
           decision : Assertions \cup {None},
           then     : Points \cup {"claim", "retire"}]

NoIntent == [op |-> "none", status |-> None, prompt |-> None, batch |-> None,
             decision |-> None, then |-> "idle"]

ASSUME NoneAssumption ==
    /\ None \notin Procs /\ None \notin Prompts
    /\ None \notin Statuses /\ None \notin BatchStates /\ None \notin Assertions

VARIABLES
    shape,     \* how the document fits; the plan is a function of it (asserted
               \* currencies, which are sent with it, are taken not to change it)
    prompt,    \* the approved instruction, None while it cannot be had
    history,   \* the revisions of the case
    sent,      \* how often each batch was sent to the provider
    setbacks,  \* how many of them there were
    pc,        \* where a turn stands between two accesses
    base,      \* the revision it goes by
    prior,     \* the revision its save has read
    intent     \* the save it is about

world == <<shape, prompt, history, sent, setbacks>>
turn  == <<pc, base, prior, intent>>
vars  == <<world, turn>>

Init ==
    /\ shape \in Shapes
    /\ prompt \in Prompts
    /\ history  = <<>>
    /\ sent     = [b \in 1 .. NBatches |-> 0]
    /\ setbacks = 0
    /\ pc     = [p \in Procs |-> "idle"]
    /\ base   = [p \in Procs |-> 0]
    /\ prior  = [p \in Procs |-> 0]
    /\ intent = [p \in Procs |-> NoIntent]

-----------------------------------------------------------------------------
(* Parts of the steps. *)

At(n) == IF n = 0 THEN Unborn ELSE history[n]

Current == At(Len(history))

Goes(p, point, n, i) ==
    /\ pc'     = [pc     EXCEPT ![p] = point]
    /\ base'   = [base   EXCEPT ![p] = n]
    /\ prior'  = [prior  EXCEPT ![p] = 0]
    /\ intent' = [intent EXCEPT ![p] = i]

\* A turn returns, or ends with an exception; the next one knows nothing of it.
Ends(p) == Goes(p, "idle", 0, NoIntent)

Saves(p, n, i) == Goes(p, "save", n, i)

\* save_mapping_outcome, save_provider_terminal and save_deterministic_terminal,
\* save_batch_state, and the two ways to take a currency.
Outcome(status, snapshot) ==
    [NoIntent EXCEPT !.op = "outcome", !.status = status, !.prompt = snapshot,
        !.then = IF status = "CLARIFICATION_REQUIRED" THEN "retire" ELSE "idle"]

Terminal(status, snapshot) ==
    [NoIntent EXCEPT !.op = "terminal", !.status = status, !.prompt = snapshot]

BatchState(status, snapshot, b, then) ==
    [NoIntent EXCEPT !.op = "batch", !.status = status, !.prompt = snapshot,
                     !.batch = b, !.then = then]

Currency(op, decision) ==
    [NoIntent EXCEPT !.op = op, !.status = "MAPPING_REQUIRED",
                     !.decision = decision, !.then = "replay"]

Setback ==
    /\ setbacks < MaxSetbacks
    /\ setbacks' = setbacks + 1

-----------------------------------------------------------------------------
(* A turn begins: resolve() reads the case.  It returns what it finds in a    *)
(* final case and in an invalid plan, which is no step.                       *)

BeginMapping(p) ==
    /\ pc[p] = "idle"
    /\ Current.batch = None
    /\ Current.status \in {None, "MAPPING_REQUIRED", "PROVIDER_UNAVAILABLE"}
    /\ Goes(p, "map", Len(history), NoIntent)
    /\ UNCHANGED world

\* An invalid output is tried again under another instruction only.
BeginRetry(p) ==
    /\ pc[p] = "idle"
    /\ Current.batch = None
    /\ Current.status = "MAPPING_OUTPUT_INVALID"
    /\ Goes(p, "retry", Len(history), NoIntent)
    /\ UNCHANGED world

\* The model's question is not put to the user.
BeginRetire(p) ==
    /\ pc[p] = "idle"
    /\ Current.status = "CLARIFICATION_REQUIRED"
    /\ Saves(p, Len(history), Terminal("SPECIALIST_REVIEW_REQUIRED", None))
    /\ UNCHANGED world

BeginResume(p) ==
    /\ pc[p] = "idle"
    /\ Current.batch # None
    /\ Current.status \notin Final \cup {"MAPPING_OUTPUT_INVALID"}
    /\ Goes(p, "resume", Len(history), NoIntent)
    /\ UNCHANGED world

\* The tables a currency is asked for, and what was asserted of them so far.
Scope == IF Current.batch = None THEN 0 ELSE Current.batch.done + 1

Asserted == {c \in Currencies : <<Scope, c>> \in Current.decisions}

AsksForCurrency ==
    IF Current.batch = None THEN Current.status = "CURRENCY_ASSERTION_REQUIRED"
    ELSE Current.batch.pending /\ Current.status \notin Final \cup {"MAPPING_OUTPUT_INVALID"}

\* The user's message is a currency, the one that was asserted if there is one.
\* A replay that was cut off after the assertion is taken up again.
BeginAnswer(p, c) ==
    /\ pc[p] = "idle"
    /\ AsksForCurrency
    /\ Asserted \subseteq {c}
    /\ LET decision == <<Scope, c>> IN
       IF Asserted = {} THEN Saves(p, Len(history), Currency("assert", decision))
       ELSE IF Current.status = "CURRENCY_ASSERTION_REQUIRED"
       THEN Saves(p, Len(history), Currency("again", decision))
       ELSE Goes(p, "replay", Len(history), Currency("none", decision))
    /\ UNCHANGED world

\* What is approved now decides whether an invalid output is tried again.
Retry(p) ==
    /\ pc[p] = "retry"
    /\ IF prompt \in {None, At(base[p]).prompt}
       THEN Ends(p)
       ELSE Goes(p, "map", base[p], NoIntent)
    /\ UNCHANGED world

-----------------------------------------------------------------------------
(* _map_document reads the case again. *)

MapPlanned(p) ==
    /\ pc[p] = "map"
    /\ Current.batch # None
    /\ Saves(p, Len(history), Terminal("SOURCE_CONTEXT_LIMIT", None))
    /\ UNCHANGED world

MapNothing(p) ==
    /\ pc[p] = "map"
    /\ Current.batch = None
    /\ shape = "nothing"
    /\ Saves(p, Len(history), Terminal("SPECIALIST_REVIEW_REQUIRED", None))
    /\ UNCHANGED world

MapTooLarge(p) ==
    /\ pc[p] = "map"
    /\ Current.batch = None
    /\ shape = "too_large"
    /\ Saves(p, Len(history), Terminal("SOURCE_CONTEXT_LIMIT", None))
    /\ UNCHANGED world

Map(p) ==
    /\ pc[p] = "map"
    /\ Current.batch = None
    /\ shape \in {"one", "batches"}
    /\ Goes(p, IF shape = "one" THEN "prompt" ELSE "plan", Len(history), NoIntent)
    /\ UNCHANGED world

-----------------------------------------------------------------------------
(* One request. *)

TakePrompt(p) ==
    /\ pc[p] = "prompt"
    /\ prompt # None
    /\ Goes(p, "answer", base[p], [NoIntent EXCEPT !.prompt = prompt])
    /\ UNCHANGED world

PromptUnavailable(p) ==
    /\ pc[p] = "prompt"
    /\ prompt = None
    /\ Setback
    /\ Saves(p, base[p], Terminal("PROVIDER_UNAVAILABLE", None))
    /\ UNCHANGED <<shape, prompt, history, sent>>

WaitsForOne(p) == pc[p] = "answer" /\ At(base[p]).batch = None

ProviderFails(p) ==
    /\ WaitsForOne(p)
    /\ Setback
    /\ Saves(p, base[p], Terminal("PROVIDER_UNAVAILABLE", intent[p].prompt))
    /\ UNCHANGED <<shape, prompt, history, sent>>

\* The answer does not validate, or the request already did not.
Invalid(p) ==
    /\ WaitsForOne(p)
    /\ Saves(p, base[p], Terminal("MAPPING_OUTPUT_INVALID", intent[p].prompt))
    /\ UNCHANGED world

Answered(p) ==
    /\ WaitsForOne(p)
    /\ \E status \in {"COMPLETE", "UNSUPPORTED", "SPECIALIST_REVIEW_REQUIRED",
                      "CLARIFICATION_REQUIRED"} :
          Saves(p, base[p], Outcome(status, intent[p].prompt))
    /\ UNCHANGED world

AsksCurrency(p) ==
    /\ WaitsForOne(p)
    /\ Setback
    /\ Saves(p, base[p], Outcome("CURRENCY_ASSERTION_REQUIRED", intent[p].prompt))
    /\ UNCHANGED <<shape, prompt, history, sent>>

\* The answer that was kept is validated with the currency; a failure of that
\* ends the turn as a death does.
Replay(p) ==
    /\ pc[p] = "replay"
    /\ At(base[p]).batch = None
    /\ \E status \in {"COMPLETE", "UNSUPPORTED"} :
          Saves(p, base[p], Outcome(status, None))
    /\ UNCHANGED world

-----------------------------------------------------------------------------
(* Batches. *)

\* With revision n = r in hand: claim the batch that is next.
Claims(p, n, r) ==
    Saves(p, n, BatchState("MAPPING_REQUIRED", r.prompt, Claimed(r.batch, p), "call"))

\* The package of the batch is not the one that was planned, or its request does
\* not pass the preflight: no call is made.
GivesUp(p, n, r) ==
    Saves(p, n, BatchState("MAPPING_OUTPUT_INVALID", r.prompt, r.batch, "idle"))

PutsTogether(p, n, r) == Saves(p, n, Outcome("COMPLETE", r.prompt))

\* Mutants of ClaimNext: off by one at the end of the plan, in both directions.
ClaimOneMore(p, n, r) ==
    IF r.batch.done > NBatches THEN PutsTogether(p, n, r) ELSE Claims(p, n, r)

ClaimOneLess(p, n, r) ==
    IF r.batch.done >= NBatches - 1 THEN PutsTogether(p, n, r) ELSE Claims(p, n, r)

\* Claim the next batch, or put together the outcomes of all.
ClaimNext(p, n, r) ==
    IF r.batch.done = NBatches THEN PutsTogether(p, n, r) ELSE Claims(p, n, r)

\* Without the instruction there is no plan, and the turn fails.
Plan(p) ==
    /\ pc[p] = "plan"
    /\ IF prompt = None
       THEN Ends(p)
       ELSE Saves(p, base[p], BatchState("MAPPING_REQUIRED", prompt, FreshPlan, "claim"))
    /\ UNCHANGED world

\* A batch was claimed and nobody knows what became of it, or the instruction,
\* or something else that was pinned with the plan, is not what it was.
ResumeUnsafe(p) ==
    /\ pc[p] = "resume"
    /\ LET r == At(base[p]) IN
       /\ \/ r.batch.token # None /\ UNCHANGED setbacks
          \/ IsIdle(r.batch) /\ prompt \notin {None, r.prompt} /\ UNCHANGED setbacks
          \/ Setback
       /\ Saves(p, base[p], BatchState("MAPPING_OUTPUT_INVALID", r.prompt, r.batch, "idle"))
    /\ UNCHANGED <<shape, prompt, history, sent>>

\* The message is not the currency that is asked for.
ResumeWaits(p) ==
    /\ pc[p] = "resume"
    /\ At(base[p]).batch.pending
    /\ Ends(p)
    /\ UNCHANGED world

Resume(p) ==
    /\ pc[p] = "resume"
    /\ IsIdle(At(base[p]).batch)
    /\ prompt = At(base[p]).prompt
    /\ ClaimNext(p, base[p], At(base[p]))
    /\ UNCHANGED world

ResumeLater(p) ==
    /\ pc[p] = "resume"
    /\ IsIdle(At(base[p]).batch)
    /\ prompt = None
    /\ Setback
    /\ LET r == At(base[p]) IN
       Saves(p, base[p], BatchState("PROVIDER_UNAVAILABLE", r.prompt, r.batch, "idle"))
    /\ UNCHANGED <<shape, prompt, history, sent>>

\* The claim is stored: the batch goes to the provider.
Send(p) ==
    /\ pc[p] = "call"
    /\ sent' = [sent EXCEPT ![At(base[p]).batch.done + 1] = @ + 1]
    /\ Goes(p, "answer", base[p], NoIntent)
    /\ UNCHANGED <<shape, prompt, history, setbacks>>

WaitsForBatch(p) == pc[p] = "answer" /\ At(base[p]).batch # None

\* What the provider says of the batch; a failure and an answer that does not
\* validate are one.
BatchStopped(p) ==
    /\ WaitsForBatch(p)
    /\ \E status \in {"MAPPING_OUTPUT_INVALID", "SPECIALIST_REVIEW_REQUIRED", "UNSUPPORTED"} :
          LET r == At(base[p]) IN
          Saves(p, base[p], BatchState(status, r.prompt, r.batch, "idle"))
    /\ UNCHANGED world

BatchAsksCurrency(p) ==
    /\ WaitsForBatch(p)
    /\ Setback
    /\ LET r == At(base[p]) IN
       Saves(p, base[p], BatchState("CURRENCY_ASSERTION_REQUIRED", r.prompt,
                                    Awaiting(r.batch), "idle"))
    /\ UNCHANGED <<shape, prompt, history, sent>>

BatchDone(p) ==
    /\ WaitsForBatch(p)
    /\ LET r == At(base[p]) IN
       Saves(p, base[p], BatchState("MAPPING_REQUIRED", r.prompt,
                                    Completed(r.batch), "resume"))
    /\ UNCHANGED world

\* Mutant of ReplayBatch: whatever batch is pending takes the currency.
ReplayAnyBatch(p) ==
    /\ pc[p] = "replay"
    /\ At(base[p]).batch # None
    /\ LET r == At(base[p]) IN
       Saves(p, base[p], BatchState("MAPPING_REQUIRED", r.prompt,
                                    Completed(r.batch), "resume"))
    /\ UNCHANGED world

\* The answer that was kept for the batch the turn has read about is validated
\* with the currency, against the batch that is pending now.
ReplayBatch(p) ==
    /\ pc[p] = "replay"
    /\ At(base[p]).batch # None
    /\ intent[p].decision[1] = At(base[p]).batch.done + 1
    /\ LET r == At(base[p]) IN
       Saves(p, base[p], BatchState("MAPPING_REQUIRED", r.prompt,
                                    Completed(r.batch), "resume"))
    /\ UNCHANGED world

ReplayInvalid(p) ==
    /\ pc[p] = "replay"
    /\ At(base[p]).batch # None
    /\ LET r == At(base[p]) IN
       Saves(p, base[p], BatchState("MAPPING_OUTPUT_INVALID", r.prompt, r.batch, "idle"))
    /\ UNCHANGED world

-----------------------------------------------------------------------------
(* Saves. *)

\* May the intended revision follow r?
AcceptsOutcome(i, r) ==
    \/ r.status \in {None, "MAPPING_REQUIRED", "PROVIDER_UNAVAILABLE"}
    \/ r.status = "MAPPING_OUTPUT_INVALID" /\ None \notin {i.prompt, r.prompt}
                                           /\ i.prompt # r.prompt

\* Mutant of AttemptIsOurs: the check for a started attempt is left out.
AnyAttempt(i, b) == TRUE

\* A claimed or pending batch is left alone, completed, or, if it was claimed,
\* made pending; an idle plan keeps what is done.
AttemptIsOurs(i, b) ==
    IF IsIdle(b) THEN i.batch.done = b.done
    ELSE \/ i.batch = b
         \/ i.batch = Completed(b)
         \/ b.token # None /\ i.batch = Awaiting(b)
                           /\ i.status = "CURRENCY_ASSERTION_REQUIRED"

\* Mutant of AcceptsBatch: the status of the case is not looked at.
AcceptsBatchAnyway(i, r) ==
    r.batch # None => r.prompt = i.prompt /\ AttemptIsOurs(i, r.batch)

AcceptsBatch(i, r) ==
    /\ r.status \in {None, "MAPPING_REQUIRED", "CURRENCY_ASSERTION_REQUIRED",
                     "PROVIDER_UNAVAILABLE"}
    /\ r.batch # None => r.prompt = i.prompt /\ AttemptIsOurs(i, r.batch)

\* Mutant of Accepts: a terminal state may follow any revision.
AcceptsAnyTerminal(i, r) ==
    \/ i.op = "outcome"  /\ AcceptsOutcome(i, r)
    \/ i.op = "batch"    /\ AcceptsBatch(i, r)
    \/ i.op = "terminal"
    \/ i.op = "assert"   /\ r.status = "CURRENCY_ASSERTION_REQUIRED"
    \/ i.op = "again"    /\ r.status = "CURRENCY_ASSERTION_REQUIRED"
                         /\ i.decision \in r.decisions

Accepts(i, r) ==
    \/ i.op = "outcome"  /\ AcceptsOutcome(i, r)
    \/ i.op = "batch"    /\ AcceptsBatch(i, r)
    \/ i.op = "terminal" /\ r.status # "COMPLETE"
    \/ i.op = "assert"   /\ r.status = "CURRENCY_ASSERTION_REQUIRED"
    \/ i.op = "again"    /\ r.status = "CURRENCY_ASSERTION_REQUIRED"
                         /\ i.decision \in r.decisions

\* _next_payload: what a save does not say it takes over from the revision
\* before, except that an outcome and a terminal state clear the plan.
Payload(i, r) ==
    [status    |-> i.status,
     prompt    |-> IF i.prompt = None THEN r.prompt ELSE i.prompt,
     batch     |-> IF i.op = "batch" THEN i.batch
                   ELSE IF i.op \in {"assert", "again"} THEN r.batch
                   ELSE None,
     decisions |-> IF i.op = "assert" THEN r.decisions \cup {i.decision}
                   ELSE r.decisions]

SaveReads(p) ==
    /\ pc[p] = "save"
    /\ Accepts(intent[p], Current)
    /\ pc'    = [pc EXCEPT ![p] = "put"]
    /\ prior' = [prior EXCEPT ![p] = Len(history)]
    /\ UNCHANGED <<world, base, intent>>

SaveRefused(p) ==
    /\ pc[p] = "save"
    /\ ~Accepts(intent[p], Current)
    /\ Ends(p)
    /\ UNCHANGED world

\* The revision p puts, and what it does with it in hand.
Written(p) == Payload(intent[p], At(prior[p]))

Continues(p) ==
    LET n == prior[p] + 1
        i == intent[p]
    IN  \/ i.then = "idle"   /\ Ends(p)
        \/ i.then = "retire" /\ Saves(p, n, Terminal("SPECIALIST_REVIEW_REQUIRED", None))
        \/ i.then = "claim"  /\ (Claims(p, n, Written(p)) \/ GivesUp(p, n, Written(p)))
        \/ i.then \notin {"idle", "retire", "claim"} /\ Goes(p, i.then, n, i)

\* Mutant of Put: appends, whatever is there.
PutLast(p) ==
    /\ pc[p] = "put"
    /\ history' = Append(history, Written(p))
    /\ Continues(p)
    /\ UNCHANGED <<shape, prompt, sent, setbacks>>

Put(p) ==
    /\ pc[p] = "put"
    /\ Len(history) = prior[p]
    /\ history' = Append(history, Written(p))
    /\ Continues(p)
    /\ UNCHANGED <<shape, prompt, sent, setbacks>>

\* The same revision is there already.
PutAgain(p) ==
    /\ pc[p] = "put"
    /\ Len(history) > prior[p]
    /\ history[prior[p] + 1] = Written(p)
    /\ Continues(p)
    /\ UNCHANGED world

\* Another one is, or this one is being inserted at the same moment.
PutConflicts(p) ==
    /\ pc[p] = "put"
    /\ Len(history) > prior[p]
    /\ Ends(p)
    /\ UNCHANGED world

-----------------------------------------------------------------------------
(* The world around. *)

\* The process dies, or the turn ends with an exception of something abstracted.
Die(p) ==
    /\ pc[p] # "idle"
    /\ Setback
    /\ Ends(p)
    /\ UNCHANGED <<shape, prompt, history, sent>>

\* The instruction is revised, or cannot be had.
RevisePrompt ==
    /\ prompt # None
    /\ Setback
    /\ prompt' \in (Prompts \cup {None}) \ {prompt}
    /\ UNCHANGED <<shape, history, sent, turn>>

RestorePrompt ==
    /\ prompt = None
    /\ prompt' \in Prompts
    /\ UNCHANGED <<shape, history, sent, setbacks, turn>>

-----------------------------------------------------------------------------
Begin(p) ==
    \/ BeginMapping(p) \/ BeginRetry(p) \/ BeginRetire(p) \/ BeginResume(p)
    \/ \E c \in Currencies : BeginAnswer(p, c)

MapStep(p) ==
    \/ Retry(p) \/ MapPlanned(p) \/ MapNothing(p) \/ MapTooLarge(p) \/ Map(p)
    \/ TakePrompt(p) \/ PromptUnavailable(p) \/ ProviderFails(p) \/ Invalid(p)
    \/ Answered(p) \/ AsksCurrency(p) \/ Replay(p)

BatchStep(p) ==
    \/ Plan(p) \/ ResumeUnsafe(p) \/ ResumeWaits(p) \/ Resume(p) \/ ResumeLater(p)
    \/ Send(p)
    \/ BatchStopped(p) \/ BatchAsksCurrency(p) \/ BatchDone(p)
    \/ ReplayBatch(p) \/ ReplayInvalid(p)

SaveStep(p) ==
    SaveReads(p) \/ SaveRefused(p) \/ Put(p) \/ PutAgain(p) \/ PutConflicts(p)

Advance(p) == MapStep(p) \/ BatchStep(p) \/ SaveStep(p)

Next ==
    \/ \E p \in Procs : Begin(p) \/ Advance(p) \/ Die(p)
    \/ RevisePrompt
    \/ RestorePrompt

Spec == Init /\ [][Next]_vars

-----------------------------------------------------------------------------
(* What must hold. *)

TypeOK ==
    /\ shape    \in Shapes
    /\ prompt   \in Prompts \cup {None}
    /\ history  \in Seq(Revision)
    /\ sent     \in [1 .. NBatches -> Nat]
    /\ setbacks \in Nat
    /\ pc       \in [Procs -> Points]
    /\ base     \in [Procs -> 0 .. Len(history)]
    /\ prior    \in [Procs -> 0 .. Len(history)]
    /\ intent   \in [Procs -> Intent]

\* The progress of a plan: idle, claimed and waiting for a currency, batch by
\* batch, and beyond all of that when the plan is given up or put together.
Rank(r) ==
    IF r.batch = None THEN 3 * NBatches + 1
    ELSE 3 * r.batch.done + (IF r.batch.pending THEN 2 ELSE IF r.batch.token # None THEN 1 ELSE 0)

\* Revision r claims a batch that is about to be sent or was sent.
IsClaim(r) == r.status = "MAPPING_REQUIRED" /\ r.batch # None /\ r.batch.token # None

\* A revision of a planned case: what its status says of the plan.
RevisionInv(r) ==
    /\ r.prompt # None
    /\ IF r.batch = None THEN r.status \in {"COMPLETE", "SOURCE_CONTEXT_LIMIT"}
       ELSE /\ r.status \in Statuses \ {"COMPLETE", "SOURCE_CONTEXT_LIMIT", "CLARIFICATION_REQUIRED"}
            /\ r.batch.token # None => ~r.batch.pending
            /\ ~IsIdle(r.batch) => r.batch.done < NBatches
            /\ r.status = "CURRENCY_ASSERTION_REQUIRED" => r.batch.pending
            /\ r.status = "PROVIDER_UNAVAILABLE" => IsIdle(r.batch)

\* A planned case moves forward only, under one instruction; each batch is
\* claimed once, sent after that, and sent before it waits or is done.
PlanInv ==
    /\ \A n \in 1 .. Len(history) : RevisionInv(history[n])
    /\ \A m, n \in 1 .. Len(history) :
          /\ m <= n => Rank(history[m]) <= Rank(history[n])
          /\ history[m].prompt = history[n].prompt
          /\ (/\ IsClaim(history[m]) /\ IsClaim(history[n])
              /\ history[m].batch.done = history[n].batch.done) => m = n
    /\ \A b \in 1 .. NBatches :
          /\ sent[b] \in {0, 1}
          /\ \A n \in 1 .. Len(history) :
                (history[n].batch # None /\ Rank(history[n]) >= 3 * b - 1) => sent[b] = 1
          /\ sent[b] = 1 => Len(history) > 0 /\ Rank(Current) >= 3 * b - 2

\* Revision n is a claim of p; its batch was sent.
HasClaim(p, n) ==
    /\ n > 0
    /\ IsClaim(At(n))
    /\ At(n).batch.token = p

WasSent(p, n) == HasClaim(p, n) /\ sent[At(n).batch.done + 1] = 1

\* What p may be about to save of a plan, going by revision n.
SavesBatch(p, n, i) ==
    LET r == At(n) IN
    /\ i.prompt = r.prompt
    /\ r.batch # None
    /\ \/ /\ i.status = "MAPPING_REQUIRED" /\ i.then = "call"
          /\ i.batch = Claimed(r.batch, p)
          /\ IsIdle(r.batch) /\ r.batch.done < NBatches
       \/ /\ i.status = "MAPPING_REQUIRED" /\ i.then = "resume"
          /\ i.batch = Completed(r.batch)
          /\ (WasSent(p, n) \/ r.batch.pending)
       \/ /\ i.status = "CURRENCY_ASSERTION_REQUIRED" /\ i.then = "idle"
          /\ i.batch = Awaiting(r.batch)
          /\ WasSent(p, n)
       \/ /\ i.status \in {"MAPPING_OUTPUT_INVALID", "SPECIALIST_REVIEW_REQUIRED", "UNSUPPORTED"}
          /\ i.then = "idle"
          /\ i.batch = r.batch
       \/ /\ i.status = "PROVIDER_UNAVAILABLE" /\ i.then = "idle"
          /\ i.batch = r.batch
          /\ IsIdle(r.batch)

\* What p may be about to save in a planned case.
Plans(p, n, i) ==
    \/ /\ i.op = "terminal" /\ i.status = "SOURCE_CONTEXT_LIMIT" /\ i.then = "idle"
       /\ n > 0 /\ i.prompt = None
    \/ /\ i.op \in {"assert", "again"} /\ i.status = "MAPPING_REQUIRED"
       /\ i.then = "replay" /\ i.prompt = None /\ i.decision # None
    \/ /\ i.op = "outcome" /\ i.status = "COMPLETE" /\ i.then = "idle"
       /\ i.prompt = At(n).prompt
       /\ At(n).batch # None /\ At(n).batch.done = NBatches
    \/ /\ i.op = "batch" /\ i.status = "MAPPING_REQUIRED" /\ i.then = "claim"
       /\ i.batch = FreshPlan /\ i.prompt # None
    \/ i.op = "batch" /\ SavesBatch(p, n, i)

\* May a batch be saved after r?
IsOpen(r) ==
    r.batch # None /\ r.status \in {"MAPPING_REQUIRED", "CURRENCY_ASSERTION_REQUIRED",
                                    "PROVIDER_UNAVAILABLE"}

\* A turn in a planned case.  It knows of every claim of its own, and while it
\* goes by one nobody moves the plan on, though others may give it up.
PlannedTurn(p, point, n, i) ==
    /\ point \notin {"prompt", "retry"}
    /\ point = "resume" => At(n).batch # None
    /\ point = "replay" => At(n).batch # None /\ At(n).batch.pending
    /\ point = "call"   => HasClaim(p, n) /\ sent[At(n).batch.done + 1] = 0
    /\ point = "answer" => WasSent(p, n)
    /\ point \in {"save", "put"} => Plans(p, n, i)
    /\ point # "idle" =>
          /\ \A m \in 1 .. Len(history) : HasClaim(p, m) => m <= n
          /\ HasClaim(p, n) => \A m \in n + 1 .. Len(history) : ~IsOpen(history[m])

\* What a request that got no usable answer leaves behind.
Failures == {"PROVIDER_UNAVAILABLE", "MAPPING_OUTPUT_INVALID"}

\* A turn in a case that has no plan.
PlainTurn(point, i) ==
    /\ point \notin {"plan", "resume", "call"}
    /\ point \in {"prompt", "retry", "answer", "replay"} => shape = "one"
    /\ point \in {"save", "put"} =>
          /\ i.op # "batch"
          /\ i.then \in {"idle", "retire", "replay"}
          /\ i.op = "terminal" => i.status \in Final \cup Failures
          /\ i.op = "assert" => i.decision # None
          /\ shape # "one" => i.op = "terminal" /\ i.then = "idle" /\ i.status \in Final

\* Such a case has no batches.
PlainInv ==
    /\ \A n \in 1 .. Len(history) :
          /\ history[n].batch = None
          /\ shape # "one" => history[n].status \in Final
    /\ \A b \in 1 .. NBatches : sent[b] = 0

\* What everything else follows from: revisions, turns and their saves agree.
MappingInv ==
    /\ TypeOK
    /\ IF shape = "batches"
       THEN PlanInv  /\ \A p \in Procs : PlannedTurn(p, pc[p], base[p], intent[p])
       ELSE PlainInv /\ \A p \in Procs : PlainTurn(pc[p], intent[p])
    /\ \A p \in Procs :
          pc[p] = "put" => base[p] <= prior[p] /\ Accepts(intent[p], At(prior[p]))

\* No batch is ever sent twice, whoever asks again, dies or comes late.
SentOnce == \A b \in 1 .. NBatches : sent[b] <= 1

\* While one batch is with the provider, no other is: a plan is worked off in
\* order, by one turn at a time, though nothing locks the case.
OneAtATime ==
    \A p, q \in Procs : (WaitsForBatch(p) /\ WaitsForBatch(q)) => p = q

\* A plan that is complete had every batch answered, each by its one call.
CompleteIsEarned ==
    \A n \in 1 .. Len(history) :
        (shape = "batches" /\ history[n].status = "COMPLETE") =>
            /\ n > 1
            /\ history[n - 1].batch # None
            /\ history[n - 1].batch.done = NBatches
            /\ \A b \in 1 .. NBatches : sent[b] = 1

\* Nothing the user asserted and no finished batch is forgotten by a later
\* revision, as long as the plan is there.
NothingIsForgotten ==
    \A n \in 2 .. Len(history) :
        LET r == history[n - 1]
            s == history[n]
        IN  /\ r.decisions \subseteq s.decisions
            /\ (r.batch # None /\ s.batch # None) => r.batch.done <= s.batch.done

\* Nothing follows COMPLETE.
CompleteIsLast ==
    \A n \in 1 .. Len(history) : history[n].status = "COMPLETE" => n = Len(history)

\* A case that is settled stays settled, whatever turns are still under way:
\* only the failure of a request that was sent before it was settled replaces
\* an outcome, and never one that is COMPLETE.
ReopenedByLateFailureOnly ==
    [][(Current.status \in Final /\ Current'.status \notin Final) =>
          /\ shape = "one"
          /\ Current.status # "COMPLETE"
          /\ Current'.status \in Failures]_vars

\* The contract of the case: "stale or concurrent answers fail closed".  A
\* currency that is recorded answers the question the case asks at that moment.
StaleAnswersFail ==
    [][\A d \in Current'.decisions \ Current.decisions :
          Current.status = "CURRENCY_ASSERTION_REQUIRED" /\ d[1] = Scope]_vars

-----------------------------------------------------------------------------
(* The ledger of the work, read off the revisions. *)

\* Some revision says of batch b that it is done, or that it waits for a currency.
DoneSomewhere(b) ==
    \E n \in 1 .. Len(history) : history[n].batch # None /\ history[n].batch.done >= b

AskedSomewhere(b) ==
    \E n \in 1 .. Len(history) :
        /\ history[n].batch # None
        /\ history[n].batch.pending /\ history[n].batch.done = b - 1

WorkOn(b) == IF DoneSomewhere(b) THEN "answered"
             ELSE IF AskedSomewhere(b) THEN "asked"
             ELSE IF sent[b] = 0 THEN "new" ELSE "sent"

\* An invalid output ends a plan; one request is tried again.
OutcomeOf(r) == CASE r.status = "COMPLETE" -> "complete"
                  [] r.status \in Final \ {"COMPLETE"} -> "stopped"
                  [] r.status = "MAPPING_OUTPUT_INVALID" /\ shape = "batches" -> "stopped"
                  [] OTHER -> "open"

Ledger == INSTANCE MappingLedger WITH
    fits     <- shape,
    work     <- [b \in 1 .. NBatches |-> WorkOn(b)],
    asserted <- {d[1] : d \in Current.decisions},
    outcome  <- OutcomeOf(Current)

\* Every step of every turn is a step of that ledger: batches are sent once and in
\* order, a currency question is answered before its batch is done, a complete case
\* and a stopped plan stay so, whatever late or stale saves come in between.
ImplementsLedger == Ledger!Spec
=============================================================================
