-------------------------- MODULE MappingCase_proofs --------------------------
(***************************************************************************)
(* For any number of batches, processes, currencies and versions of the     *)
(* instruction: revisions, turns and their saves agree, and from that, that *)
(* no batch is sent twice, that one turn at a time is at the provider, and  *)
(* what a case never forgets or takes back, and that it is the ledger       *)
(* MappingLedger.                                                           *)
(***************************************************************************)
EXTENDS MappingCase, SequenceTheorems, TLAPS

USE SizeAssumption, NoneAssumption

-----------------------------------------------------------------------------
(* Steps of a turn that store nothing. *)

\* A step that only moves a turn to a point that fits the plan keeps the invariant.
LEMMA TurnStep ==
  ASSUME MappingInv,
         NEW p \in Procs, NEW point \in Points \ {"put"},
         NEW n \in 0 .. Len(history), NEW i \in Intent,
         Goes(p, point, n, i),
         UNCHANGED <<shape, history, sent>>,
         prompt' \in Prompts \cup {None}, setbacks' \in Nat,
         IF shape = "batches" THEN PlannedTurn(p, point, n, i)
         ELSE PlainTurn(point, i)
  PROVE  MappingInv'
<1>1. TypeOK'
  BY DEF MappingInv, TypeOK, Goes
<1>2. \A q \in Procs : q # p =>
         pc'[q] = pc[q] /\ base'[q] = base[q] /\ intent'[q] = intent[q] /\ prior'[q] = prior[q]
  BY DEF MappingInv, TypeOK, Goes
<1>3. pc'[p] = point /\ base'[p] = n /\ intent'[p] = i
  BY DEF MappingInv, TypeOK, Goes
<1>4. ASSUME NEW q \in Procs
      PROVE  (pc[q] = "put" => base[q] <= prior[q] /\ Accepts(intent[q], At(prior[q])))'
  <2>1. CASE q = p
    BY <1>3, <2>1
  <2>2. CASE q # p
    BY <1>2, <2>2 DEF MappingInv, Accepts, AcceptsOutcome, AcceptsBatch, AttemptIsOurs, At
  <2> QED BY <2>1, <2>2
<1>5. CASE shape = "batches"
  <2>1. PlanInv'
    BY <1>5 DEF MappingInv, PlanInv, RevisionInv, Rank, IsClaim, Current, At, IsIdle
  <2>2. ASSUME NEW q \in Procs
        PROVE  PlannedTurn(q, pc[q], base[q], intent[q])'
    <3>1. CASE q = p
      <4>1. PlannedTurn(p, point, n, i) /\ history' = history /\ sent' = sent
        BY <1>5
      <4>2. pc'[q] = point /\ base'[q] = n /\ intent'[q] = i
        BY <1>3, <3>1
      <4>3. \A m : HasClaim(p, m)' <=> HasClaim(p, m)
        BY <4>1 DEF HasClaim, At
      <4>4. At(n)' = At(n) /\ (WasSent(p, n)' <=> WasSent(p, n))
        BY <4>1, <4>3 DEF WasSent, At
      <4>5. Plans(p, n, i)' <=> Plans(p, n, i)
        BY <4>1, <4>4 DEF Plans, SavesBatch
      <4> QED BY <3>1, <4>1, <4>2, <4>3, <4>4, <4>5 DEF PlannedTurn
    <3>2. CASE q # p
      <4>1. PlannedTurn(q, pc[q], base[q], intent[q]) /\ history' = history /\ sent' = sent
        BY <1>5 DEF MappingInv
      <4>2. pc'[q] = pc[q] /\ base'[q] = base[q] /\ intent'[q] = intent[q]
        BY <1>2, <3>2
      <4>3. \A m : HasClaim(q, m)' <=> HasClaim(q, m)
        BY <4>1 DEF HasClaim, At
      <4>4. At(base[q])' = At(base[q]) /\ (WasSent(q, base[q])' <=> WasSent(q, base[q]))
        BY <4>1, <4>2, <4>3 DEF WasSent, At
      <4>5. Plans(q, base[q], intent[q])' <=> Plans(q, base[q], intent[q])
        BY <4>1, <4>2, <4>4 DEF Plans, SavesBatch
      <4> QED BY <4>1, <4>2, <4>3, <4>4, <4>5 DEF PlannedTurn
    <3> QED BY <3>1, <3>2
  <2> QED BY <1>1, <1>4, <1>5, <2>1, <2>2 DEF MappingInv
<1>6. CASE shape # "batches"
  <2>1. PlainInv'
    BY <1>6 DEF MappingInv, PlainInv
  <2>2. ASSUME NEW q \in Procs
        PROVE  PlainTurn(pc[q], intent[q])'
    BY <1>2, <1>3, <1>6 DEF MappingInv, PlainTurn
  <2> QED BY <1>1, <1>4, <1>6, <2>1, <2>2 DEF MappingInv
<1> QED BY <1>5, <1>6

\* So does the end of a turn.
LEMMA EndStep ==
  ASSUME MappingInv, NEW p \in Procs, Ends(p),
         UNCHANGED <<shape, history, sent>>,
         prompt' \in Prompts \cup {None}, setbacks' \in Nat
  PROVE  MappingInv'
<1>1. NoIntent \in Intent /\ "idle" \in Points \ {"put"} /\ 0 \in 0 .. Len(history)
  BY DEF NoIntent, Intent, Ops, Points, Statuses, MappingInv, TypeOK
<1>2. PlannedTurn(p, "idle", 0, NoIntent) /\ PlainTurn("idle", NoIntent)
  BY DEF PlannedTurn, PlainTurn
<1> QED BY <1>1, <1>2, TurnStep DEF Ends

\* What a step may leave as it is.
LEMMA WorldKept ==
  ASSUME TypeOK
  PROVE  /\ UNCHANGED world =>
               /\ UNCHANGED <<shape, history, sent>>
               /\ prompt' \in Prompts \cup {None} /\ setbacks' \in Nat
         /\ (UNCHANGED <<shape, prompt, history, sent>> /\ Setback) =>
               /\ UNCHANGED <<shape, history, sent>>
               /\ prompt' \in Prompts \cup {None} /\ setbacks' \in Nat
  BY DEF world, TypeOK, Setback

\* A revision in hand is a revision.
LEMMA RevisionsTyped ==
  ASSUME TypeOK
  PROVE  /\ Len(history) \in Nat
         /\ \A n \in 0 .. Len(history) : At(n) \in Revision
         /\ \A n \in 1 .. Len(history) : At(n) = history[n]
         /\ Current \in Revision
<1>1. Len(history) \in Nat /\ \A n \in 1 .. Len(history) : history[n] \in Revision
  BY DEF TypeOK
<1>2. Unborn \in Revision
  BY DEF Unborn, Revision
<1> QED BY <1>1, <1>2 DEF At, Current

\* What the case says of a revision in hand.
LEMMA RevisionFacts ==
  ASSUME MappingInv, NEW n \in 0 .. Len(history)
  PROVE  /\ n = 0 => At(n) = Unborn
         /\ (n > 0 /\ shape = "batches") => RevisionInv(At(n))
         /\ shape # "batches" => At(n).batch = None
         /\ (n > 0 /\ shape \notin {"batches", "one"}) => At(n).status \in Final
  BY RevisionsTyped DEF MappingInv, PlanInv, PlainInv, At, Unborn

-----------------------------------------------------------------------------
(* The steps that begin a turn. *)

\* Beginning a turn keeps the invariant, whatever the case says.
LEMMA BeginsKeep ==
  ASSUME MappingInv, NEW p \in Procs,
         BeginMapping(p) \/ BeginRetry(p) \/ BeginRetire(p) \/ BeginResume(p)
  PROVE  MappingInv'
<1> DEFINE L == Len(history)
<1>t. TypeOK /\ L \in 0 .. L /\ L \in Nat /\ Current = At(L) /\ Current \in Revision
  BY RevisionsTyped DEF MappingInv, Current
<1>f. /\ L = 0 => Current = Unborn
      /\ (L > 0 /\ shape = "batches") => RevisionInv(Current)
      /\ shape # "batches" => Current.batch = None
      /\ (L > 0 /\ shape \notin {"batches", "one"}) => Current.status \in Final
  BY <1>t, RevisionFacts
<1>i. NoIntent \in Intent /\ Terminal("SPECIALIST_REVIEW_REQUIRED", None) \in Intent
  BY DEF NoIntent, Intent, Ops, Points, Statuses, Terminal, Final
<1>w. /\ UNCHANGED <<shape, history, sent>>
      /\ prompt' \in Prompts \cup {None} /\ setbacks' \in Nat
  BY <1>t, WorldKept DEF BeginMapping, BeginRetry, BeginRetire, BeginResume
<1>o. \A m \in 1 .. L : HasClaim(p, m) => m <= L
  BY <1>t
<1>1. CASE BeginMapping(p)
  <2>1. PlannedTurn(p, "map", L, NoIntent) /\ PlainTurn("map", NoIntent)
    BY <1>o DEF PlannedTurn, PlainTurn
  <2>2. Goes(p, "map", L, NoIntent) /\ "map" \in Points \ {"put"}
    BY <1>1 DEF BeginMapping, Points
  <2> QED BY <1>t, <1>i, <1>w, <2>1, <2>2, TurnStep
<1>2. CASE BeginRetry(p)
  <2>1. Goes(p, "retry", L, NoIntent) /\ "retry" \in Points \ {"put"}
    BY <1>2 DEF BeginRetry, Points
  <2>2. Current.batch = None /\ Current.status = "MAPPING_OUTPUT_INVALID"
    BY <1>2 DEF BeginRetry
  <2>3. L > 0
    BY <1>t, <1>f, <2>2 DEF Unborn, Statuses
  <2>4. shape # "batches"
    BY <1>f, <2>2, <2>3 DEF RevisionInv
  <2>5. PlainTurn("retry", NoIntent)
    BY <1>f, <2>2, <2>3, <2>4 DEF PlainTurn, Final
  <2> QED BY <1>t, <1>i, <1>w, <2>1, <2>4, <2>5, TurnStep
<1>3. CASE BeginRetire(p)
  <2> DEFINE i == Terminal("SPECIALIST_REVIEW_REQUIRED", None)
  <2>1. Goes(p, "save", L, i) /\ "save" \in Points \ {"put"}
    BY <1>3 DEF BeginRetire, Points, Saves
  <2>2. Current.status = "CLARIFICATION_REQUIRED"
    BY <1>3 DEF BeginRetire
  <2>3. L > 0
    BY <1>t, <1>f, <2>2 DEF Unborn, Statuses
  <2>4. shape # "batches"
    BY <1>f, <2>2, <2>3 DEF RevisionInv
  <2>5. PlainTurn("save", i)
    BY DEF PlainTurn, Terminal, NoIntent, Final
  <2> HIDE DEF i
  <2> QED BY <1>t, <1>i, <1>w, <2>1, <2>4, <2>5, TurnStep DEF i
<1>4. CASE BeginResume(p)
  <2>1. Goes(p, "resume", L, NoIntent) /\ "resume" \in Points \ {"put"} /\ At(L).batch # None
    BY <1>t, <1>4 DEF BeginResume, Points
  <2>2. shape = "batches"
    BY <1>t, <1>f, <2>1
  <2>3. PlannedTurn(p, "resume", L, NoIntent)
    BY <1>o, <2>1 DEF PlannedTurn
  <2> QED BY <1>t, <1>i, <1>w, <2>1, <2>2, <2>3, TurnStep
<1> QED BY <1>1, <1>2, <1>3, <1>4

-----------------------------------------------------------------------------
(* The saves a turn may be about. *)

\* What a turn without a save is about.
LEMMA NoIntentFields ==
  /\ NoIntent \in Intent
  /\ NoIntent.op = "none" /\ NoIntent.then = "idle"
BY DEF NoIntent, Intent, Ops, Points, Statuses

\* What save_mapping_outcome is asked to save.
LEMMA OutcomeFields ==
  ASSUME NEW status \in Statuses, NEW snapshot \in Prompts \cup {None}
  PROVE  /\ Outcome(status, snapshot) \in Intent
         /\ Outcome(status, snapshot).op = "outcome"
         /\ Outcome(status, snapshot).status = status
         /\ Outcome(status, snapshot).prompt = snapshot
         /\ Outcome(status, snapshot).then \in {"idle", "retire"}
         /\ status # "CLARIFICATION_REQUIRED" => Outcome(status, snapshot).then = "idle"
BY DEF Outcome, NoIntent, Intent, Ops, Points

\* What a terminal save is asked to save.
LEMMA TerminalFields ==
  ASSUME NEW status \in Statuses, NEW snapshot \in Prompts \cup {None}
  PROVE  /\ Terminal(status, snapshot) \in Intent
         /\ Terminal(status, snapshot).op = "terminal"
         /\ Terminal(status, snapshot).status = status
         /\ Terminal(status, snapshot).prompt = snapshot
         /\ Terminal(status, snapshot).then = "idle"
BY DEF Terminal, NoIntent, Intent, Ops, Points

\* What save_batch_state is asked to save.
LEMMA BatchStateFields ==
  ASSUME NEW status \in Statuses, NEW snapshot \in Prompts \cup {None},
         NEW b \in BatchStates, NEW then \in {"idle", "claim", "call", "resume"}
  PROVE  /\ BatchState(status, snapshot, b, then) \in Intent
         /\ BatchState(status, snapshot, b, then).op = "batch"
         /\ BatchState(status, snapshot, b, then).status = status
         /\ BatchState(status, snapshot, b, then).prompt = snapshot
         /\ BatchState(status, snapshot, b, then).batch = b
         /\ BatchState(status, snapshot, b, then).then = then
BY DEF BatchState, NoIntent, Intent, Ops, Points

\* What the two ways to take a currency are asked to save.
LEMMA CurrencyFields ==
  ASSUME NEW op \in {"none", "assert", "again"}, NEW decision \in Assertions
  PROVE  /\ Currency(op, decision) \in Intent
         /\ Currency(op, decision).op = op
         /\ Currency(op, decision).status = "MAPPING_REQUIRED"
         /\ Currency(op, decision).prompt = None
         /\ Currency(op, decision).decision = decision
         /\ Currency(op, decision).then = "replay"
BY DEF Currency, NoIntent, Intent, Ops, Points, Statuses

\* What is done to a batch state makes a batch state.
LEMMA BatchStatesClosed ==
  /\ FreshPlan \in BatchStates
  /\ \A b \in BatchStates, p \in Procs :
        Claimed(b, p) \in BatchStates /\ Awaiting(b) \in BatchStates
  /\ \A b \in BatchStates : b.done < NBatches => Completed(b) \in BatchStates
<1>1. FreshPlan \in BatchStates
  BY DEF BatchStates, FreshPlan
<1>2. ASSUME NEW b \in BatchStates, NEW p \in Procs
      PROVE  Claimed(b, p) \in BatchStates /\ Awaiting(b) \in BatchStates
  BY DEF BatchStates, Claimed, Awaiting
<1>3. ASSUME NEW b \in BatchStates, b.done < NBatches
      PROVE  Completed(b) \in BatchStates
  <2>1. b.done \in 0 .. NBatches
    BY DEF BatchStates
  <2>2. b.done + 1 \in 0 .. NBatches
    BY <1>3, <2>1
  <2> QED BY <2>2 DEF BatchStates, Completed
<1> QED BY <1>1, <1>2, <1>3

-----------------------------------------------------------------------------
(* Answers, and the steps of a case that is not planned. *)

\* A turn that begins with a currency keeps the invariant.
LEMMA BeginAnswerKeeps ==
  ASSUME MappingInv, NEW p \in Procs, NEW c \in Currencies, BeginAnswer(p, c)
  PROVE  MappingInv'
<1> DEFINE L == Len(history)
<1> DEFINE decision == <<Scope, c>>
<1>t. TypeOK /\ L \in 0 .. L /\ L \in Nat /\ Current = At(L) /\ Current \in Revision
  BY RevisionsTyped DEF MappingInv, Current
<1>f. /\ L = 0 => Current = Unborn
      /\ (L > 0 /\ shape = "batches") => RevisionInv(Current)
      /\ shape # "batches" => Current.batch = None
      /\ (L > 0 /\ shape \notin {"batches", "one"}) => Current.status \in Final
  BY <1>t, RevisionFacts
<1>w. /\ UNCHANGED <<shape, history, sent>>
      /\ prompt' \in Prompts \cup {None} /\ setbacks' \in Nat
  BY <1>t, WorldKept DEF BeginAnswer
<1>o. \A m \in 1 .. L : HasClaim(p, m) => m <= L
  BY <1>t
<1>1. L > 0 /\ (Current.batch = None => Current.status = "CURRENCY_ASSERTION_REQUIRED")
            /\ (Current.batch # None => Current.batch.pending)
  BY <1>t, <1>f DEF BeginAnswer, AsksForCurrency, Unborn, Statuses
<1>2. shape = "batches" => Current.batch # None
  BY <1>f, <1>1 DEF RevisionInv
<1>3. shape # "batches" => shape = "one"
  BY <1>f, <1>1 DEF Final
<1>4. decision \in Assertions
  <2>1. CASE Current.batch = None
    BY <2>1 DEF Scope, Assertions
  <2>2. CASE Current.batch # None
    <3>1. Current.batch \in BatchStates /\ Current.batch.done < NBatches
      BY <1>t, <1>f, <1>1, <2>2 DEF Revision, RevisionInv, IsIdle
    <3> QED BY <2>2, <3>1 DEF Scope, Assertions, BatchStates
  <2> QED BY <2>1, <2>2
<1>5. ASSUME NEW op \in {"assert", "again"}, Saves(p, L, Currency(op, decision))
      PROVE  MappingInv'
  <2> DEFINE i == Currency(op, decision)
  <2>1. i \in Intent /\ i.op = op /\ i.status = "MAPPING_REQUIRED" /\ i.prompt = None /\ i.then = "replay"
        /\ i.decision # None
    BY <1>4, CurrencyFields
  <2>2. Goes(p, "save", L, i) /\ "save" \in Points \ {"put"}
    BY <1>5 DEF Saves, Points
  <2> HIDE DEF i, decision
  <2>3. PlannedTurn(p, "save", L, i)
    BY <1>o, <2>1 DEF PlannedTurn, Plans
  <2>4. shape = "one" => PlainTurn("save", i)
    BY <2>1 DEF PlainTurn
  <2> QED BY <1>t, <1>w, <1>3, <2>1, <2>2, <2>3, <2>4, TurnStep
<1>6. ASSUME Current.status # "CURRENCY_ASSERTION_REQUIRED",
             Goes(p, "replay", L, Currency("none", decision))
      PROVE  MappingInv'
  <2>1. Currency("none", decision) \in Intent /\ "replay" \in Points \ {"put"}
    BY <1>4, CurrencyFields DEF Points
  <2> HIDE DEF decision
  <2>2. Current.batch # None /\ Current.batch.pending /\ shape = "batches"
    BY <1>f, <1>1, <1>6
  <2>3. PlannedTurn(p, "replay", L, Currency("none", decision))
    BY <1>t, <1>o, <2>2 DEF PlannedTurn
  <2> QED BY <1>t, <1>w, <1>6, <2>1, <2>2, <2>3, TurnStep
<1> QED BY <1>5, <1>6 DEF BeginAnswer

\* A turn that saves something, in a case that is not planned.
LEMMA PlainSave ==
  ASSUME MappingInv, NEW p \in Procs, shape # "batches", NEW i \in Intent,
         Saves(p, base[p], i) \/ Saves(p, Len(history), i),
         UNCHANGED <<shape, history, sent>>,
         prompt' \in Prompts \cup {None}, setbacks' \in Nat,
         i.op # "batch", i.then \in {"idle", "retire", "replay"},
         i.op = "terminal" => i.status \in Final \cup Failures,
         i.op = "assert" => i.decision # None,
         shape # "one" => i.op = "terminal" /\ i.then = "idle" /\ i.status \in Final
  PROVE  MappingInv'
<1>1. base[p] \in 0 .. Len(history) /\ Len(history) \in 0 .. Len(history)
  BY RevisionsTyped DEF MappingInv, TypeOK
<1>2. PlainTurn("save", i) /\ "save" \in Points \ {"put"}
  BY DEF PlainTurn, Points
<1> QED BY <1>1, <1>2, TurnStep DEF Saves

\* The steps of _map_document and of one request keep it.
LEMMA MapStepsKeep ==
  ASSUME MappingInv, NEW p \in Procs, MapStep(p)
  PROVE  MappingInv'
<1> DEFINE L == Len(history)
<1> USE DEF MapStep
<1>t. /\ TypeOK /\ L \in 0 .. L /\ L \in Nat /\ Current = At(L) /\ Current \in Revision
      /\ base[p] \in 0 .. L /\ At(base[p]) \in Revision /\ intent[p] \in Intent
  BY RevisionsTyped DEF MappingInv, Current, TypeOK
<1>f. /\ L = 0 => Current = Unborn
      /\ shape # "batches" => Current.batch = None /\ At(base[p]).batch = None
  BY <1>t, RevisionFacts
<1>w. /\ UNCHANGED <<shape, history, sent>>
      /\ prompt' \in Prompts \cup {None} /\ setbacks' \in Nat
  BY <1>t, WorldKept DEF Retry, MapPlanned, MapNothing, MapTooLarge, Map, TakePrompt,
     PromptUnavailable, ProviderFails, Invalid, Answered, AsksCurrency, Replay
<1>b. shape = "batches" => PlannedTurn(p, pc[p], base[p], intent[p])
  BY DEF MappingInv
<1>p. shape # "batches" => PlainTurn(pc[p], intent[p])
  BY DEF MappingInv
<1>o. \A m \in 1 .. L : HasClaim(p, m) => m <= L
  BY <1>t
<1>s. {"COMPLETE", "UNSUPPORTED", "SPECIALIST_REVIEW_REQUIRED", "SOURCE_CONTEXT_LIMIT",
       "PROVIDER_UNAVAILABLE", "MAPPING_OUTPUT_INVALID", "CLARIFICATION_REQUIRED",
       "CURRENCY_ASSERTION_REQUIRED"} \subseteq Statuses
      /\ {"SPECIALIST_REVIEW_REQUIRED", "SOURCE_CONTEXT_LIMIT"} \subseteq Final
  BY DEF Statuses, Final
<1>i. intent[p].prompt \in Prompts \cup {None}
  BY <1>t DEF Intent
<1>1. CASE Retry(p)
  <2>1. CASE Ends(p)
    BY <1>w, <2>1, EndStep
  <2>2. CASE Goes(p, "map", base[p], NoIntent)
    <3>1. PlainTurn("map", NoIntent) /\ "map" \in Points \ {"put"}
      BY DEF PlainTurn, Points
    <3>2. shape # "batches"
      BY <1>1, <1>b DEF Retry, PlannedTurn
    <3> QED BY <1>t, <1>w, <2>2, <3>1, <3>2, NoIntentFields, TurnStep
  <2> QED BY <1>1, <2>1, <2>2 DEF Retry
<1>2. CASE MapPlanned(p)
  <2> DEFINE i == Terminal("SOURCE_CONTEXT_LIMIT", None)
  <2>1. i \in Intent /\ i.op = "terminal" /\ i.status = "SOURCE_CONTEXT_LIMIT" /\ i.then = "idle" /\ i.prompt = None
    BY <1>s, TerminalFields
  <2>2. Goes(p, "save", L, i) /\ "save" \in Points \ {"put"}
    BY <1>2 DEF MapPlanned, Saves, Points
  <2>3. shape = "batches" /\ L > 0
    BY <1>2, <1>t, <1>f DEF MapPlanned, Unborn
  <2> HIDE DEF i
  <2>4. PlannedTurn(p, "save", L, i)
    BY <1>t, <1>o, <2>1, <2>3 DEF PlannedTurn, Plans
  <2> QED BY <1>t, <1>w, <2>1, <2>2, <2>3, <2>4, TurnStep
<1>3. CASE MapNothing(p) \/ MapTooLarge(p)
  <2>1. PICK status \in {"SPECIALIST_REVIEW_REQUIRED", "SOURCE_CONTEXT_LIMIT"} :
           Saves(p, L, Terminal(status, None)) /\ shape # "batches"
    BY <1>3 DEF MapNothing, MapTooLarge
  <2>2. Terminal(status, None) \in Intent /\ Terminal(status, None).op = "terminal"
        /\ Terminal(status, None).then = "idle" /\ Terminal(status, None).status \in Final
    BY <1>s, TerminalFields
  <2> QED BY <1>w, <2>1, <2>2, PlainSave
<1>4. CASE Map(p)
  <2>1. CASE shape = "one"
    <3>1. Goes(p, "prompt", L, NoIntent) /\ "prompt" \in Points \ {"put"}
      BY <1>4, <2>1 DEF Map, Points
    <3>2. PlainTurn("prompt", NoIntent)
      BY <2>1 DEF PlainTurn
    <3> QED BY <1>t, <1>w, <2>1, <3>1, <3>2, NoIntentFields, TurnStep
  <2>2. CASE shape = "batches"
    <3>1. Goes(p, "plan", L, NoIntent) /\ "plan" \in Points \ {"put"}
      BY <1>4, <2>2 DEF Map, Points
    <3>2. PlannedTurn(p, "plan", L, NoIntent)
      BY <1>o DEF PlannedTurn
    <3> QED BY <1>t, <1>w, <2>2, <3>1, <3>2, NoIntentFields, TurnStep
  <2> QED BY <1>4, <2>1, <2>2 DEF Map
<1>5. CASE TakePrompt(p)
  <2> DEFINE i == [NoIntent EXCEPT !.prompt = prompt]
  <2>1. i \in Intent
    BY <1>t DEF TypeOK, NoIntent, Intent, Ops, Points
  <2>2. Goes(p, "answer", base[p], i) /\ "answer" \in Points \ {"put"}
    BY <1>5 DEF TakePrompt, Points
  <2> HIDE DEF i
  <2>3. shape = "one"
    BY <1>5, <1>b, <1>p DEF TakePrompt, PlannedTurn, PlainTurn
  <2>4. PlainTurn("answer", i)
    BY <2>3 DEF PlainTurn
  <2> QED BY <1>t, <1>w, <2>1, <2>2, <2>3, <2>4, TurnStep
<1>6. CASE PromptUnavailable(p) \/ ProviderFails(p) \/ Invalid(p) \/ Answered(p) \/ AsksCurrency(p) \/ Replay(p)
  <2>1. shape = "one"
    <3>1. shape # "batches"
      BY <1>6, <1>b DEF PromptUnavailable, ProviderFails, Invalid, Answered, AsksCurrency,
         Replay, WaitsForOne, PlannedTurn, WasSent, HasClaim, IsClaim
    <3> QED BY <1>6, <3>1, <1>p DEF PromptUnavailable, ProviderFails, Invalid, Answered,
         AsksCurrency, Replay, WaitsForOne, PlainTurn
  <2>2. \E status \in Statuses, snapshot \in Prompts \cup {None} :
           \/ status \in Failures /\ Saves(p, base[p], Terminal(status, snapshot))
           \/ Saves(p, base[p], Outcome(status, snapshot))
    BY <1>6, <1>s, <1>i DEF PromptUnavailable, ProviderFails, Invalid, Answered,
         AsksCurrency, Replay, Failures
  <2>3. PICK status \in Statuses, snapshot \in Prompts \cup {None} :
           \/ status \in Failures /\ Saves(p, base[p], Terminal(status, snapshot))
           \/ Saves(p, base[p], Outcome(status, snapshot))
    BY <2>2
  <2>4. /\ Terminal(status, snapshot) \in Intent /\ Outcome(status, snapshot) \in Intent
        /\ Terminal(status, snapshot).op = "terminal" /\ Terminal(status, snapshot).then = "idle"
        /\ Terminal(status, snapshot).status = status
        /\ Outcome(status, snapshot).op = "outcome"
        /\ Outcome(status, snapshot).then \in {"idle", "retire"}
    BY TerminalFields, OutcomeFields
  <2> QED BY <1>w, <2>1, <2>3, <2>4, PlainSave
<1> QED BY <1>1, <1>2, <1>3, <1>4, <1>5, <1>6

-----------------------------------------------------------------------------
(* Batches. *)

\* A turn of a planned case goes on to save something.
LEMMA PlannedSave ==
  ASSUME MappingInv, NEW p \in Procs, shape = "batches", pc[p] # "idle",
         NEW i \in Intent, Plans(p, base[p], i), Saves(p, base[p], i),
         UNCHANGED <<shape, history, sent>>,
         prompt' \in Prompts \cup {None}, setbacks' \in Nat
  PROVE  MappingInv'
<1>1. base[p] \in 0 .. Len(history) /\ "save" \in Points \ {"put"}
  BY DEF MappingInv, TypeOK, Points
<1>2. PlannedTurn(p, pc[p], base[p], intent[p])
  BY DEF MappingInv
<1>3. PlannedTurn(p, "save", base[p], i)
  BY <1>2 DEF PlannedTurn
<1> QED BY <1>1, <1>3, TurnStep DEF Saves

\* The same for a step that saves a state of the plan in hand.
LEMMA BatchSave ==
  ASSUME MappingInv, NEW p \in Procs, shape = "batches", pc[p] # "idle",
         NEW status \in Statuses, NEW b \in BatchStates,
         NEW then \in {"idle", "call", "resume"},
         LET i == BatchState(status, At(base[p]).prompt, b, then)
         IN  SavesBatch(p, base[p], i) /\ Saves(p, base[p], i),
         UNCHANGED <<shape, history, sent>>,
         prompt' \in Prompts \cup {None}, setbacks' \in Nat
  PROVE  MappingInv'
<1> DEFINE i == BatchState(status, At(base[p]).prompt, b, then)
<1>1. At(base[p]).prompt \in Prompts \cup {None}
  BY RevisionsTyped DEF MappingInv, TypeOK, Revision
<1>2. i \in Intent /\ i.op = "batch"
  BY <1>1, BatchStateFields
<1>3. Plans(p, base[p], i)
  BY <1>2 DEF Plans
<1> HIDE DEF i
<1> QED BY <1>2, <1>3, PlannedSave DEF i

\* The steps of _run_batch_plan up to a save, but for the sending, keep it.
LEMMA BatchStepsKeep ==
  ASSUME MappingInv, NEW p \in Procs, BatchStep(p), ~Send(p)
  PROVE  MappingInv'
<1> DEFINE r == At(base[p])
<1>t. TypeOK /\ base[p] \in 0 .. Len(history) /\ r \in Revision
  BY RevisionsTyped DEF MappingInv, TypeOK
<1>w. /\ UNCHANGED <<shape, history, sent>>
      /\ prompt' \in Prompts \cup {None} /\ setbacks' \in Nat
  <2>1. CASE ResumeUnsafe(p)
    BY <1>t, <2>1 DEF ResumeUnsafe, TypeOK, Setback
  <2>2. CASE ~ResumeUnsafe(p)
    BY <1>t, <2>2, WorldKept DEF BatchStep, Plan, ResumeWaits, Resume, ResumeLater,
       BatchStopped, BatchAsksCurrency, BatchDone, ReplayBatch, ReplayInvalid
  <2> QED BY <2>1, <2>2
<1>p. shape # "batches" => PlainTurn(pc[p], intent[p]) /\ r.batch = None
  BY <1>t, RevisionFacts DEF MappingInv
<1>b. shape = "batches" => PlannedTurn(p, pc[p], base[p], intent[p])
  BY DEF MappingInv
<1>s. {"MAPPING_REQUIRED", "UNSUPPORTED", "SPECIALIST_REVIEW_REQUIRED", "COMPLETE",
       "PROVIDER_UNAVAILABLE", "MAPPING_OUTPUT_INVALID", "CURRENCY_ASSERTION_REQUIRED"}
         \subseteq Statuses
  BY DEF Statuses, Final
<1>r. r.prompt \in Prompts \cup {None} /\ r.batch \in BatchStates \cup {None}
  BY <1>t DEF Revision
<1>q. shape = "batches"
  BY <1>p DEF BatchStep, Plan, ResumeUnsafe, ResumeWaits, Resume, ResumeLater, WaitsForBatch,
     BatchStopped, BatchAsksCurrency, BatchDone, ReplayBatch, ReplayInvalid, PlainTurn
<1>n. pc[p] \in {"plan", "resume", "replay", "answer"}
  BY DEF BatchStep, Plan, ResumeUnsafe, ResumeWaits, Resume, ResumeLater, WaitsForBatch,
     BatchStopped, BatchAsksCurrency, BatchDone, ReplayBatch, ReplayInvalid
<1>v. pc[p] \in {"resume", "replay", "answer"} =>
         r.batch \in BatchStates /\ r.batch # None /\ base[p] > 0
         /\ (~IsIdle(r.batch) => r.batch.done < NBatches)
         /\ (r.batch.token # None => ~r.batch.pending)
  <2>1. pc[p] \in {"resume", "replay", "answer"} => r.batch # None
    BY <1>b, <1>q DEF PlannedTurn, WasSent, HasClaim, IsClaim
  <2>2. r.batch # None => base[p] > 0
    BY <1>t, RevisionFacts DEF Unborn
  <2>3. base[p] > 0 => RevisionInv(r)
    BY <1>t, <1>q, RevisionFacts
  <2> QED BY <1>r, <2>1, <2>2, <2>3 DEF RevisionInv
<1> HIDE DEF r
<1>1. CASE Plan(p)
  <2>1. CASE Ends(p)
    BY <1>w, <2>1, EndStep
  <2>2. CASE prompt # None /\ Saves(p, base[p], BatchState("MAPPING_REQUIRED", prompt, FreshPlan, "claim"))
    <3> DEFINE i == BatchState("MAPPING_REQUIRED", prompt, FreshPlan, "claim")
    <3>1. i \in Intent /\ i.op = "batch" /\ i.status = "MAPPING_REQUIRED" /\ i.prompt = prompt
          /\ i.batch = FreshPlan /\ i.then = "claim"
      BY <1>t, <1>s, BatchStateFields, BatchStatesClosed DEF TypeOK
    <3> HIDE DEF i
    <3>2. Plans(p, base[p], i)
      BY <2>2, <3>1 DEF Plans
    <3> QED BY <1>n, <1>q, <1>w, <2>2, <3>1, <3>2, PlannedSave DEF i
  <2> QED BY <1>1, <2>1, <2>2 DEF Plan
<1>2. CASE ResumeWaits(p)
  BY <1>2, <1>w, EndStep DEF ResumeWaits
<1>3. CASE Resume(p)
  <2>0. pc[p] = "resume" /\ IsIdle(r.batch)
    BY <1>3 DEF Resume, r
  <2>1. CASE r.batch.done = NBatches
    <3> DEFINE i == Outcome("COMPLETE", r.prompt)
    <3>1. Saves(p, base[p], i)
      BY <1>3, <2>1 DEF Resume, ClaimNext, PutsTogether, r
    <3>2. i \in Intent /\ i.op = "outcome" /\ i.status = "COMPLETE" /\ i.prompt = r.prompt /\ i.then = "idle"
      BY <1>r, <1>s, OutcomeFields
    <3> HIDE DEF i
    <3>3. Plans(p, base[p], i)
      BY <1>v, <2>0, <2>1, <3>2 DEF Plans, r
    <3> QED BY <1>n, <1>q, <1>w, <3>1, <3>2, <3>3, PlannedSave
  <2>2. CASE r.batch.done # NBatches
    <3> DEFINE i == BatchState("MAPPING_REQUIRED", r.prompt, Claimed(r.batch, p), "call")
    <3>1. Saves(p, base[p], i)
      BY <1>3, <2>2 DEF Resume, ClaimNext, Claims, r
    <3>b. r.batch \in BatchStates
      BY <1>v, <2>0
    <3>n. r.batch.done < NBatches
      <4>1. r.batch.done \in 0 .. NBatches
        BY <3>b DEF BatchStates
      <4> QED BY <2>2, <4>1
    <3>2. Claimed(r.batch, p) \in BatchStates /\ r.batch.done < NBatches
      BY <3>b, <3>n, BatchStatesClosed
    <3>3. /\ i.status = "MAPPING_REQUIRED" /\ i.prompt = r.prompt
          /\ i.batch = Claimed(r.batch, p) /\ i.then = "call"
      BY <1>r, <1>s, <3>2, BatchStateFields
    <3>4. SavesBatch(p, base[p], i)
      <4> HIDE DEF i
      <4> QED BY <1>v, <2>0, <3>2, <3>3 DEF SavesBatch, r
    <3> QED BY <1>q, <1>w, <1>s, <2>0, <3>1, <3>2, <3>4, BatchSave DEF r
  <2> QED BY <2>1, <2>2
<1>4. ASSUME NEW status \in {"MAPPING_OUTPUT_INVALID", "SPECIALIST_REVIEW_REQUIRED",
                             "UNSUPPORTED", "PROVIDER_UNAVAILABLE"},
             Saves(p, base[p], BatchState(status, r.prompt, r.batch, "idle")),
             pc[p] \in {"resume", "replay", "answer"},
             status = "PROVIDER_UNAVAILABLE" => IsIdle(r.batch)
      PROVE  MappingInv'
  <2> DEFINE i == BatchState(status, r.prompt, r.batch, "idle")
  <2>1. i.status = status /\ i.prompt = r.prompt /\ i.batch = r.batch /\ i.then = "idle"
    BY <1>r, <1>s, <1>v, <1>4, BatchStateFields
  <2>2. SavesBatch(p, base[p], i)
    <3> HIDE DEF i
    <3> QED BY <1>v, <1>4, <2>1 DEF SavesBatch, r
  <2> QED BY <1>q, <1>w, <1>s, <1>v, <1>4, <2>2, BatchSave DEF r
<1>5. CASE ResumeUnsafe(p) \/ ResumeLater(p) \/ BatchStopped(p) \/ ReplayInvalid(p)
  BY <1>4, <1>5 DEF ResumeUnsafe, ResumeLater, BatchStopped, ReplayInvalid, WaitsForBatch, r
<1>6. CASE BatchAsksCurrency(p)
  <2> DEFINE i == BatchState("CURRENCY_ASSERTION_REQUIRED", r.prompt, Awaiting(r.batch), "idle")
  <2>0. pc[p] = "answer" /\ Saves(p, base[p], i)
    BY <1>6 DEF BatchAsksCurrency, WaitsForBatch, r
  <2>1. Awaiting(r.batch) \in BatchStates
    BY <1>v, <2>0, BatchStatesClosed
  <2>2. /\ i.status = "CURRENCY_ASSERTION_REQUIRED" /\ i.prompt = r.prompt
        /\ i.batch = Awaiting(r.batch) /\ i.then = "idle"
    BY <1>r, <1>s, <2>1, BatchStateFields
  <2>3. WasSent(p, base[p])
    BY <1>b, <1>q, <2>0 DEF PlannedTurn
  <2>4. SavesBatch(p, base[p], i)
    <3> HIDE DEF i
    <3> QED BY <1>v, <2>0, <2>2, <2>3 DEF SavesBatch, r
  <2> QED BY <1>q, <1>w, <1>s, <2>0, <2>1, <2>4, BatchSave DEF r
<1>7. CASE BatchDone(p) \/ ReplayBatch(p)
  <2> DEFINE i == BatchState("MAPPING_REQUIRED", r.prompt, Completed(r.batch), "resume")
  <2>0. pc[p] \in {"answer", "replay"} /\ Saves(p, base[p], i)
    BY <1>7 DEF BatchDone, ReplayBatch, WaitsForBatch, r
  <2>1. WasSent(p, base[p]) \/ r.batch.pending
    BY <1>b, <1>q, <2>0 DEF PlannedTurn, r
  <2>2. r.batch.done < NBatches
    BY <1>v, <2>0, <2>1 DEF WasSent, HasClaim, IsClaim, IsIdle, r
  <2>3. Completed(r.batch) \in BatchStates
    BY <1>v, <2>0, <2>2, BatchStatesClosed
  <2>4. /\ i.status = "MAPPING_REQUIRED" /\ i.prompt = r.prompt
        /\ i.batch = Completed(r.batch) /\ i.then = "resume"
    BY <1>r, <1>s, <2>3, BatchStateFields
  <2>5. SavesBatch(p, base[p], i)
    <3> HIDE DEF i
    <3> QED BY <1>v, <2>0, <2>1, <2>4 DEF SavesBatch, r
  <2> QED BY <1>q, <1>w, <1>s, <2>0, <2>3, <2>5, BatchSave DEF r
<1> QED BY <1>1, <1>2, <1>3, <1>5, <1>6, <1>7 DEF BatchStep

-----------------------------------------------------------------------------
(* The first state, the world around, and saves that are not put. *)

\* It holds of a case without revisions.
LEMMA InitKeeps ==
  ASSUME Init
  PROVE  MappingInv
<1>1. NoIntent \in Intent /\ "idle" \in Points
  BY NoIntentFields DEF Points
<1>2. TypeOK
  BY <1>1 DEF Init, TypeOK
<1>3. PlanInv /\ PlainInv
  BY DEF Init, PlanInv, PlainInv, Current, At
<1>4. \A p \in Procs : /\ PlannedTurn(p, pc[p], base[p], intent[p])
                       /\ PlainTurn(pc[p], intent[p])
                       /\ pc[p] # "put"
  BY DEF Init, PlannedTurn, PlainTurn
<1> QED BY <1>2, <1>3, <1>4 DEF MappingInv

\* Deaths and changes of the instruction keep it.
LEMMA WorldStepKeeps ==
  ASSUME MappingInv,
         UNCHANGED <<shape, history, sent, pc, base, prior, intent>>,
         prompt' \in Prompts \cup {None}, setbacks' \in Nat
  PROVE  MappingInv'
<1>1. UNCHANGED <<shape, history, sent, pc, base, prior, intent>>
  OBVIOUS
<1>2. TypeOK'
  BY <1>1 DEF MappingInv, TypeOK
<1>3. PlanInv => PlanInv'
  BY <1>1 DEF PlanInv, RevisionInv, Rank, IsClaim, Current, At, IsIdle
<1>4. PlainInv => PlainInv'
  BY <1>1 DEF PlainInv
<1>5. ASSUME NEW q \in Procs
      PROVE  /\ PlannedTurn(q, pc[q], base[q], intent[q]) => PlannedTurn(q, pc[q], base[q], intent[q])'
             /\ PlainTurn(pc[q], intent[q]) => PlainTurn(pc[q], intent[q])'
             /\ (pc[q] = "put" => base[q] <= prior[q] /\ Accepts(intent[q], At(prior[q])))
                  => (pc[q] = "put" => base[q] <= prior[q] /\ Accepts(intent[q], At(prior[q])))'
  <2>1. PlannedTurn(q, pc[q], base[q], intent[q]) => PlannedTurn(q, pc[q], base[q], intent[q])'
    BY <1>1 DEF PlannedTurn, Plans, SavesBatch, WasSent, HasClaim, At
  <2>2. PlainTurn(pc[q], intent[q]) => PlainTurn(pc[q], intent[q])'
    BY <1>1 DEF PlainTurn
  <2>3. At(prior[q])' = At(prior[q])
    BY <1>1 DEF At
  <2> QED BY <1>1, <2>1, <2>2, <2>3
<1> QED BY <1>1, <1>2, <1>3, <1>4, <1>5 DEF MappingInv

\* Reading the case before a save, or being refused, keeps it.
LEMMA SaveReadsKeeps ==
  ASSUME MappingInv, NEW p \in Procs, SaveReads(p)
  PROVE  MappingInv'
<1>1. /\ UNCHANGED <<shape, prompt, history, sent, setbacks, base, intent>>
      /\ pc[p] = "save" /\ Accepts(intent[p], Current)
      /\ pc' = [pc EXCEPT ![p] = "put"] /\ prior' = [prior EXCEPT ![p] = Len(history)]
  BY DEF SaveReads, world
<1>t. TypeOK /\ Len(history) \in Nat
  BY RevisionsTyped DEF MappingInv
<1>2. TypeOK'
  BY <1>1, <1>t DEF TypeOK, Points
<1>3. PlanInv => PlanInv'
  BY <1>1 DEF PlanInv, RevisionInv, Rank, IsClaim, Current, At, IsIdle
<1>4. PlainInv => PlainInv'
  BY <1>1 DEF PlainInv
<1>5. ASSUME NEW q \in Procs
      PROVE  /\ PlannedTurn(q, pc[q], base[q], intent[q]) => PlannedTurn(q, pc[q], base[q], intent[q])'
             /\ PlainTurn(pc[q], intent[q]) => PlainTurn(pc[q], intent[q])'
             /\ (pc[q] = "put" => base[q] <= prior[q] /\ Accepts(intent[q], At(prior[q])))'
  <2>0. pc'[q] = IF q = p THEN "put" ELSE pc[q]
    BY <1>1, <1>t DEF TypeOK
  <2>1. PlannedTurn(q, pc[q], base[q], intent[q]) => PlannedTurn(q, pc[q], base[q], intent[q])'
    <3>1. /\ pc'[q] \in {"save", "put"} <=> pc[q] \in {"save", "put"}
          /\ \A point \in Points \ {"save", "put"} : pc'[q] = point <=> pc[q] = point
      BY <1>1, <1>t, <2>0 DEF TypeOK
    <3>2. Plans(q, base[q], intent[q]) => Plans(q, base[q], intent[q])'
      BY <1>1 DEF Plans, SavesBatch, WasSent, HasClaim, At
    <3> QED BY <1>1, <3>1, <3>2 DEF PlannedTurn, WasSent, HasClaim, At, Points
  <2>2. PlainTurn(pc[q], intent[q]) => PlainTurn(pc[q], intent[q])'
    BY <1>1, <2>0 DEF PlainTurn
  <2>3. (pc[q] = "put" => base[q] <= prior[q] /\ Accepts(intent[q], At(prior[q])))'
    <3>1. CASE q = p
      <4>1. prior'[q] = Len(history) /\ At(prior[q])' = Current
        BY <1>1, <1>t, <3>1 DEF TypeOK, At, Current
      <4> QED BY <1>1, <1>t, <3>1, <4>1 DEF TypeOK
    <3>2. CASE q # p
      <4>1. prior'[q] = prior[q] /\ At(prior[q])' = At(prior[q]) /\ pc'[q] = pc[q]
        BY <1>1, <1>t, <3>2 DEF TypeOK, At
      <4> QED BY <1>1, <4>1 DEF MappingInv
    <3> QED BY <3>1, <3>2
  <2> QED BY <2>1, <2>2, <2>3
<1> QED BY <1>1, <1>2, <1>3, <1>4, <1>5 DEF MappingInv


-----------------------------------------------------------------------------
(* The batch that was claimed is sent. *)

\* Sending a claimed batch keeps it: it was not sent before.
LEMMA SendKeeps ==
  ASSUME MappingInv, NEW p \in Procs, Send(p)
  PROVE  MappingInv'
<1>n. PICK n : n = base[p]
  OBVIOUS
<1>c. PICK c : c = At(n).batch.done + 1
  OBVIOUS
<1>t. /\ TypeOK /\ n \in 0 .. Len(history) /\ Len(history) \in Nat
      /\ \A m \in 0 .. Len(history) : At(m) \in Revision
  BY <1>n, RevisionsTyped DEF MappingInv, TypeOK
<1>1. /\ UNCHANGED <<shape, prompt, history, setbacks>>
      /\ pc[p] = "call" /\ Goes(p, "answer", n, NoIntent)
      /\ sent' = [sent EXCEPT ![c] = @ + 1]
  BY <1>n, <1>c DEF Send
<1>2. shape = "batches"
  BY <1>1 DEF MappingInv, PlainTurn
<1>3. PlanInv /\ PlannedTurn(p, "call", n, intent[p])
  BY <1>n, <1>1, <1>2 DEF MappingInv
<1>4. HasClaim(p, n) /\ sent[c] = 0
  BY <1>c, <1>3 DEF PlannedTurn
<1>5. n > 0 /\ At(n) = history[n] /\ IsClaim(At(n)) /\ RevisionInv(At(n))
  BY <1>t, <1>3, <1>4 DEF HasClaim, PlanInv, At
<1>6. /\ At(n).batch \in BatchStates /\ ~At(n).batch.pending
      /\ c \in 1 .. NBatches /\ Rank(At(n)) = 3 * c - 2
  <2>1. At(n).batch \in BatchStates /\ At(n).batch.token # None /\ At(n).batch # None
    BY <1>t, <1>5 DEF IsClaim, Revision
  <2>2. ~At(n).batch.pending /\ At(n).batch.done < NBatches /\ At(n).batch.done \in Nat
    BY <1>5, <2>1 DEF RevisionInv, IsIdle, BatchStates
  <2> QED BY <1>c, <2>1, <2>2 DEF Rank
<1>s. /\ sent'[c] = 1
      /\ \A b \in 1 .. NBatches : b # c => sent'[b] = sent[b]
      /\ sent' \in [1 .. NBatches -> Nat]
  BY <1>t, <1>1, <1>4, <1>6 DEF TypeOK
<1>7. TypeOK'
  BY <1>n, <1>t, <1>1, <1>s, NoIntentFields DEF TypeOK, Goes, Points
<1>8. /\ pc'[p] = "answer" /\ base'[p] = n /\ intent'[p] = NoIntent
      /\ \A q \in Procs : q # p =>
            pc'[q] = pc[q] /\ base'[q] = base[q] /\ intent'[q] = intent[q] /\ prior'[q] = prior[q]
  BY <1>t, <1>1 DEF TypeOK, Goes
<1>9. PlanInv'
  <2>1. Rank(At(n)) <= Rank(Current) /\ Len(history) > 0
    BY <1>t, <1>3, <1>5 DEF PlanInv, Current, At
  <2>2. /\ \A m \in 1 .. Len(history) : RevisionInv(history[m])
        /\ \A l, m \in 1 .. Len(history) :
              /\ l <= m => Rank(history[l]) <= Rank(history[m])
              /\ history[l].prompt = history[m].prompt
              /\ (/\ IsClaim(history[l]) /\ IsClaim(history[m])
                  /\ history[l].batch.done = history[m].batch.done) => l = m
    BY <1>3 DEF PlanInv
  <2>3. ASSUME NEW b \in 1 .. NBatches
        PROVE  /\ sent'[b] \in {0, 1}
               /\ \A m \in 1 .. Len(history) :
                     (history[m].batch # None /\ Rank(history[m]) >= 3 * b - 1) => sent'[b] = 1
               /\ sent'[b] = 1 => Len(history) > 0 /\ Rank(Current) >= 3 * b - 2
    <3>1. CASE b = c
      BY <1>s, <1>6, <2>1, <3>1 DEF Rank, Current
    <3>2. CASE b # c
      BY <1>s, <1>3, <3>2 DEF PlanInv
    <3> QED BY <3>1, <3>2
  <2>4. history' = history /\ Current' = Current
    BY <1>1 DEF Current, At
  <2> QED BY <2>2, <2>3, <2>4 DEF PlanInv
<1>10. \A m \in Nat, q \in Procs : HasClaim(q, m)' <=> HasClaim(q, m)
  BY <1>1 DEF HasClaim, At
<1>11. ASSUME NEW q \in Procs, NEW m \in 0 .. Len(history), WasSent(q, m)
       PROVE  WasSent(q, m)'
  <2>1. At(m).batch.done + 1 \in 1 .. NBatches
    <3>1. At(m).batch \in BatchStates /\ m > 0 /\ RevisionInv(At(m)) /\ At(m).batch.token # None /\ At(m).batch # None
      BY <1>t, <1>11, <1>2, RevisionFacts DEF WasSent, HasClaim, IsClaim, Revision
    <3> QED BY <3>1 DEF RevisionInv, IsIdle, BatchStates
  <2>2. sent'[At(m).batch.done + 1] = 1 /\ At(m)' = At(m)
    BY <1>1, <1>s, <1>11, <2>1 DEF WasSent, At
  <2> QED BY <1>10, <1>11, <2>2 DEF WasSent
<1>12. ASSUME NEW q \in Procs
       PROVE  PlannedTurn(q, pc[q], base[q], intent[q])'
  <2>1. CASE q = p
    <3>1. WasSent(p, n)'
      BY <1>c, <1>1, <1>4, <1>10, <1>t, <1>s DEF WasSent, At
    <3>2. /\ \A m \in 1 .. Len(history) : HasClaim(p, m) => m <= n
          /\ \A m \in n + 1 .. Len(history) : ~IsOpen(history[m])
      BY <1>3, <1>4 DEF PlannedTurn
    <3> QED BY <1>t, <1>1, <1>8, <1>10, <2>1, <3>1, <3>2 DEF PlannedTurn
  <2>2. CASE q # p
    <3>k. PICK k : k = base[q]
      OBVIOUS
    <3>0. /\ PlannedTurn(q, pc[q], k, intent[q]) /\ k \in 0 .. Len(history)
          /\ history' = history /\ At(k)' = At(k)
      BY <1>t, <1>1, <1>2, <3>k DEF MappingInv, TypeOK, At
    <3>1. pc[q] = "call" => HasClaim(q, k)' /\ sent'[At(k).batch.done + 1] = 0
      <4> SUFFICES ASSUME pc[q] = "call" PROVE HasClaim(q, k)' /\ sent'[At(k).batch.done + 1] = 0
        OBVIOUS
      <4>1. HasClaim(q, k) /\ sent[At(k).batch.done + 1] = 0
        BY <3>0 DEF PlannedTurn
      <4>2. k > 0 /\ At(k) = history[k] /\ IsClaim(At(k)) /\ RevisionInv(At(k)) /\ At(k).batch \in BatchStates
        BY <1>t, <1>3, <3>0, <4>1 DEF HasClaim, PlanInv, At, IsClaim, Revision
      <4>3. k # n
        BY <1>4, <2>2, <4>1 DEF HasClaim
      <4>4. At(k).batch.done # At(n).batch.done
        BY <1>t, <1>3, <1>5, <3>0, <4>2, <4>3 DEF PlanInv
      <4>5. At(k).batch.done + 1 \in 1 .. NBatches /\ At(k).batch.done + 1 # c
        <5>1. At(k).batch.done < NBatches
          BY <4>2 DEF RevisionInv, IsIdle, IsClaim
        <5>2. At(k).batch.done \in Nat /\ At(n).batch.done \in Nat
          BY <1>6, <4>2 DEF BatchStates
        <5> QED BY <1>c, <4>4, <5>1, <5>2
      <4>6. HasClaim(q, k)'
        <5>1. k \in Nat
          BY <1>t, <3>0
        <5> QED BY <1>10, <4>1, <5>1
      <4>7. sent'[At(k).batch.done + 1] = 0
        BY <1>s, <4>1, <4>5
      <4> QED BY <4>6, <4>7
    <3>2. WasSent(q, k) => WasSent(q, k)'
      BY <1>11, <3>0
    <3>3. Plans(q, k, intent[q]) => Plans(q, k, intent[q])'
      BY <1>8, <2>2, <3>0, <3>2 DEF Plans, SavesBatch
    <3>4. pc[q] # "idle" =>
            /\ (\A m \in 1 .. Len(history) : HasClaim(q, m) => m <= k)'
            /\ HasClaim(q, k)' => (\A m \in k + 1 .. Len(history) : ~IsOpen(history[m]))'
      <4>1. \A m \in 1 .. Len(history) : HasClaim(q, m)' <=> HasClaim(q, m)
        BY <1>t, <1>10
      <4>2. HasClaim(q, k)' <=> HasClaim(q, k)
        BY <1>t, <1>10, <3>0
      <4> QED BY <3>0, <4>1, <4>2 DEF PlannedTurn
    <3>5. base'[q] = k /\ pc'[q] = pc[q] /\ intent'[q] = intent[q]
      BY <1>8, <2>2, <3>k
    <3> QED BY <3>0, <3>1, <3>2, <3>3, <3>4, <3>5 DEF PlannedTurn
  <2> QED BY <2>1, <2>2
<1>13. ASSUME NEW q \in Procs
       PROVE  (pc[q] = "put" => base[q] <= prior[q] /\ Accepts(intent[q], At(prior[q])))'
  <2>1. CASE q = p
    BY <1>8, <2>1
  <2>2. CASE q # p
    <3>1. At(prior[q])' = At(prior[q])
      BY <1>1, <1>8, <2>2 DEF At
    <3> QED BY <1>8, <2>2, <3>1 DEF MappingInv
  <2> QED BY <2>1, <2>2
<1> QED BY <1>1, <1>2, <1>7, <1>9, <1>12, <1>13 DEF MappingInv

-----------------------------------------------------------------------------
(* What the revision that is put says of the plan. *)

\* A batch save that is accepted moves the plan forward.
LEMMA AttemptMovesOn ==
  ASSUME NEW r \in Revision, NEW w \in Revision, NEW i \in Intent,
         r.batch # None, w.batch = i.batch, i.batch # None,
         r.batch.token # None => ~r.batch.pending,
         AttemptIsOurs(i, r.batch)
  PROVE  Rank(r) <= Rank(w)
<1>1. r.batch \in BatchStates /\ i.batch \in BatchStates
  BY DEF Revision, Intent
<1>2. r.batch.done \in Nat /\ i.batch.done \in Nat
  BY <1>1 DEF BatchStates
<1>3. CASE IsIdle(r.batch)
  BY <1>1, <1>2, <1>3 DEF AttemptIsOurs, IsIdle, Rank
<1>4. CASE ~IsIdle(r.batch) /\ i.batch = r.batch
  BY <1>2, <1>4 DEF Rank
<1>5. CASE ~IsIdle(r.batch) /\ i.batch = Completed(r.batch)
  BY <1>2, <1>5 DEF Completed, Rank
<1>6. CASE ~IsIdle(r.batch) /\ r.batch.token # None /\ i.batch = Awaiting(r.batch)
  <2>1. i.batch.done = r.batch.done /\ i.batch.pending
    BY <1>1, <1>6 DEF Awaiting, BatchStates
  <2> QED BY <1>2, <1>6, <2>1 DEF Rank
<1> QED BY <1>3, <1>4, <1>5, <1>6 DEF AttemptIsOurs

\* A turn that is about to put a revision of a plan, in terms of the revision
\* it goes by (s), the last one (r) and the one it puts (w).
PutsPlanned(p, i, s, r, w) ==
  /\ MappingInv /\ shape = "batches"
  /\ pc[p] = "put" /\ prior[p] = Len(history)
  /\ i = intent[p] /\ s = At(base[p]) /\ r = Current /\ w = Written(p)

LEMMA PutsPlannedFacts ==
  ASSUME NEW p \in Procs, NEW i, NEW s, NEW r, NEW w, PutsPlanned(p, i, s, r, w)
  PROVE  /\ i \in Intent /\ s \in Revision /\ r \in Revision
         /\ Plans(p, base[p], i) /\ Accepts(i, r)
         /\ base[p] \in 0 .. Len(history) /\ Len(history) \in Nat
         /\ w = Payload(i, r)
         /\ IF Len(history) = 0 THEN r = Unborn ELSE RevisionInv(r)
         /\ IF base[p] = 0 THEN s = Unborn
            ELSE /\ RevisionInv(s) /\ Rank(s) <= Rank(r) /\ s.prompt = r.prompt
                 /\ \A c \in 1 .. NBatches :
                       (s.batch # None /\ Rank(s) >= 3 * c - 1) => sent[c] = 1
                 /\ HasClaim(p, Len(history)) => base[p] = Len(history)
<1>1. /\ TypeOK /\ Len(history) \in Nat
      /\ \A n \in 0 .. Len(history) : At(n) \in Revision
      /\ \A n \in 1 .. Len(history) : At(n) = history[n]
      /\ Current \in Revision
  BY RevisionsTyped DEF PutsPlanned, MappingInv
<1>2. /\ i \in Intent /\ base[p] \in 0 .. Len(history) /\ s \in Revision /\ r \in Revision
      /\ r = At(Len(history)) /\ s = At(base[p])
  BY <1>1 DEF PutsPlanned, TypeOK, Current
<1>3. PlannedTurn(p, pc[p], base[p], i) /\ PlanInv /\ Accepts(i, r) /\ w = Payload(i, r)
  <2>1. At(prior[p]) = r
    BY DEF PutsPlanned, Current
  <2> QED BY <2>1 DEF PutsPlanned, MappingInv, Written
<1>4. /\ Plans(p, base[p], i)
      /\ \A m \in 1 .. Len(history) : HasClaim(p, m) => m <= base[p]
  BY <1>3 DEF PlannedTurn, PutsPlanned
<1>5. IF Len(history) = 0 THEN r = Unborn ELSE RevisionInv(r)
  BY <1>1, <1>2, RevisionFacts DEF PutsPlanned
<1>6. ASSUME base[p] # 0
      PROVE  /\ RevisionInv(s) /\ Rank(s) <= Rank(r) /\ s.prompt = r.prompt
             /\ \A c \in 1 .. NBatches :
                   (s.batch # None /\ Rank(s) >= 3 * c - 1) => sent[c] = 1
             /\ HasClaim(p, Len(history)) => base[p] = Len(history)
  <2>1. /\ base[p] \in 1 .. Len(history) /\ Len(history) \in 1 .. Len(history)
        /\ s = history[base[p]] /\ r = history[Len(history)]
    BY <1>1, <1>2, <1>6
  <2> QED BY <1>1, <1>3, <1>4, <2>1 DEF PlanInv
<1>7. base[p] = 0 => s = Unborn
  BY <1>2 DEF At
<1> QED BY <1>1, <1>2, <1>3, <1>4, <1>5, <1>6, <1>7

\* In a batch save, what a turn that goes by s writes while r is the last.
LEMMA BatchWritten ==
  ASSUME NEW p \in Procs, NEW i, NEW s, NEW r, NEW w, PutsPlanned(p, i, s, r, w),
         i.op = "batch"
  PROVE  /\ i.batch \in BatchStates /\ i.status \in Statuses /\ i.prompt # None
         /\ w.status = i.status /\ w.prompt = i.prompt /\ w.batch = i.batch
         /\ w.decisions = r.decisions
         /\ AcceptsBatch(i, r)
         /\ i.then = "claim" => i.batch = FreshPlan /\ i.status = "MAPPING_REQUIRED"
         /\ i.then # "claim" => base[p] > 0 /\ SavesBatch(p, base[p], i) /\ s.batch # None
         /\ Len(history) > 0 => r.batch # None /\ r.prompt = i.prompt /\ AttemptIsOurs(i, r.batch)
         /\ Len(history) = 0 => i.then = "claim"
<1>f. /\ i \in Intent /\ s \in Revision /\ r \in Revision
      /\ Plans(p, base[p], i) /\ Accepts(i, r) /\ w = Payload(i, r)
      /\ base[p] \in 0 .. Len(history) /\ Len(history) \in Nat
      /\ IF Len(history) = 0 THEN r = Unborn ELSE RevisionInv(r)
      /\ IF base[p] = 0 THEN s = Unborn ELSE RevisionInv(s)
      /\ s = At(base[p])
  BY PutsPlannedFacts DEF PutsPlanned
<1>1. \/ i.then = "claim" /\ i.batch = FreshPlan /\ i.prompt # None /\ i.status = "MAPPING_REQUIRED"
      \/ SavesBatch(p, base[p], i)
  BY <1>f DEF Plans
<1>2. SavesBatch(p, base[p], i) => i.prompt = s.prompt /\ s.batch # None /\ i.then # "claim"
  BY <1>f DEF SavesBatch
<1>3. s.batch # None => base[p] > 0 /\ s.prompt # None /\ s.batch \in BatchStates
  BY <1>f DEF Unborn, RevisionInv, Revision
<1>4. i.status # None
  BY <1>1 DEF SavesBatch, Statuses, Final
<1>5. i.batch \in BatchStates
  <2>1. CASE i.batch = FreshPlan
    BY <2>1, BatchStatesClosed
  <2>2. CASE SavesBatch(p, base[p], i)
    <3>1. CASE i.batch = Completed(s.batch) /\ (WasSent(p, base[p]) \/ s.batch.pending)
      <4>1. s.batch.done < NBatches
        BY <1>f, <1>2, <1>3, <2>2, <3>1 DEF WasSent, HasClaim, IsClaim, RevisionInv, IsIdle
      <4> QED BY <1>2, <1>3, <2>2, <3>1, <4>1, BatchStatesClosed
    <3>2. CASE i.batch \in {Claimed(s.batch, p), Awaiting(s.batch), s.batch}
      BY <1>2, <1>3, <2>2, <3>2, BatchStatesClosed
    <3> QED BY <1>f, <2>2, <3>1, <3>2 DEF SavesBatch
  <2> QED BY <1>1, <2>1, <2>2
<1>6. AcceptsBatch(i, r)
  BY <1>f DEF Accepts
<1>7. Len(history) > 0 => r.batch # None
  BY <1>f, <1>6 DEF AcceptsBatch, RevisionInv, Statuses, Final
<1>8. i.status \in Statuses
  BY <1>f, <1>4 DEF Intent
<1>9. /\ w.status = i.status /\ w.prompt = i.prompt /\ w.batch = i.batch
      /\ w.decisions = r.decisions
  <2>1. i.prompt # None
    BY <1>1, <1>2, <1>3
  <2> QED BY <1>f, <2>1 DEF Payload
<1> QED BY <1>f, <1>1, <1>2, <1>3, <1>5, <1>6, <1>7, <1>8, <1>9 DEF AcceptsBatch

\* In any other save.
LEMMA OtherWritten ==
  ASSUME NEW p \in Procs, NEW i, NEW s, NEW r, NEW w, PutsPlanned(p, i, s, r, w),
         i.op # "batch"
  PROVE  /\ w.status = i.status /\ Len(history) > 0
         /\ \/ /\ i.op = "terminal" /\ i.then = "idle" /\ i.status = "SOURCE_CONTEXT_LIMIT"
               /\ w.batch = None /\ w.prompt = r.prompt /\ w.decisions = r.decisions
            \/ /\ i.op = "outcome" /\ i.then = "idle" /\ i.status = "COMPLETE"
               /\ w.batch = None /\ w.prompt = r.prompt /\ w.decisions = r.decisions
               /\ AcceptsOutcome(i, r)
               /\ i.prompt = r.prompt /\ base[p] > 0
               /\ s.batch # None /\ s.batch.done = NBatches
            \/ /\ i.op \in {"assert", "again"} /\ i.then = "replay"
               /\ i.status = "MAPPING_REQUIRED"
               /\ w.batch = r.batch /\ w.prompt = r.prompt
               /\ w.decisions \in {r.decisions, r.decisions \cup {i.decision}}
               /\ i.decision \in Assertions
               /\ r.status = "CURRENCY_ASSERTION_REQUIRED"
               /\ r.batch # None /\ r.batch.pending
<1>f. /\ i \in Intent /\ s \in Revision /\ r \in Revision
      /\ Plans(p, base[p], i) /\ Accepts(i, r) /\ w = Payload(i, r)
      /\ base[p] \in 0 .. Len(history) /\ Len(history) \in Nat
      /\ IF Len(history) = 0 THEN r = Unborn ELSE RevisionInv(r)
      /\ IF base[p] = 0 THEN s = Unborn ELSE RevisionInv(s) /\ s.prompt = r.prompt
      /\ s = At(base[p])
  BY PutsPlannedFacts DEF PutsPlanned
<1>0. w.status = i.status
  BY <1>f DEF Payload
<1>1. CASE i.op = "terminal"
  BY <1>f, <1>0, <1>1 DEF Plans, Payload
<1>2. CASE i.op = "outcome"
  <2>1. i.status = "COMPLETE" /\ i.then = "idle" /\ i.prompt = s.prompt
        /\ s.batch # None /\ s.batch.done = NBatches
    BY <1>f, <1>2 DEF Plans
  <2>2. base[p] > 0 /\ s.prompt # None /\ i.prompt = r.prompt
    BY <1>f, <2>1 DEF Unborn, RevisionInv
  <2>3. AcceptsOutcome(i, r)
    BY <1>f, <1>2 DEF Accepts
  <2> QED BY <1>f, <1>0, <1>2, <2>1, <2>2, <2>3 DEF Payload
<1>3. CASE i.op \in {"assert", "again"}
  <2>1. i.status = "MAPPING_REQUIRED" /\ i.then = "replay" /\ i.prompt = None
        /\ i.decision \in Assertions
    BY <1>f, <1>3 DEF Plans, Intent
  <2>2. r.status = "CURRENCY_ASSERTION_REQUIRED"
    BY <1>f, <1>3 DEF Accepts
  <2>3. Len(history) > 0
    BY <1>f, <2>2 DEF Unborn, Statuses
  <2>4. r.batch # None /\ r.batch.pending
    BY <1>f, <2>2, <2>3 DEF RevisionInv
  <2> QED BY <1>f, <1>0, <1>3, <2>1, <2>2, <2>3, <2>4 DEF Payload
<1> QED BY <1>f, <1>1, <1>2, <1>3 DEF Plans

\* The revision that is put says of the plan what a revision must.
LEMMA PlannedRevision ==
  ASSUME NEW p \in Procs, NEW i, NEW s, NEW r, NEW w, PutsPlanned(p, i, s, r, w)
  PROVE  /\ w \in Revision /\ RevisionInv(w)
         /\ Len(history) > 0 => Rank(r) <= Rank(w) /\ w.prompt = r.prompt
         /\ \A c \in 1 .. NBatches :
               (w.batch # None /\ Rank(w) >= 3 * c - 1) => sent[c] = 1
<1>f. /\ i \in Intent /\ s \in Revision /\ r \in Revision
      /\ w = Payload(i, r) /\ Len(history) \in Nat
      /\ IF Len(history) = 0 THEN r = Unborn ELSE RevisionInv(r)
      /\ s = At(base[p])
  BY PutsPlannedFacts DEF PutsPlanned
<1>r. \A c \in 1 .. NBatches :
          (Len(history) > 0 /\ r.batch # None /\ Rank(r) >= 3 * c - 1) => sent[c] = 1
  <2>1. Len(history) > 0 => r = history[Len(history)]
    BY <1>f DEF PutsPlanned, Current, At
  <2>2. PlanInv
    BY DEF PutsPlanned, MappingInv
  <2> QED BY <1>f, <2>1, <2>2 DEF PlanInv
<1>1. CASE i.op # "batch"
  <2>0. w.status = i.status /\ Len(history) > 0 /\ w.prompt = r.prompt
        /\ w.decisions \in SUBSET Assertions /\ RevisionInv(r)
    BY <1>f, <1>1, OtherWritten DEF Revision
  <2>1. CASE w.batch = None /\ w.status \in {"SOURCE_CONTEXT_LIMIT", "COMPLETE"}
    <3>1. w \in Revision
      BY <1>f, <2>0, <2>1 DEF Revision, Payload, Statuses, Final
    <3>2. RevisionInv(w)
      BY <2>0, <2>1 DEF RevisionInv
    <3>3. Rank(r) <= Rank(w)
      <4>1. r.batch # None => r.batch.done \in 0 .. NBatches /\ (~IsIdle(r.batch) => r.batch.done < NBatches)
        BY <1>f, <2>0 DEF RevisionInv, Revision, BatchStates
      <4> QED BY <2>1, <4>1 DEF Rank, IsIdle
    <3> QED BY <2>0, <2>1, <3>1, <3>2, <3>3
  <2>2. CASE w.batch = r.batch /\ w.status = "MAPPING_REQUIRED" /\ r.batch # None /\ r.batch.pending
    <3>1. w \in Revision
      BY <1>f, <2>0, <2>2 DEF Revision, Payload, Statuses
    <3>2. RevisionInv(w)
      BY <2>0, <2>2 DEF RevisionInv, Statuses
    <3>3. Rank(w) = Rank(r) /\ Rank(r) \in Int
      BY <1>f, <2>2 DEF Rank, Revision, BatchStates
    <3> QED BY <1>r, <2>0, <2>2, <3>1, <3>2, <3>3
  <2> QED BY <1>1, <2>1, <2>2, OtherWritten
<1>2. CASE i.op = "batch"
  <2>0. /\ i.batch \in BatchStates /\ i.status \in Statuses /\ i.prompt # None
        /\ w.status = i.status /\ w.prompt = i.prompt /\ w.batch = i.batch
        /\ w.decisions = r.decisions
        /\ i.then = "claim" => i.batch = FreshPlan /\ i.status = "MAPPING_REQUIRED"
        /\ i.then # "claim" => base[p] > 0 /\ SavesBatch(p, base[p], i) /\ s.batch # None
        /\ Len(history) > 0 => r.batch # None /\ r.prompt = i.prompt /\ AttemptIsOurs(i, r.batch)
    BY <1>2, BatchWritten
  <2>1. w \in Revision
    BY <1>f, <2>0 DEF Revision, Payload, Intent
  <2>2. Len(history) > 0 => Rank(r) <= Rank(w) /\ w.prompt = r.prompt
    BY <1>f, <2>0, <2>1, AttemptMovesOn DEF RevisionInv
  <2>3. CASE i.then = "claim"
    BY <2>0, <2>1, <2>2, <2>3 DEF RevisionInv, FreshPlan, IsIdle, Rank, Statuses
  <2>4. CASE i.then # "claim"
    <3>1. /\ RevisionInv(s) /\ s.batch \in BatchStates /\ s.batch # None
          /\ \A c \in 1 .. NBatches : Rank(s) >= 3 * c - 1 => sent[c] = 1
      BY <1>f, <2>0, <2>4, PutsPlannedFacts DEF Revision
    <3>2. s.batch.done \in Nat /\ SavesBatch(p, base[p], i) /\ w.prompt # None /\ w.batch # None
      BY <2>0, <2>4, <3>1 DEF BatchStates
    <3>3. WasSent(p, base[p]) => s.batch.token # None /\ ~s.batch.pending /\ ~IsIdle(s.batch)
                                 /\ sent[s.batch.done + 1] = 1
      BY <1>f, <3>1 DEF WasSent, HasClaim, IsClaim, RevisionInv, IsIdle
    <3>4. CASE i.status = "MAPPING_REQUIRED" /\ i.batch = Claimed(s.batch, p)
               /\ IsIdle(s.batch) /\ s.batch.done < NBatches
      <4>1. w.batch.done = s.batch.done /\ ~w.batch.pending /\ w.batch.token = p
        BY <2>0, <3>1, <3>4 DEF Claimed, BatchStates, IsIdle
      <4>2. RevisionInv(w)
        BY <2>0, <3>2, <3>4, <4>1 DEF RevisionInv, Statuses
      <4>3. \A c \in 1 .. NBatches : Rank(w) >= 3 * c - 1 => Rank(s) >= 3 * c - 1
        BY <3>1, <3>2, <3>4, <4>1 DEF Rank, IsIdle
      <4> QED BY <2>1, <2>2, <3>1, <4>2, <4>3
    <3>5. CASE i.status = "MAPPING_REQUIRED" /\ i.batch = Completed(s.batch)
               /\ (WasSent(p, base[p]) \/ s.batch.pending)
      <4>1. w.batch.done = s.batch.done + 1 /\ ~w.batch.pending /\ w.batch.token = None
        BY <2>0, <3>5 DEF Completed
      <4>2. RevisionInv(w)
        BY <2>0, <3>2, <3>5, <4>1 DEF RevisionInv, Statuses, IsIdle
      <4>3. \A c \in 1 .. NBatches : Rank(w) >= 3 * c - 1 => sent[c] = 1
        <5>1. \A c \in 1 .. NBatches : (Rank(w) >= 3 * c - 1 /\ c # s.batch.done + 1) => Rank(s) >= 3 * c - 1
          <6> DEFINE d == s.batch.done
          <6>1. Rank(w) = 3 * d + 3 /\ Rank(s) \in {3 * d, 3 * d + 1, 3 * d + 2} /\ d \in Nat
            BY <3>1, <3>2, <4>1 DEF Rank
          <6> HIDE DEF d
          <6>2. \A c \in 1 .. NBatches : (Rank(w) >= 3 * c - 1 /\ c # d + 1) => c <= d
            BY <6>1
          <6> QED BY <6>1, <6>2 DEF d
        <5>2. s.batch.pending => Rank(s) >= 3 * (s.batch.done + 1) - 1
          BY <3>1, <3>2 DEF Rank
        <5> QED BY <3>1, <3>3, <3>5, <5>1, <5>2
      <4> QED BY <2>1, <2>2, <4>2, <4>3
    <3>6. CASE i.status = "CURRENCY_ASSERTION_REQUIRED" /\ i.batch = Awaiting(s.batch)
               /\ WasSent(p, base[p])
      <4>1. w.batch.done = s.batch.done /\ w.batch.pending /\ w.batch.token = None
        BY <2>0, <3>1, <3>6 DEF Awaiting, BatchStates
      <4>2. RevisionInv(w)
        BY <2>0, <3>1, <3>2, <3>3, <3>6, <4>1 DEF RevisionInv, Statuses, IsIdle
      <4>3. \A c \in 1 .. NBatches : (Rank(w) >= 3 * c - 1 /\ c # s.batch.done + 1) => Rank(s) >= 3 * c - 1
        <5> DEFINE d == s.batch.done
        <5>1. Rank(w) = 3 * d + 2 /\ Rank(s) \in {3 * d, 3 * d + 1, 3 * d + 2} /\ d \in Nat
          BY <3>1, <3>2, <4>1 DEF Rank
        <5> HIDE DEF d
        <5>2. \A c \in 1 .. NBatches : (Rank(w) >= 3 * c - 1 /\ c # d + 1) => c <= d
          BY <5>1
        <5> QED BY <5>1, <5>2 DEF d
      <4> QED BY <2>1, <2>2, <3>1, <3>3, <3>6, <4>2, <4>3
    <3>7. CASE /\ i.status \in {"MAPPING_OUTPUT_INVALID", "SPECIALIST_REVIEW_REQUIRED",
                                "UNSUPPORTED", "PROVIDER_UNAVAILABLE"}
               /\ i.batch = s.batch
               /\ i.status = "PROVIDER_UNAVAILABLE" => IsIdle(s.batch)
      <4>1. RevisionInv(w)
        BY <2>0, <3>1, <3>2, <3>7 DEF RevisionInv, Statuses, Final
      <4>2. Rank(w) = Rank(s)
        BY <2>0, <3>7 DEF Rank
      <4> QED BY <2>1, <2>2, <3>1, <4>1, <4>2
    <3> QED BY <1>f, <3>2, <3>4, <3>5, <3>6, <3>7 DEF SavesBatch
  <2> QED BY <2>3, <2>4
<1> QED BY <1>1, <1>2

\* A claim is put by the turn that goes on to send the batch, on top of an
\* idle plan.
LEMMA PlannedClaim ==
  ASSUME NEW p \in Procs, NEW i, NEW s, NEW r, NEW w, PutsPlanned(p, i, s, r, w)
  PROVE  /\ IsClaim(w) <=> i.then = "call"
         /\ i.then = "call" =>
               /\ Len(history) > 0 /\ r.batch # None /\ IsIdle(r.batch)
               /\ w.batch.token = p /\ w.batch.done = r.batch.done /\ r.batch.done < NBatches
<1>f. /\ i \in Intent /\ s \in Revision /\ r \in Revision
      /\ Len(history) \in Nat /\ base[p] \in 0 .. Len(history)
      /\ IF Len(history) = 0 THEN r = Unborn ELSE RevisionInv(r)
      /\ base[p] > 0 => (HasClaim(p, Len(history)) => base[p] = Len(history))
      /\ s = At(base[p]) /\ r = At(Len(history))
  BY PutsPlannedFacts DEF PutsPlanned, Current
<1>1. CASE i.op # "batch"
  <2>1. i.then # "call" /\ Len(history) > 0
    BY <1>1, OtherWritten
  <2>2. w.batch = None \/ (w.batch = r.batch /\ r.batch # None /\ r.batch.pending)
    BY <1>1, OtherWritten
  <2> QED BY <1>f, <2>1, <2>2 DEF IsClaim, RevisionInv
<1>2. CASE i.op = "batch"
  <2>0. /\ i.batch \in BatchStates /\ w.status = i.status /\ w.batch = i.batch
        /\ AcceptsBatch(i, r)
        /\ i.then = "claim" => i.batch = FreshPlan
        /\ i.then # "claim" => base[p] > 0 /\ SavesBatch(p, base[p], i) /\ s.batch # None
        /\ Len(history) > 0 => r.batch # None /\ AttemptIsOurs(i, r.batch)
    BY <1>2, BatchWritten
  <2>1. CASE i.then = "claim"
    BY <2>0, <2>1 DEF IsClaim, FreshPlan
  <2>2. CASE i.then \notin {"claim", "call"}
    <3>1. w.status # "MAPPING_REQUIRED" \/ w.batch = Completed(s.batch)
      BY <1>f, <2>0, <2>2 DEF SavesBatch
    <3> QED BY <2>2, <3>1 DEF IsClaim, Completed
  <2>3. CASE i.then = "call"
    <3>1. /\ i.status = "MAPPING_REQUIRED" /\ i.batch = Claimed(s.batch, p)
          /\ IsIdle(s.batch) /\ s.batch.done < NBatches /\ base[p] > 0
          /\ s.batch \in BatchStates
      BY <1>f, <2>0, <2>3 DEF SavesBatch, Revision
    <3>2. i.batch.token = p /\ ~i.batch.pending /\ i.batch.done = s.batch.done
      BY <3>1 DEF Claimed, BatchStates, IsIdle
    <3>3. Len(history) > 0 /\ r.batch # None /\ AttemptIsOurs(i, r.batch) /\ RevisionInv(r)
          /\ r.batch \in BatchStates
      BY <1>f, <2>0, <3>1 DEF Revision
    <3>4. IsIdle(r.batch)
      <4>1. SUFFICES ASSUME ~IsIdle(r.batch) PROVE FALSE
        OBVIOUS
      <4>2. i.batch = r.batch
        <5>1. Completed(r.batch).token = None /\ Awaiting(r.batch).token = None
          BY <3>3 DEF Completed, Awaiting, BatchStates
        <5>2. p # None
          OBVIOUS
        <5> QED BY <3>2, <3>3, <4>1, <5>1, <5>2 DEF AttemptIsOurs
      <4>3. r.status = "MAPPING_REQUIRED"
        BY <2>0, <3>2, <3>3, <4>1, <4>2 DEF AcceptsBatch, RevisionInv, IsIdle
      <4>4. HasClaim(p, Len(history))
        BY <1>f, <3>2, <3>3, <4>2, <4>3 DEF HasClaim, IsClaim
      <4> QED BY <1>f, <3>1, <4>1, <4>4
    <3>5. i.batch.done = r.batch.done
      BY <3>3, <3>4 DEF AttemptIsOurs
    <3>6. w.batch # None
      BY <2>0
    <3> QED BY <2>0, <2>3, <3>1, <3>2, <3>3, <3>4, <3>5, <3>6 DEF IsClaim
  <2> QED BY <2>1, <2>2, <2>3
<1> QED BY <1>1, <1>2

\* No batch follows a revision that gave the plan up, and none that the turn
\* with the last claim does not know of.
LEMMA LateSaves ==
  ASSUME NEW p \in Procs, NEW i, NEW s, NEW r, NEW w, PutsPlanned(p, i, s, r, w)
  PROVE  /\ (Len(history) > 0 /\ ~IsOpen(r)) => ~IsOpen(w)
         /\ \A q \in Procs : (q # p /\ HasClaim(q, Len(history))) => ~IsOpen(w)
<1>f. /\ i \in Intent /\ s \in Revision /\ r \in Revision
      /\ Len(history) \in Nat /\ base[p] \in 0 .. Len(history)
      /\ IF Len(history) = 0 THEN r = Unborn ELSE RevisionInv(r)
      /\ IF base[p] = 0 THEN s = Unborn ELSE RevisionInv(s) /\ Rank(s) <= Rank(r)
      /\ s = At(base[p]) /\ r = At(Len(history))
  BY PutsPlannedFacts DEF PutsPlanned, Current
<1>1. (Len(history) > 0 /\ ~IsOpen(r)) => ~IsOpen(w)
  <2>1. CASE i.op # "batch"
    <3>1. w.batch = None \/ (r.status = "CURRENCY_ASSERTION_REQUIRED" /\ r.batch # None)
      BY <2>1, OtherWritten
    <3> QED BY <3>1 DEF IsOpen
  <2>2. CASE i.op = "batch"
    <3>1. Len(history) > 0 => r.batch # None /\ AcceptsBatch(i, r)
      BY <2>2, BatchWritten
    <3> QED BY <1>f, <3>1 DEF IsOpen, AcceptsBatch, RevisionInv
  <2> QED BY <2>1, <2>2
<1>2. ASSUME NEW q \in Procs, q # p, HasClaim(q, Len(history))
      PROVE  ~IsOpen(w)
  <2>0. /\ Len(history) > 0 /\ IsClaim(r) /\ r.batch.token = q /\ ~IsIdle(r.batch)
        /\ r.batch \in BatchStates /\ RevisionInv(r) /\ ~r.batch.pending
        /\ r.batch.done \in Nat /\ Rank(r) = 3 * r.batch.done + 1
    <3>1. /\ Len(history) > 0 /\ IsClaim(r) /\ r.batch.token = q /\ ~IsIdle(r.batch)
          /\ r.batch \in BatchStates /\ RevisionInv(r) /\ ~r.batch.pending
      BY <1>f, <1>2 DEF HasClaim, IsClaim, IsIdle, Revision, RevisionInv
    <3> QED BY <3>1 DEF BatchStates, Rank, IsClaim
  <2>1. CASE i.op # "batch"
    <3>1. w.batch = None \/ r.status = "CURRENCY_ASSERTION_REQUIRED"
      BY <2>1, OtherWritten
    <3> QED BY <2>0, <3>1 DEF IsOpen, IsClaim
  <2>2. CASE i.op = "batch"
    <3>0. /\ i.batch \in BatchStates /\ w.status = i.status /\ w.batch = i.batch
          /\ i.then = "claim" => i.batch = FreshPlan /\ i.status = "MAPPING_REQUIRED"
          /\ i.then # "claim" => base[p] > 0 /\ SavesBatch(p, base[p], i) /\ s.batch # None
          /\ AttemptIsOurs(i, r.batch)
      BY <2>0, <2>2, BatchWritten
    <3>1. \/ i.batch = r.batch
          \/ i.batch = Completed(r.batch)
          \/ i.batch = Awaiting(r.batch) /\ i.status = "CURRENCY_ASSERTION_REQUIRED"
      BY <2>0, <3>0 DEF AttemptIsOurs
    <3>2. /\ i.batch = r.batch => i.batch.token = q /\ ~i.batch.pending /\ i.batch.done = r.batch.done
          /\ i.batch = Completed(r.batch) =>
                i.batch.token = None /\ ~i.batch.pending /\ i.batch.done = r.batch.done + 1
          /\ i.batch = Awaiting(r.batch) =>
                i.batch.token = None /\ i.batch.pending /\ i.batch.done = r.batch.done
      <4>1. Completed(r.batch) = [done |-> r.batch.done + 1, token |-> None, pending |-> FALSE]
        BY DEF Completed
      <4>2. /\ Awaiting(r.batch).token = None /\ Awaiting(r.batch).pending
            /\ Awaiting(r.batch).done = r.batch.done
        BY <2>0 DEF Awaiting, BatchStates
      <4> QED BY <2>0, <4>1, <4>2
    <3>3. i.then # "call"
      BY <2>0, PlannedClaim
    <3>4. i.then # "claim"
      <4>1. FreshPlan.token = None /\ ~FreshPlan.pending /\ FreshPlan.done = 0 /\ q # None
        BY DEF FreshPlan
      <4>2. SUFFICES ASSUME i.then = "claim" PROVE FALSE
        OBVIOUS
      <4>3. i.batch.token = None /\ i.batch.done = 0 /\ i.status = "MAPPING_REQUIRED"
        BY <3>0, <4>1, <4>2
      <4>4. CASE i.batch = r.batch
        BY <3>2, <4>1, <4>3, <4>4
      <4>5. CASE i.batch = Completed(r.batch)
        BY <2>0, <3>2, <4>3, <4>5
      <4> QED BY <3>1, <4>3, <4>4, <4>5
    <3>5. /\ s.batch \in BatchStates /\ s.batch # None /\ RevisionInv(s) /\ base[p] \in 1 .. Len(history)
          /\ s.batch.done \in Nat /\ Rank(s) <= Rank(r) /\ SavesBatch(p, base[p], i)
      <4>1. s.batch \in BatchStates /\ s.batch # None
        BY <1>f, <3>0, <3>4 DEF Revision
      <4> QED BY <1>f, <3>0, <3>4, <4>1 DEF BatchStates
    <3>6. HasClaim(p, base[p]) => s.batch.done # r.batch.done
      <4>1. HasClaim(p, base[p]) => base[p] # Len(history) /\ IsClaim(s)
        BY <1>f, <1>2 DEF HasClaim
      <4>2. s = history[base[p]] /\ r = history[Len(history)] /\ PlanInv
        BY <1>f, <2>0, <3>5 DEF At, PutsPlanned, MappingInv
      <4> QED BY <2>0, <3>5, <4>1, <4>2 DEF PlanInv
    <3>7. i.batch # Completed(s.batch) \/ ~(WasSent(p, base[p]) \/ s.batch.pending)
      <4>1. SUFFICES ASSUME i.batch = Completed(s.batch), WasSent(p, base[p]) \/ s.batch.pending
                     PROVE  FALSE
        OBVIOUS
      <4>2. i.batch.token = None /\ ~i.batch.pending /\ i.batch.done = s.batch.done + 1
        BY <4>1 DEF Completed
      <4>3. s.batch.done = r.batch.done
        <5>1. q # None
          OBVIOUS
        <5>2. i.batch = Completed(r.batch)
          BY <3>1, <3>2, <4>2, <5>1
        <5>3. s.batch.done + 1 = r.batch.done + 1
          BY <3>2, <4>2, <5>2
        <5>4. s.batch.done \in Nat /\ r.batch.done \in Nat
          BY <2>0, <3>5
        <5> QED BY <5>3, <5>4
      <4>4. s.batch.pending
        BY <3>6, <4>1, <4>3 DEF WasSent
      <4> QED BY <2>0, <3>5, <4>3, <4>4 DEF Rank
    <3>8. i.batch # Awaiting(s.batch) \/ ~WasSent(p, base[p])
      <4>1. SUFFICES ASSUME i.batch = Awaiting(s.batch), WasSent(p, base[p])
                     PROVE  FALSE
        OBVIOUS
      <4>2. i.batch.token = None /\ i.batch.pending /\ i.batch.done = s.batch.done
        BY <3>5, <4>1 DEF Awaiting, BatchStates
      <4> QED BY <2>0, <3>1, <3>2, <3>6, <4>1, <4>2 DEF WasSent
    <3>9. ~(i.status = "PROVIDER_UNAVAILABLE" /\ i.batch = s.batch /\ IsIdle(s.batch))
      <4>1. SUFFICES ASSUME i.status = "PROVIDER_UNAVAILABLE", i.batch = s.batch, IsIdle(s.batch)
                     PROVE  FALSE
        OBVIOUS
      <4>2. s.batch.done = r.batch.done + 1
        BY <2>0, <3>1, <3>2, <4>1 DEF IsIdle
      <4> QED BY <2>0, <3>5, <4>2 DEF Rank
    <3> QED BY <1>f, <3>0, <3>3, <3>5, <3>7, <3>8, <3>9 DEF SavesBatch, IsOpen
  <2> QED BY <2>1, <2>2
<1> QED BY <1>1, <1>2

-----------------------------------------------------------------------------
(* A revision is put. *)

\* Reading a history that has grown by one.
LEMMA Appended ==
  ASSUME TypeOK, NEW w \in Revision, history' = Append(history, w)
  PROVE  /\ history' \in Seq(Revision) /\ Len(history)' = Len(history) + 1
         /\ Len(history) \in Nat
         /\ \A n \in 1 .. Len(history) : history'[n] = history[n]
         /\ history'[Len(history) + 1] = w
         /\ \A n \in 0 .. Len(history) : At(n)' = At(n)
         /\ \A n : n = Len(history) + 1 => At(n)' = w
         /\ Current' = w
<1>1. history \in Seq(Revision) /\ Len(history) \in Nat
  BY DEF TypeOK
<1>2. /\ history' \in Seq(Revision) /\ Len(history') = Len(history) + 1
      /\ \A n \in 1 .. Len(history) : history'[n] = history[n]
      /\ history'[Len(history) + 1] = w
  BY <1>1, AppendProperties
<1>3. /\ \A n \in 0 .. Len(history) : n = 0 \/ n \in 1 .. Len(history)
      /\ Len(history) + 1 # 0
  BY <1>1
<1>4. \A n \in 0 .. Len(history) : At(n)' = At(n)
  BY <1>2, <1>3 DEF At
<1>5. \A n : n = Len(history) + 1 => At(n)' = w
  BY <1>2, <1>3 DEF At
<1>6. Current' = w
  <2>1. Len(history)' = Len(history) + 1
    BY <1>2
  <2> QED BY <1>2, <1>3, <2>1 DEF At, Current
<1> QED BY <1>1, <1>2, <1>4, <1>5, <1>6

\* What the case says of itself after a put, whatever the turn does next.
LEMMA PutGoes ==
  ASSUME NEW p \in Procs, NEW i, NEW s, NEW r, NEW w, PutsPlanned(p, i, s, r, w),
         history' = Append(history, w),
         UNCHANGED <<shape, prompt, sent, setbacks>>,
         NEW point \in Points \ {"put"}, NEW k \in 0 .. Len(history) + 1, NEW it \in Intent,
         Goes(p, point, k, it),
         PlannedTurn(p, point, k, it)'
  PROVE  MappingInv'
<1>L. PICK L : L = Len(history)
  OBVIOUS
<1>i. MappingInv /\ TypeOK /\ PlanInv /\ shape = "batches" /\ r = At(L)
  BY <1>L DEF PutsPlanned, MappingInv, Current
<1>w. /\ w \in Revision /\ RevisionInv(w)
      /\ L > 0 => Rank(r) <= Rank(w) /\ w.prompt = r.prompt
      /\ \A c \in 1 .. NBatches : (w.batch # None /\ Rank(w) >= 3 * c - 1) => sent[c] = 1
  BY <1>L, PlannedRevision
<1>a. /\ history' \in Seq(Revision) /\ Len(history)' = L + 1 /\ L \in Nat
      /\ \A n \in 1 .. L : history'[n] = history[n]
      /\ history'[L + 1] = w
      /\ \A n \in 0 .. L : At(n)' = At(n)
      /\ At(L + 1)' = w /\ Current' = w
  BY <1>L, <1>i, <1>w, Appended
<1>g. /\ pc'[p] = point /\ base'[p] = k /\ intent'[p] = it
      /\ \A q \in Procs : q # p =>
            pc'[q] = pc[q] /\ base'[q] = base[q] /\ intent'[q] = intent[q] /\ prior'[q] = prior[q]
  BY <1>L, <1>i DEF TypeOK, Goes
<1>1. TypeOK'
  BY <1>L, <1>i, <1>a DEF TypeOK, Goes
<1>2. PlanInv'
  <2>0. \A n \in 1 .. L + 1 : n \in 1 .. L \/ n = L + 1
    BY <1>L, <1>a
  <2>1. \A n \in 1 .. L + 1 : RevisionInv(history'[n])
    BY <1>L, <1>i, <1>a, <1>w, <2>0 DEF PlanInv
  <2>2. ASSUME L > 0
        PROVE  /\ r = history[L] /\ L \in 1 .. L
               /\ Rank(r) \in Int /\ Rank(w) \in Int
               /\ \A n \in 1 .. L : Rank(history[n]) \in Int
               /\ \A n \in 1 .. L : Rank(history[n]) <= Rank(w) /\ history[n].prompt = w.prompt
    <3>1. r = history[L] /\ L \in 1 .. L
      BY <1>L, <1>i, <1>a, <2>2 DEF At
    <3>2. \A x \in Revision : Rank(x) \in Int
      BY <1>L DEF Revision, BatchStates, Rank
    <3>3. \A n \in 1 .. L : history[n] \in Revision
      BY <1>L, <1>i DEF TypeOK
    <3>4. \A n \in 1 .. L : Rank(history[n]) <= Rank(r) /\ history[n].prompt = r.prompt
      BY <1>L, <1>i, <1>a, <3>1 DEF PlanInv
    <3>5. \A n \in 1 .. L : Rank(history[n]) \in Int
      BY <1>L, <3>2, <3>3
    <3>6. Rank(r) \in Int /\ Rank(w) \in Int
      BY <1>L, <1>w, <3>1, <3>2, <3>3
    <3> QED BY <1>L, <1>w, <2>2, <3>1, <3>4, <3>5, <3>6
  <2>3. ASSUME NEW n \in 1 .. L, IsClaim(history[n]), IsClaim(w)
        PROVE  history[n].batch.done # w.batch.done
    <3>1. L > 0 /\ r.batch # None /\ IsIdle(r.batch) /\ w.batch.done = r.batch.done
      BY <1>L, <1>a, <2>3, PlannedClaim
    <3>2. Rank(history[n]) <= Rank(r) /\ history[n] \in Revision /\ r \in Revision
      <4>1. r = history[L] /\ L \in 1 .. L /\ n <= L
        BY <1>L, <2>2, <3>1
      <4>2. history[n] \in Revision /\ history[L] \in Revision
        BY <1>L, <1>i, <4>1 DEF TypeOK
      <4> QED BY <1>L, <1>i, <4>1, <4>2 DEF PlanInv
    <3>3. r.batch.done \in Nat /\ Rank(r) = 3 * r.batch.done
      BY <1>L, <3>1, <3>2 DEF Revision, BatchStates, Rank, IsIdle
    <3>4. history[n].batch.done \in Nat /\ Rank(history[n]) >= 3 * history[n].batch.done + 1
      BY <1>L, <2>3, <3>2 DEF Revision, BatchStates, Rank, IsClaim
    <3>5. Rank(history[n]) \in Int
      BY <1>L, <2>2, <3>1
    <3> QED BY <1>L, <3>1, <3>2, <3>3, <3>4, <3>5
  <2>4. ASSUME NEW m \in 1 .. L + 1, NEW n \in 1 .. L + 1
        PROVE  /\ m <= n => Rank(history'[m]) <= Rank(history'[n])
               /\ history'[m].prompt = history'[n].prompt
               /\ (/\ IsClaim(history'[m]) /\ IsClaim(history'[n])
                   /\ history'[m].batch.done = history'[n].batch.done) => m = n
    <3>0. Rank(w) \in Int
      BY <1>L, <1>w DEF Revision, BatchStates, Rank
    <3>1. CASE m \in 1 .. L /\ n \in 1 .. L
      <4>1. history'[m] = history[m] /\ history'[n] = history[n]
        BY <1>L, <1>a, <3>1
      <4> QED BY <1>L, <1>i, <3>1, <4>1 DEF PlanInv
    <3>2. CASE m \in 1 .. L /\ n = L + 1
      <4>1. history'[m] = history[m] /\ history'[n] = w /\ L > 0
        BY <1>L, <1>a, <3>2
      <4> QED BY <1>L, <2>2, <2>3, <3>2, <4>1
    <3>3. CASE m = L + 1 /\ n \in 1 .. L
      <4>1. history'[m] = w /\ history'[n] = history[n] /\ L > 0 /\ ~(m <= n)
        BY <1>L, <1>a, <3>3
      <4> QED BY <1>L, <2>2, <2>3, <3>3, <4>1
    <3>4. CASE m = L + 1 /\ n = L + 1
      <4>1. history'[m] = w /\ history'[n] = w
        BY <1>L, <1>a, <3>4
      <4> QED BY <1>L, <3>0, <3>4, <4>1
    <3> QED BY <1>L, <2>0, <3>1, <3>2, <3>3, <3>4
  <2>5. ASSUME NEW c \in 1 .. NBatches
        PROVE  /\ sent[c] \in {0, 1}
               /\ \A n \in 1 .. L + 1 :
                     (history'[n].batch # None /\ Rank(history'[n]) >= 3 * c - 1) => sent[c] = 1
               /\ sent[c] = 1 => L + 1 > 0 /\ Rank(w) >= 3 * c - 2
    <3>1. sent[c] \in {0, 1}
      BY <1>L, <1>i DEF PlanInv
    <3>2. ASSUME NEW n \in 1 .. L + 1, history'[n].batch # None, Rank(history'[n]) >= 3 * c - 1
          PROVE  sent[c] = 1
      <4>1. CASE n \in 1 .. L
        <5>1. history'[n] = history[n]
          BY <1>L, <1>a, <4>1
        <5> QED BY <1>L, <1>i, <3>2, <4>1, <5>1 DEF PlanInv
      <4>2. CASE n = L + 1
        BY <1>L, <1>a, <1>w, <3>2, <4>2
      <4> QED BY <1>L, <2>0, <4>1, <4>2
    <3>3. sent[c] = 1 => L > 0 /\ Rank(r) >= 3 * c - 2
      BY <1>L, <1>i DEF PlanInv, Current
    <3>4. L > 0 => Rank(r) \in Int /\ Rank(w) \in Int /\ Rank(r) <= Rank(w)
      BY <1>L, <1>w, <2>2
    <3> QED BY <1>L, <1>a, <3>1, <3>2, <3>3, <3>4
  <2>6. sent' = sent /\ Current' = w /\ Len(history)' = L + 1
    BY <1>L, <1>a
  <2> HIDE <2>2, <2>3
  <2>7. (\A n \in 1 .. Len(history) : RevisionInv(history[n]))'
    BY <1>L, <2>1, <2>6
  <2>8. (\A m, n \in 1 .. Len(history) :
          /\ m <= n => Rank(history[m]) <= Rank(history[n])
          /\ history[m].prompt = history[n].prompt
          /\ (/\ IsClaim(history[m]) /\ IsClaim(history[n])
              /\ history[m].batch.done = history[n].batch.done) => m = n)'
    BY <1>L, <2>4, <2>6
  <2>9. (\A b \in 1 .. NBatches :
          /\ sent[b] \in {0, 1}
          /\ \A n \in 1 .. Len(history) :
                (history[n].batch # None /\ Rank(history[n]) >= 3 * b - 1) => sent[b] = 1
          /\ sent[b] = 1 => Len(history) > 0 /\ Rank(Current) >= 3 * b - 2)'
    BY <1>L, <2>5, <2>6
  <2> QED BY <1>L, <2>7, <2>8, <2>9 DEF PlanInv
<1>3. ASSUME NEW q \in Procs
      PROVE  PlannedTurn(q, pc[q], base[q], intent[q])'
  <2>1. CASE q = p
    BY <1>L, <1>g, <2>1
  <2>2. CASE q # p
    <3>k. PICK b : b = base[q]
      OBVIOUS
    <3>0. /\ PlannedTurn(q, pc[q], b, intent[q]) /\ b \in 0 .. L
          /\ At(b)' = At(b) /\ sent' = sent
          /\ pc'[q] = pc[q] /\ base'[q] = b /\ intent'[q] = intent[q]
      BY <1>L, <1>i, <1>a, <1>g, <2>2, <3>k DEF MappingInv, TypeOK
    <3>1. \A m \in 0 .. L : HasClaim(q, m)' <=> HasClaim(q, m)
      BY <1>L, <1>a DEF HasClaim
    <3>2. ~HasClaim(q, L + 1)'
      <4>1. IsClaim(w) => w.batch.token = p
        BY <1>L, PlannedClaim
      <4> QED BY <1>L, <1>a, <2>2, <4>1 DEF HasClaim
    <3>3. WasSent(q, b)' <=> WasSent(q, b)
      BY <1>L, <3>0, <3>1 DEF WasSent
    <3>4. Plans(q, b, intent[q])' <=> Plans(q, b, intent[q])
      BY <1>L, <3>0, <3>3 DEF Plans, SavesBatch
    <3>5. ASSUME pc[q] # "idle"
          PROVE  /\ \A m \in 1 .. L + 1 : HasClaim(q, m)' => m <= b
                 /\ HasClaim(q, b)' => \A m \in b + 1 .. L + 1 : ~IsOpen(history'[m])
      <4>1. \A m \in 1 .. L + 1 : HasClaim(q, m)' => m <= b
        <5>1. \A m \in 1 .. L + 1 : m \in 1 .. L \/ m = L + 1
          BY <1>L, <1>a
        <5>2. \A m \in 1 .. L : HasClaim(q, m) => m <= b
          BY <1>L, <3>0, <3>5 DEF PlannedTurn
        <5>3. \A m \in 1 .. L : HasClaim(q, m)' => m <= b
          <6>1. \A m \in 1 .. L : m \in 0 .. L
            BY <1>L, <1>a
          <6> QED BY <1>L, <3>1, <5>2, <6>1
        <5> QED BY <1>L, <3>2, <5>1, <5>3
      <4>2. ASSUME HasClaim(q, b), NEW m \in b + 1 .. L + 1
            PROVE  ~IsOpen(history'[m])
        <5>1. \A l \in b + 1 .. L : ~IsOpen(history[l])
          BY <1>L, <3>0, <3>5, <4>2 DEF PlannedTurn
        <5>2. CASE m # L + 1
          BY <1>L, <1>a, <3>0, <4>2, <5>1, <5>2
        <5>3. CASE m = L + 1
          <6>1. CASE b = L
            BY <1>L, <1>a, <2>2, <4>2, <5>3, <6>1, LateSaves
          <6>2. CASE b # L
            <7>1. L \in b + 1 .. L /\ L > 0 /\ r = history[L]
              BY <1>L, <1>i, <1>a, <3>0, <6>2 DEF At
            <7> QED BY <1>L, <1>a, <5>1, <5>3, <7>1, LateSaves
          <6> QED BY <1>L, <6>1, <6>2
        <5> QED BY <1>L, <5>2, <5>3
      <4>3. HasClaim(q, b)' <=> HasClaim(q, b)
        BY <1>L, <3>0, <3>1
      <4> QED BY <1>L, <4>1, <4>2, <4>3
    <3>6. pc[q] # "idle" =>
            (/\ \A m \in 1 .. Len(history) : HasClaim(q, m) => m <= b
             /\ HasClaim(q, b) => \A m \in b + 1 .. Len(history) : ~IsOpen(history[m]))'
      <4>1. Len(history)' = L + 1
        BY <1>L, <1>a
      <4> QED BY <1>L, <3>5, <4>1
    <3>7. HasClaim(q, b)' <=> HasClaim(q, b)
      BY <1>L, <3>0, <3>1
    <3> QED BY <1>L, <3>0, <3>3, <3>4, <3>6, <3>7 DEF PlannedTurn
  <2> QED BY <1>L, <2>1, <2>2
<1>4. ASSUME NEW q \in Procs
      PROVE  (pc[q] = "put" => base[q] <= prior[q] /\ Accepts(intent[q], At(prior[q])))'
  <2>1. CASE q = p
    BY <1>L, <1>g, <2>1
  <2>2. CASE q # p
    <3>1. prior[q] \in 0 .. L
      BY <1>L, <1>i DEF TypeOK
    <3>2. At(prior[q])' = At(prior[q])
      BY <1>L, <1>a, <1>g, <2>2, <3>1 DEF At
    <3> QED BY <1>L, <1>i, <1>g, <2>2, <3>2 DEF MappingInv
  <2> QED BY <1>L, <2>1, <2>2
<1> QED BY <1>L, <1>i, <1>1, <1>2, <1>3, <1>4 DEF MappingInv

\* Nothing is done, claimed or pending in a fresh plan.
LEMMA FreshPlanFacts ==
  /\ FreshPlan # None /\ IsIdle(FreshPlan) /\ FreshPlan.done < NBatches
  /\ \A p \in Procs : Claimed(FreshPlan, p) \in BatchStates
<1>1. FreshPlan # None /\ \A p \in Procs : Claimed(FreshPlan, p) \in BatchStates
  BY BatchStatesClosed
<1>2. IsIdle(FreshPlan) /\ FreshPlan.done < NBatches
  BY DEF FreshPlan, IsIdle
<1> QED BY <1>1, <1>2

\* The claim that follows a fresh plan.
LEMMA FirstClaim ==
  ASSUME NEW p \in Procs, NEW snapshot \in Prompts \cup {None}, NEW it,
         it = BatchState("MAPPING_REQUIRED", snapshot, Claimed(FreshPlan, p), "call")
  PROVE  /\ it \in Intent /\ it.op = "batch" /\ it.status = "MAPPING_REQUIRED"
         /\ it.prompt = snapshot /\ it.batch = Claimed(FreshPlan, p) /\ it.then = "call"
<1>1. "MAPPING_REQUIRED" \in Statuses
  BY DEF Statuses
<1> QED BY <1>1, FreshPlanFacts, BatchStateFields

\* A put in a planned case keeps the invariant.
LEMMA PutPlannedKeeps ==
  ASSUME MappingInv, NEW p \in Procs, shape = "batches", Put(p)
  PROVE  MappingInv'
<1>L. PICK L : L = Len(history)
  OBVIOUS
<1>d. PICK i, s, r, w : i = intent[p] /\ s = At(base[p]) /\ r = Current /\ w = Written(p)
  OBVIOUS
<1>p. PutsPlanned(p, i, s, r, w)
  BY <1>d DEF PutsPlanned, Put
<1>f. /\ i \in Intent /\ s \in Revision /\ r \in Revision /\ Plans(p, base[p], i)
      /\ Accepts(i, r) /\ L \in Nat
      /\ IF L = 0 THEN r = Unborn ELSE RevisionInv(r)
  BY <1>L, <1>p, PutsPlannedFacts
<1>w. w \in Revision /\ RevisionInv(w)
  BY <1>p, PlannedRevision
<1>u. /\ history' = Append(history, w) /\ UNCHANGED <<shape, prompt, sent, setbacks>>
      /\ prior[p] = L /\ Continues(p) /\ MappingInv /\ TypeOK /\ PlanInv
  BY <1>L, <1>d DEF Put, MappingInv
<1>a. /\ Len(history)' = L + 1 /\ L \in Nat
      /\ \A n : n = L + 1 => At(n)' = w
  BY <1>L, <1>u, <1>w, Appended
<1>n. PICK n : n = L + 1
  OBVIOUS
<1>0. n \in 0 .. Len(history) + 1 /\ n \in Nat /\ At(n)' = w /\ Len(history)' = n
      /\ 0 \in 0 .. Len(history) + 1
  BY <1>L, <1>a, <1>n
<1>o. /\ (\A m \in 1 .. Len(history) : HasClaim(p, m) => m <= n)'
      /\ (HasClaim(p, n) => \A m \in n + 1 .. Len(history) : ~IsOpen(history[m]))'
  BY <1>0
<1>1. CASE i.then = "idle" /\ Ends(p)
  <2>1. PlannedTurn(p, "idle", 0, NoIntent)'
    BY DEF PlannedTurn
  <2>2. Goes(p, "idle", 0, NoIntent) /\ "idle" \in Points \ {"put"}
    BY <1>1 DEF Ends, Points
  <2> QED BY <1>p, <1>u, <1>0, <2>1, <2>2, NoIntentFields, PutGoes
<1>2. CASE i.then = "claim" /\ Claims(p, n, w)
  <2>1. i.op = "batch" /\ w.batch = FreshPlan /\ w.prompt # None /\ w.prompt \in Prompts \cup {None}
    <3>1. i.op = "batch"
      BY <1>f, <1>2 DEF Plans
    <3> QED BY <1>p, <1>2, <1>w, <3>1, BatchWritten DEF Revision
  <2>2. PICK it : it = BatchState("MAPPING_REQUIRED", w.prompt, Claimed(FreshPlan, p), "call")
    OBVIOUS
  <2>3. /\ it \in Intent /\ it.op = "batch" /\ it.status = "MAPPING_REQUIRED"
        /\ it.prompt = w.prompt /\ it.batch = Claimed(FreshPlan, p) /\ it.then = "call"
    BY <2>1, <2>2, FirstClaim
  <2>4. Goes(p, "save", n, it) /\ "save" \in Points \ {"put"}
    BY <1>2, <2>1, <2>2 DEF Claims, Saves, Points
  <2>5. w.batch # None /\ IsIdle(w.batch) /\ w.batch.done < NBatches
    BY <2>1, FreshPlanFacts
  <2>6. SavesBatch(p, n, it)'
    BY <1>0, <2>1, <2>3, <2>5 DEF SavesBatch
  <2>7. PlannedTurn(p, "save", n, it)'
    BY <1>o, <2>3, <2>6 DEF PlannedTurn, Plans
  <2> QED BY <1>p, <1>u, <1>0, <2>3, <2>4, <2>7, PutGoes
<1>g. CASE i.then = "claim" /\ GivesUp(p, n, w)
  <2>1. /\ i.op = "batch" /\ w.batch = FreshPlan /\ w.batch \in BatchStates
        /\ w.prompt # None /\ w.prompt \in Prompts \cup {None}
    <3>1. i.op = "batch"
      BY <1>f, <1>g DEF Plans
    <3> QED BY <1>p, <1>g, <1>w, <3>1, BatchWritten, FreshPlanFacts DEF Revision
  <2>2. PICK it : it = BatchState("MAPPING_OUTPUT_INVALID", w.prompt, w.batch, "idle")
    OBVIOUS
  <2>3. /\ it \in Intent /\ it.op = "batch" /\ it.status = "MAPPING_OUTPUT_INVALID"
        /\ it.prompt = w.prompt /\ it.batch = w.batch /\ it.then = "idle"
    BY <2>1, <2>2, BatchStateFields DEF Statuses
  <2>4. Goes(p, "save", n, it) /\ "save" \in Points \ {"put"}
    BY <1>g, <2>2 DEF GivesUp, Saves, Points
  <2>5. SavesBatch(p, n, it)'
    BY <1>0, <2>1, <2>3, FreshPlanFacts DEF SavesBatch
  <2>6. PlannedTurn(p, "save", n, it)'
    BY <1>o, <2>3, <2>5 DEF PlannedTurn, Plans
  <2> QED BY <1>p, <1>u, <1>0, <2>3, <2>4, <2>6, PutGoes
<1>3. CASE i.then = "call" /\ Goes(p, "call", n, i)
  <2>1. /\ IsClaim(w) /\ w.batch.token = p /\ L > 0 /\ r.batch # None /\ IsIdle(r.batch)
        /\ w.batch.done = r.batch.done /\ r.batch.done < NBatches
    BY <1>L, <1>p, <1>3, PlannedClaim
  <2>2. r.batch.done \in Nat /\ Rank(r) = 3 * r.batch.done
    BY <1>f, <2>1 DEF Revision, BatchStates, Rank, IsIdle
  <2>3. w.batch.done + 1 \in 1 .. NBatches
    BY <2>1, <2>2
  <2>4. sent[w.batch.done + 1] = 0
    BY <1>u, <1>d, <2>1, <2>2, <2>3 DEF PlanInv
  <2>5. HasClaim(p, n)' /\ (sent[At(n).batch.done + 1] = 0)'
    BY <1>a, <1>n, <1>0, <1>u, <2>1, <2>4 DEF HasClaim
  <2>6. PlannedTurn(p, "call", n, i)' /\ "call" \in Points \ {"put"}
    BY <1>o, <2>5 DEF PlannedTurn, Points
  <2> QED BY <1>p, <1>f, <1>u, <1>0, <1>3, <2>6, PutGoes
<1>4. CASE i.then = "resume" /\ Goes(p, "resume", n, i)
  <2>1. w.batch # None
    <3>1. i.op = "batch"
      BY <1>f, <1>4 DEF Plans
    <3> QED BY <1>p, <3>1, BatchWritten
  <2>2. PlannedTurn(p, "resume", n, i)' /\ "resume" \in Points \ {"put"}
    BY <1>o, <1>0, <2>1 DEF PlannedTurn, Points
  <2> QED BY <1>p, <1>f, <1>u, <1>0, <1>4, <2>2, PutGoes
<1>5. CASE i.then = "replay" /\ Goes(p, "replay", n, i)
  <2>1. w.batch # None /\ w.batch.pending
    <3>1. i.op \in {"assert", "again"}
      BY <1>f, <1>5 DEF Plans, SavesBatch
    <3> QED BY <1>p, <3>1, OtherWritten
  <2>2. PlannedTurn(p, "replay", n, i)' /\ "replay" \in Points \ {"put"}
    BY <1>o, <1>0, <2>1 DEF PlannedTurn, Points
  <2> QED BY <1>p, <1>f, <1>u, <1>0, <1>5, <2>2, PutGoes
<1>6. i.then \in {"idle", "claim", "call", "resume", "replay"}
  BY <1>f DEF Plans, SavesBatch
<1>7. \/ i.then = "idle"   /\ Ends(p)
      \/ i.then = "claim"  /\ (Claims(p, n, w) \/ GivesUp(p, n, w))
      \/ i.then \in {"call", "resume", "replay"} /\ Goes(p, i.then, n, i)
  BY <1>d, <1>n, <1>u, <1>6 DEF Continues
<1> QED BY <1>1, <1>2, <1>g, <1>3, <1>4, <1>5, <1>7

\* What was about to be put is there already.
LEMMA PutAgainPlannedKeeps ==
  ASSUME MappingInv, NEW p \in Procs, shape = "batches", PutAgain(p)
  PROVE  MappingInv'
<1>n. PICK n : n = prior[p] + 1
  OBVIOUS
<1>d. PICK i, r, w : i = intent[p] /\ r = At(prior[p]) /\ w = history[n]
  OBVIOUS
<1>1. /\ TypeOK /\ pc[p] = "put" /\ Len(history) > prior[p] /\ w = Written(p)
      /\ Continues(p) /\ UNCHANGED world
      /\ PlannedTurn(p, pc[p], base[p], i) /\ PlanInv
      /\ base[p] <= prior[p] /\ Accepts(i, r)
  BY <1>n, <1>d DEF PutAgain, MappingInv
<1>2. /\ n \in 1 .. Len(history) /\ prior[p] \in 0 .. Len(history) /\ base[p] \in Nat
      /\ i \in Intent /\ w \in Revision /\ At(n) = w /\ RevisionInv(w)
      /\ r \in Revision /\ base[p] < n /\ Len(history) \in Nat
      /\ IF prior[p] = 0 THEN r = Unborn ELSE RevisionInv(r)
  <2>1. Len(history) \in Nat /\ prior[p] \in 0 .. Len(history) /\ base[p] \in 0 .. Len(history)
        /\ i \in Intent
    BY <1>1, <1>d, RevisionsTyped DEF TypeOK
  <2>2. n \in 1 .. Len(history) /\ base[p] < n
    BY <1>1, <1>n, <2>1
  <2>3. w \in Revision /\ At(n) = w /\ r \in Revision
    <3>1. n \in 0 .. Len(history) /\ At(n) = history[n]
      BY <1>1, <2>1, <2>2, RevisionsTyped
    <3> QED BY <1>d, <1>1, <2>1, <3>1, RevisionsTyped
  <2>4. RevisionInv(w)
    BY <1>d, <1>1, <2>2 DEF PlanInv
  <2>5. IF prior[p] = 0 THEN r = Unborn ELSE RevisionInv(r)
    <3>1. prior[p] = 0 => r = Unborn
      BY <1>d DEF At
    <3>2. prior[p] # 0 => RevisionInv(r)
      BY <1>d, <2>1, RevisionFacts
    <3> QED BY <3>1, <3>2
  <2> QED BY <2>1, <2>2, <2>3, <2>4, <2>5
<1>3. /\ UNCHANGED <<shape, history, sent>>
      /\ prompt' \in Prompts \cup {None} /\ setbacks' \in Nat
  BY <1>1, WorldKept
<1>4. /\ \A m \in 1 .. Len(history) : HasClaim(p, m) => m <= base[p]
      /\ Plans(p, base[p], i)
  BY <1>1 DEF PlannedTurn
<1>5. ~HasClaim(p, n) /\ \A m \in 1 .. Len(history) : HasClaim(p, m) => m <= n
  BY <1>2, <1>4
<1>w. w = Payload(i, r)
  BY <1>d, <1>1 DEF Written
<1>6. CASE i.then = "idle" /\ Ends(p)
  BY <1>3, <1>6, EndStep
<1>7. CASE i.then = "claim" /\ Claims(p, n, w)
  <2>1. w.batch = FreshPlan /\ w.prompt # None /\ w.prompt \in Prompts \cup {None}
    BY <1>2, <1>4, <1>7, <1>w DEF Plans, SavesBatch, Payload, RevisionInv, Revision
  <2>2. PICK it : it = BatchState("MAPPING_REQUIRED", w.prompt, Claimed(FreshPlan, p), "call")
    OBVIOUS
  <2>3. /\ it \in Intent /\ it.op = "batch" /\ it.status = "MAPPING_REQUIRED"
        /\ it.prompt = w.prompt /\ it.batch = Claimed(FreshPlan, p) /\ it.then = "call"
    BY <2>1, <2>2, FirstClaim
  <2>4. Goes(p, "save", n, it) /\ "save" \in Points \ {"put"}
    BY <1>7, <2>1, <2>2 DEF Claims, Saves, Points
  <2>5. w.batch # None /\ IsIdle(w.batch) /\ w.batch.done < NBatches
    BY <2>1, FreshPlanFacts
  <2>6. SavesBatch(p, n, it)
    BY <1>2, <2>1, <2>3, <2>5 DEF SavesBatch
  <2>7. PlannedTurn(p, "save", n, it)
    BY <1>5, <2>3, <2>6 DEF PlannedTurn, Plans
  <2> QED BY <1>2, <1>3, <2>3, <2>4, <2>7, TurnStep
<1>g. CASE i.then = "claim" /\ GivesUp(p, n, w)
  <2>1. /\ w.batch = FreshPlan /\ w.batch \in BatchStates
        /\ w.prompt # None /\ w.prompt \in Prompts \cup {None}
    BY <1>2, <1>4, <1>g, <1>w, FreshPlanFacts DEF Plans, SavesBatch, Payload, RevisionInv, Revision
  <2>2. PICK it : it = BatchState("MAPPING_OUTPUT_INVALID", w.prompt, w.batch, "idle")
    OBVIOUS
  <2>3. /\ it \in Intent /\ it.op = "batch" /\ it.status = "MAPPING_OUTPUT_INVALID"
        /\ it.prompt = w.prompt /\ it.batch = w.batch /\ it.then = "idle"
    BY <2>1, <2>2, BatchStateFields DEF Statuses
  <2>4. Goes(p, "save", n, it) /\ "save" \in Points \ {"put"}
    BY <1>g, <2>2 DEF GivesUp, Saves, Points
  <2>5. SavesBatch(p, n, it)
    BY <1>2, <2>1, <2>3, FreshPlanFacts DEF SavesBatch
  <2>6. PlannedTurn(p, "save", n, it)
    BY <1>5, <2>3, <2>5 DEF PlannedTurn, Plans
  <2> QED BY <1>2, <1>3, <2>3, <2>4, <2>6, TurnStep
<1>8. CASE i.then = "call"
  <2>1. i.op = "batch" /\ i.status = "MAPPING_REQUIRED" /\ SavesBatch(p, base[p], i)
        /\ i.batch = Claimed(At(base[p]).batch, p)
    BY <1>4, <1>8 DEF Plans, SavesBatch
  <2>2. At(base[p]).batch \in BatchStates
    <3>1. base[p] \in 0 .. Len(history)
      BY <1>1 DEF TypeOK
    <3> QED BY <1>1, <2>1, <3>1, RevisionsTyped DEF Revision, SavesBatch
  <2>3. i.batch \in BatchStates /\ i.batch.token = p
    BY <2>1, <2>2, BatchStatesClosed DEF Claimed, BatchStates
  <2>4. w.status = "MAPPING_REQUIRED" /\ w.batch = i.batch
    BY <1>w, <2>1 DEF Payload
  <2>5. HasClaim(p, n)
    BY <1>2, <2>3, <2>4 DEF HasClaim, IsClaim
  <2> QED BY <1>5, <2>5
<1>9. CASE i.then = "resume" /\ Goes(p, "resume", n, i)
  <2>1. i.status = "MAPPING_REQUIRED"
    BY <1>4, <1>9 DEF Plans, SavesBatch
  <2>2. w.batch # None
    BY <1>2, <1>w, <2>1 DEF Payload, RevisionInv
  <2>3. PlannedTurn(p, "resume", n, i) /\ "resume" \in Points \ {"put"}
    BY <1>2, <1>5, <2>2 DEF PlannedTurn, Points
  <2> QED BY <1>2, <1>3, <1>9, <2>3, TurnStep
<1>10. CASE i.then = "replay" /\ Goes(p, "replay", n, i)
  <2>1. i.op \in {"assert", "again"}
    BY <1>4, <1>10 DEF Plans, SavesBatch
  <2>2. r.status = "CURRENCY_ASSERTION_REQUIRED"
    BY <1>1, <2>1 DEF Accepts
  <2>3. r.batch # None /\ r.batch.pending
    BY <1>2, <2>2 DEF Unborn, RevisionInv, Statuses
  <2>4. w.batch = r.batch
    BY <1>w, <2>1 DEF Payload
  <2>5. PlannedTurn(p, "replay", n, i) /\ "replay" \in Points \ {"put"}
    BY <1>2, <1>5, <2>3, <2>4 DEF PlannedTurn, Points
  <2> QED BY <1>2, <1>3, <1>10, <2>5, TurnStep
<1>11. i.then \in {"idle", "claim", "call", "resume", "replay"}
  BY <1>4 DEF Plans, SavesBatch
<1>12. \/ i.then = "idle"   /\ Ends(p)
       \/ i.then = "claim"  /\ (Claims(p, n, w) \/ GivesUp(p, n, w))
       \/ i.then \in {"call", "resume", "replay"} /\ Goes(p, i.then, n, i)
  BY <1>d, <1>n, <1>1, <1>11 DEF Continues
<1> QED BY <1>6, <1>7, <1>g, <1>8, <1>9, <1>10, <1>12

\* The same in a case that is not planned.
LEMMA PlainContinues ==
  ASSUME MappingInv, NEW p \in Procs, shape # "batches", pc[p] = "put", Continues(p)
  PROVE  \E point \in Points \ {"put"}, k \in 0 .. prior[p] + 1, it \in Intent :
            Goes(p, point, k, it) /\ PlainTurn(point, it)
<1>1. /\ intent[p] \in Intent /\ prior[p] + 1 \in 0 .. prior[p] + 1 /\ 0 \in 0 .. prior[p] + 1
      /\ PlainTurn(pc[p], intent[p])
  <2>1. prior[p] \in Nat /\ intent[p] \in Intent
    BY RevisionsTyped DEF MappingInv, TypeOK
  <2> QED BY <2>1 DEF MappingInv
<1>2. intent[p].then \in {"idle", "retire", "replay"} /\ (intent[p].then = "replay" => shape = "one")
  BY <1>1 DEF PlainTurn
<1>3. CASE intent[p].then = "idle"
  <2>1. Goes(p, "idle", 0, NoIntent)
    BY <1>3 DEF Continues, Ends
  <2>2. PlainTurn("idle", NoIntent) /\ "idle" \in Points \ {"put"}
    BY DEF PlainTurn, Points
  <2> QED BY <1>1, <2>1, <2>2, NoIntentFields
<1>4. CASE intent[p].then = "retire"
  <2>0. PICK it : it = Terminal("SPECIALIST_REVIEW_REQUIRED", None)
    OBVIOUS
  <2>1. Goes(p, "save", prior[p] + 1, it)
    BY <1>4, <2>0 DEF Continues, Saves
  <2>2. /\ it \in Intent /\ it.op = "terminal" /\ it.then = "idle"
        /\ it.status = "SPECIALIST_REVIEW_REQUIRED"
    BY <2>0, TerminalFields DEF Statuses, Final
  <2>3. PlainTurn("save", it) /\ "save" \in Points \ {"put"}
    BY <2>2 DEF PlainTurn, Points, Final
  <2> QED BY <1>1, <2>1, <2>2, <2>3
<1>5. CASE intent[p].then = "replay"
  <2>1. Goes(p, "replay", prior[p] + 1, intent[p])
    BY <1>5 DEF Continues
  <2>2. PlainTurn("replay", intent[p]) /\ "replay" \in Points \ {"put"}
    BY <1>2, <1>5 DEF PlainTurn, Points
  <2> QED BY <1>1, <2>1, <2>2
<1> QED BY <1>2, <1>3, <1>4, <1>5

\* A put in any other case writes no plan.
LEMMA PlainWritten ==
  ASSUME MappingInv, NEW p \in Procs, shape # "batches", pc[p] = "put"
  PROVE  LET w == Written(p) IN
         /\ w \in Revision /\ w.batch = None
         /\ w.status = intent[p].status
         /\ shape # "one" => w.status \in Final
<1>1. PICK i, r : i = intent[p] /\ r = At(prior[p])
  OBVIOUS
<1>2. i \in Intent /\ r \in Revision /\ r.batch = None /\ PlainTurn(pc[p], i)
  BY <1>1, RevisionsTyped, RevisionFacts DEF MappingInv, TypeOK
<1>3. /\ i.op # "batch" /\ (i.op = "assert" => i.decision \in Assertions)
      /\ shape # "one" => i.status \in Final
  BY <1>2 DEF PlainTurn, Intent
<1>4. Payload(i, r) \in Revision /\ Payload(i, r).batch = None
      /\ Payload(i, r).status = i.status
  BY <1>2, <1>3 DEF Payload, Revision, Intent
<1> QED BY <1>1, <1>3, <1>4 DEF Written

\* A put that finds its own revision keeps the invariant there,
LEMMA PutAgainPlainKeeps ==
  ASSUME MappingInv, NEW p \in Procs, shape # "batches", PutAgain(p)
  PROVE  MappingInv'
<1>1. /\ pc[p] = "put" /\ Continues(p) /\ UNCHANGED world /\ TypeOK
      /\ prior[p] + 1 \in 0 .. Len(history) /\ prior[p] \in Nat /\ Len(history) \in Nat
  <2>1. prior[p] \in 0 .. Len(history) /\ Len(history) \in Nat /\ TypeOK
    BY RevisionsTyped DEF MappingInv, TypeOK
  <2> QED BY <2>1 DEF PutAgain
<1>2. PICK point \in Points \ {"put"}, k \in 0 .. prior[p] + 1, it \in Intent :
         Goes(p, point, k, it) /\ PlainTurn(point, it)
  BY <1>1, PlainContinues
<1>3. k \in 0 .. Len(history)
  BY <1>1
<1> QED BY <1>1, <1>2, <1>3, WorldKept, TurnStep

\* and so does one that appends it.
LEMMA PutPlainKeeps ==
  ASSUME MappingInv, NEW p \in Procs, shape # "batches", Put(p)
  PROVE  MappingInv'
<1>L. PICK L : L = Len(history)
  OBVIOUS
<1>1. /\ pc[p] = "put" /\ Continues(p) /\ UNCHANGED <<shape, prompt, sent, setbacks>>
      /\ prior[p] = L /\ L \in Nat /\ TypeOK /\ PlainInv
      /\ history' = Append(history, Written(p))
  BY <1>L, RevisionsTyped DEF MappingInv, Put
<1>w. PICK w : w = Written(p)
  OBVIOUS
<1>2. w \in Revision /\ w.batch = None /\ (shape # "one" => w.status \in Final)
  BY <1>1, <1>w, PlainWritten
<1>a. /\ history' \in Seq(Revision) /\ Len(history)' = L + 1
      /\ \A n \in 1 .. L : history'[n] = history[n]
      /\ history'[L + 1] = w
      /\ \A n \in 0 .. L : At(n)' = At(n)
  BY <1>L, <1>w, <1>1, <1>2, Appended
<1>3. PICK point \in Points \ {"put"}, k \in 0 .. L + 1, it \in Intent :
         Goes(p, point, k, it) /\ PlainTurn(point, it)
  BY <1>1, PlainContinues
<1>g. /\ pc'[p] = point /\ base'[p] = k /\ intent'[p] = it
      /\ \A q \in Procs : q # p =>
            pc'[q] = pc[q] /\ base'[q] = base[q] /\ intent'[q] = intent[q] /\ prior'[q] = prior[q]
  BY <1>1, <1>3 DEF TypeOK, Goes
<1>4. TypeOK'
  BY <1>L, <1>1, <1>a, <1>3 DEF TypeOK, Goes
<1>5. PlainInv'
  <2>1. \A n \in 1 .. L + 1 : n \in 1 .. L \/ n = L + 1
    BY <1>1
  <2> QED BY <1>L, <1>1, <1>2, <1>a, <2>1 DEF PlainInv
<1>6. ASSUME NEW q \in Procs
      PROVE  PlainTurn(pc[q], intent[q])'
  <2>1. CASE q = p
    BY <1>1, <1>3, <1>g, <2>1 DEF PlainTurn
  <2>2. CASE q # p
    BY <1>1, <1>g, <2>2 DEF MappingInv, PlainTurn
  <2> QED BY <2>1, <2>2
<1>7. ASSUME NEW q \in Procs
      PROVE  (pc[q] = "put" => base[q] <= prior[q] /\ Accepts(intent[q], At(prior[q])))'
  <2>1. CASE q = p
    BY <1>3, <1>g, <2>1
  <2>2. CASE q # p
    <3>1. prior[q] \in 0 .. L
      BY <1>L, <1>1 DEF TypeOK
    <3>2. At(prior[q])' = At(prior[q])
      BY <1>a, <1>g, <2>2, <3>1 DEF At
    <3> QED BY <1>g, <2>2, <3>2 DEF MappingInv
  <2> QED BY <2>1, <2>2
<1> QED BY <1>1, <1>4, <1>5, <1>6, <1>7 DEF MappingInv

-----------------------------------------------------------------------------
(* The theorems. *)

\* Every step keeps the invariant.
LEMMA MappingInvStep ==
  ASSUME MappingInv, [Next]_vars
  PROVE  MappingInv'
<1>1. ASSUME NEW p \in Procs, Begin(p)
      PROVE  MappingInv'
  BY <1>1, BeginsKeep, BeginAnswerKeeps DEF Begin
<1>2. ASSUME NEW p \in Procs, MapStep(p)
      PROVE  MappingInv'
  BY <1>2, MapStepsKeep
<1>3. ASSUME NEW p \in Procs, BatchStep(p)
      PROVE  MappingInv'
  BY <1>3, BatchStepsKeep, SendKeeps
<1>4. ASSUME NEW p \in Procs, SaveStep(p)
      PROVE  MappingInv'
  <2>1. CASE SaveReads(p)
    BY <2>1, SaveReadsKeeps
  <2>2. CASE SaveRefused(p) \/ PutConflicts(p)
    BY <2>2, WorldKept, EndStep DEF SaveRefused, PutConflicts, MappingInv
  <2>3. CASE Put(p)
    BY <2>3, PutPlannedKeeps, PutPlainKeeps
  <2>4. CASE PutAgain(p)
    BY <2>4, PutAgainPlannedKeeps, PutAgainPlainKeeps
  <2> QED BY <1>4, <2>1, <2>2, <2>3, <2>4 DEF SaveStep
<1>5. ASSUME NEW p \in Procs, Die(p)
      PROVE  MappingInv'
  BY <1>5, WorldKept, EndStep DEF Die, MappingInv
<1>6. CASE RevisePrompt \/ RestorePrompt
  <2>1. /\ UNCHANGED <<shape, history, sent, pc, base, prior, intent>>
        /\ prompt' \in Prompts \cup {None} /\ setbacks' \in Nat
    BY <1>6 DEF MappingInv, TypeOK, RevisePrompt, RestorePrompt, Setback, turn
  <2> QED BY <2>1, WorldStepKeeps
<1>7. CASE UNCHANGED vars
  <2>1. /\ UNCHANGED <<shape, history, sent, pc, base, prior, intent>>
        /\ prompt' \in Prompts \cup {None} /\ setbacks' \in Nat
    BY <1>7 DEF vars, world, turn, MappingInv, TypeOK
  <2> QED BY <2>1, WorldStepKeeps
<1> QED BY <1>1, <1>2, <1>3, <1>4, <1>5, <1>6, <1>7 DEF Next, Advance

\* Revisions, turns and their saves agree, for every plan and every number of
\* turns: what resolve(), _run_batch_plan and the saves of the mapping case
\* leave behind at every step.
THEOREM MappingAlwaysAgrees == Spec => []MappingInv
<1>1. Init => MappingInv
  BY InitKeeps
<1>2. MappingInv /\ [Next]_vars => MappingInv'
  BY MappingInvStep
<1> QED BY <1>1, <1>2, PTL DEF Spec

\* A batch is sent at most once: the claim that _run_batch_plan stores first
\* is never put twice.
THEOREM BatchesAreSentOnce == Spec => []SentOnce
<1>1. MappingInv => SentOnce
  BY DEF MappingInv, PlanInv, PlainInv, SentOnce
<1> QED BY <1>1, MappingAlwaysAgrees, PTL

\* One turn at a time waits for the provider's answer about a batch.
THEOREM OneBatchAtATime == Spec => []OneAtATime
<1>1. MappingInv => OneAtATime
  <2> SUFFICES ASSUME MappingInv, NEW p \in Procs, NEW q \in Procs,
                      WaitsForBatch(p), WaitsForBatch(q)
               PROVE  p = q
    BY DEF OneAtATime
  <2>1. TypeOK /\ base[p] \in 0 .. Len(history) /\ base[q] \in 0 .. Len(history)
        /\ Len(history) \in Nat
    BY RevisionsTyped DEF MappingInv, TypeOK
  <2>2. shape = "batches"
    BY <2>1, RevisionFacts DEF WaitsForBatch
  <2>3. \A x \in {p, q} :
           /\ HasClaim(x, base[x]) /\ base[x] > 0
           /\ IsOpen(history[base[x]])
           /\ \A m \in base[x] + 1 .. Len(history) : ~IsOpen(history[m])
    BY <2>2 DEF MappingInv, PlannedTurn, WaitsForBatch, WasSent, HasClaim, IsClaim, IsOpen, At
  <2>4. base[p] = base[q]
    BY <2>1, <2>3
  <2> QED BY <2>3, <2>4 DEF HasClaim
<1> QED BY <1>1, MappingAlwaysAgrees, PTL

\* Revisions are only ever added, each by a put of one turn.
LEMMA HistoryGrows ==
  ASSUME MappingInv, [Next]_vars, history' # history
  PROVE  \E p \in Procs :
            /\ Put(p) /\ pc[p] = "put" /\ prior[p] = Len(history)
            /\ Accepts(intent[p], Current) /\ UNCHANGED shape
            /\ Written(p) = Payload(intent[p], Current) /\ Written(p) \in Revision
            /\ Len(history)' = Len(history) + 1 /\ Len(history) \in Nat
            /\ \A n \in 1 .. Len(history) : history'[n] = history[n]
            /\ history'[Len(history) + 1] = Written(p)
            /\ Current' = Written(p)
            /\ Len(history) > 0 => Current = history[Len(history)]
<1>1. PICK p \in Procs : Put(p)
  <2>1. ~UNCHANGED vars /\ ~RevisePrompt /\ ~RestorePrompt
    BY DEF vars, world, RevisePrompt, RestorePrompt
  <2>2. \A p \in Procs : ~Begin(p) /\ ~Die(p)
    BY DEF world, Die, Begin, BeginMapping, BeginRetry, BeginRetire, BeginResume, BeginAnswer
  <2>3. \A p \in Procs : ~MapStep(p)
    BY DEF world, MapStep, Retry, MapPlanned, MapNothing, MapTooLarge, Map, TakePrompt,
       PromptUnavailable, ProviderFails, Invalid, Answered, AsksCurrency, Replay
  <2>4. \A p \in Procs : ~BatchStep(p)
    BY DEF world, BatchStep, Plan, ResumeUnsafe, ResumeWaits, Resume, ResumeLater, Send,
       BatchStopped, BatchAsksCurrency, BatchDone, ReplayBatch, ReplayInvalid
  <2>5. \A p \in Procs : ~SaveReads(p) /\ ~SaveRefused(p) /\ ~PutAgain(p) /\ ~PutConflicts(p)
    BY DEF world, SaveReads, SaveRefused, PutAgain, PutConflicts
  <2> QED BY <2>1, <2>2, <2>3, <2>4, <2>5 DEF Next, Advance, SaveStep
<1>2. /\ pc[p] = "put" /\ prior[p] = Len(history) /\ history' = Append(history, Written(p))
      /\ UNCHANGED shape /\ Accepts(intent[p], At(prior[p])) /\ Current = At(prior[p])
      /\ TypeOK
  BY <1>1 DEF Put, MappingInv, Current
<1>3. Written(p) \in Revision
  <2>1. CASE shape = "batches"
    <3>1. PutsPlanned(p, intent[p], At(base[p]), Current, Written(p))
      BY <1>2, <2>1 DEF PutsPlanned
    <3> QED BY <3>1, PlannedRevision
  <2>2. CASE shape # "batches"
    BY <1>2, <2>2, PlainWritten
  <2> QED BY <2>1, <2>2
<1>4. Len(history) > 0 => Current = history[Len(history)]
  BY RevisionsTyped DEF MappingInv, Current, At
<1>5. Written(p) = Payload(intent[p], Current)
  BY <1>2 DEF Written
<1> QED BY <1>1, <1>2, <1>3, <1>4, <1>5, Appended

\* Nothing follows COMPLETE: every save of the mapping case checks for it.
THEOREM NothingFollowsComplete == Spec => []CompleteIsLast
<1>1. Init => CompleteIsLast
  BY DEF Init, CompleteIsLast
<1>2. MappingInv /\ CompleteIsLast /\ [Next]_vars => CompleteIsLast'
  <2> SUFFICES ASSUME MappingInv, CompleteIsLast, [Next]_vars
               PROVE  CompleteIsLast'
    OBVIOUS
  <2>1. CASE history' = history
    BY <2>1 DEF CompleteIsLast
  <2>2. CASE history' # history
    <3>1. PICK p \in Procs :
            /\ Accepts(intent[p], Current)
            /\ Len(history)' = Len(history) + 1 /\ Len(history) \in Nat
            /\ \A n \in 1 .. Len(history) : history'[n] = history[n]
            /\ Len(history) > 0 => Current = history[Len(history)]
      BY <2>2, HistoryGrows
    <3>2. Current.status # "COMPLETE"
      BY <3>1 DEF Accepts, AcceptsOutcome, AcceptsBatch, Statuses, Final
    <3>3. \A n \in 1 .. Len(history) : history[n].status # "COMPLETE"
      BY <3>1, <3>2 DEF CompleteIsLast
    <3>4. \A n \in 1 .. Len(history) + 1 : n \in 1 .. Len(history) \/ n = Len(history) + 1
      BY <3>1
    <3> QED BY <3>1, <3>3, <3>4 DEF CompleteIsLast
  <2> QED BY <2>1, <2>2
<1> QED BY <1>1, <1>2, MappingAlwaysAgrees, PTL DEF Spec

\* What _next_payload carries over, and that _validate_mapping_batch_state and
\* save_batch_state never let a finished batch go.
THEOREM NothingIsEverForgotten == Spec => []NothingIsForgotten
<1>1. Init => NothingIsForgotten
  BY DEF Init, NothingIsForgotten
<1>2. MappingInv /\ NothingIsForgotten /\ [Next]_vars => NothingIsForgotten'
  <2> SUFFICES ASSUME MappingInv, NothingIsForgotten, [Next]_vars
               PROVE  NothingIsForgotten'
    OBVIOUS
  <2>1. CASE history' = history
    BY <2>1 DEF NothingIsForgotten
  <2>2. CASE history' # history
    <3>L. PICK L : L = Len(history)
      OBVIOUS
    <3>1. PICK p \in Procs :
            /\ pc[p] = "put" /\ prior[p] = L
            /\ Written(p) = Payload(intent[p], Current) /\ Written(p) \in Revision
            /\ Len(history)' = L + 1 /\ L \in Nat
            /\ \A n \in 1 .. L : history'[n] = history[n]
            /\ history'[L + 1] = Written(p)
            /\ L > 0 => Current = history[L]
      BY <2>2, <3>L, HistoryGrows
    <3>2. PICK w : w = Written(p)
      OBVIOUS
    <3>3. Current.decisions \subseteq w.decisions
      BY <3>1, <3>2 DEF Payload
    <3>4. ASSUME L > 0, Current.batch # None, w.batch # None
          PROVE  Current.batch.done <= w.batch.done
      <4>0. Current \in Revision /\ L \in 0 .. Len(history) /\ Current = At(L)
        BY <3>L, <3>1, RevisionsTyped DEF MappingInv, Current
      <4>1. shape = "batches"
        BY <3>4, <4>0, RevisionFacts
      <4>2. PutsPlanned(p, intent[p], At(base[p]), Current, w)
        BY <3>L, <3>1, <3>2, <4>1 DEF PutsPlanned
      <4>3. Rank(Current) <= Rank(w) /\ w \in Revision
        BY <3>L, <3>4, <4>2, PlannedRevision
      <4>4. Current.batch.done \in Nat /\ w.batch.done \in Nat
        BY <3>4, <4>0, <4>3 DEF Revision, BatchStates
      <4>5. /\ Rank(Current) >= 3 * Current.batch.done
            /\ Rank(w) <= 3 * w.batch.done + 2
            /\ Rank(Current) \in Int /\ Rank(w) \in Int
        BY <3>4, <4>4 DEF Rank
      <4> QED BY <4>3, <4>4, <4>5
    <3>5. ASSUME NEW n \in 2 .. L + 1
          PROVE  /\ history'[n - 1].decisions \subseteq history'[n].decisions
                 /\ (history'[n - 1].batch # None /\ history'[n].batch # None) =>
                       history'[n - 1].batch.done <= history'[n].batch.done
      <4>1. CASE n \in 2 .. L
        <5>1. n - 1 \in 1 .. L /\ n \in 1 .. L
          BY <3>1, <4>1
        <5>2. history'[n - 1] = history[n - 1] /\ history'[n] = history[n]
          BY <3>1, <5>1
        <5> QED BY <3>L, <4>1, <5>2 DEF NothingIsForgotten
      <4>2. CASE n = L + 1
        <5>1. n - 1 = L /\ L > 0 /\ L \in 1 .. L
          BY <3>1, <4>2
        <5>2. history'[n - 1] = Current /\ history'[n] = w
          BY <3>1, <3>2, <4>2, <5>1
        <5> QED BY <3>3, <3>4, <5>1, <5>2
      <4> QED BY <3>1, <4>1, <4>2
    <3> QED BY <3>1, <3>5 DEF NothingIsForgotten
  <2> QED BY <2>1, <2>2
<1> QED BY <1>1, <1>2, MappingAlwaysAgrees, PTL DEF Spec

\* A complete plan is put together from a revision with every batch done.
PutTogetherLast ==
    \A n \in 1 .. Len(history) :
        (shape = "batches" /\ history[n].status = "COMPLETE") =>
            /\ n > 1
            /\ history[n - 1].batch # None
            /\ history[n - 1].batch.done = NBatches

\* A turn that puts the outcomes together finds every batch sent.
LEMMA CompleteAfterAll ==
  ASSUME NEW p \in Procs, NEW i, NEW s, NEW r, NEW w, PutsPlanned(p, i, s, r, w),
         w.status = "COMPLETE"
  PROVE  Len(history) > 0 /\ r.batch # None /\ r.batch.done = NBatches
<1>f. /\ s \in Revision /\ r \in Revision
      /\ IF Len(history) = 0 THEN r = Unborn ELSE RevisionInv(r)
      /\ base[p] > 0 => Rank(s) <= Rank(r)
      /\ base[p] \in 0 .. Len(history) /\ Len(history) \in Nat
  BY PutsPlannedFacts
<1>1. i.op # "batch"
  BY BatchWritten DEF SavesBatch
<1>2. /\ Len(history) > 0 /\ base[p] > 0 /\ AcceptsOutcome(i, r) /\ i.prompt = r.prompt
      /\ s.batch # None /\ s.batch.done = NBatches
  BY <1>1, OtherWritten
<1>3. r.batch # None
  BY <1>f, <1>2 DEF AcceptsOutcome, RevisionInv, Statuses, Final
<1>4. r.batch.done \in 0 .. NBatches
  BY <1>f, <1>3 DEF Revision, BatchStates
<1>5. Rank(s) >= 3 * NBatches /\ Rank(r) <= 3 * r.batch.done + 2 /\ Rank(s) \in Int /\ Rank(r) \in Int
  BY <1>2, <1>3, <1>4 DEF Rank
<1> QED BY <1>f, <1>2, <1>3, <1>4, <1>5

\* No step changes what the model makes of the documents of the case.
LEMMA ShapeKept == [Next]_vars => shape' = shape
<1> SUFFICES ASSUME [Next]_vars PROVE shape' = shape
  OBVIOUS
<1>1. ASSUME NEW p \in Procs, Begin(p) PROVE shape' = shape
  BY <1>1 DEF Begin, BeginMapping, BeginRetry, BeginRetire, BeginResume, BeginAnswer, world
<1>2. ASSUME NEW p \in Procs, MapStep(p) PROVE shape' = shape
  BY <1>2 DEF MapStep, Retry, MapPlanned, MapNothing, MapTooLarge, Map, TakePrompt,
     PromptUnavailable, ProviderFails, Invalid, Answered, AsksCurrency, Replay, world
<1>3. ASSUME NEW p \in Procs, BatchStep(p) PROVE shape' = shape
  BY <1>3 DEF BatchStep, Plan, ResumeUnsafe, ResumeWaits, Resume, ResumeLater, Send,
     BatchStopped, BatchAsksCurrency, BatchDone, ReplayBatch, ReplayInvalid, world
<1>4. ASSUME NEW p \in Procs, SaveStep(p) \/ Die(p) PROVE shape' = shape
  BY <1>4 DEF SaveStep, SaveReads, SaveRefused, Put, PutAgain, PutConflicts, Die, world
<1>5. CASE RevisePrompt \/ RestorePrompt \/ UNCHANGED vars
  BY <1>5 DEF RevisePrompt, RestorePrompt, vars, world
<1> QED BY <1>1, <1>2, <1>3, <1>4, <1>5 DEF Next, Advance

\* A complete plan was earned: every batch was sent, and done, before
\* _run_batch_plan put the outcomes together.
THEOREM CompleteIsAlwaysEarned == Spec => []CompleteIsEarned
<1>1. Init => PutTogetherLast
  BY DEF Init, PutTogetherLast
<1>2. MappingInv /\ PutTogetherLast /\ [Next]_vars => PutTogetherLast'
  <2> SUFFICES ASSUME MappingInv, PutTogetherLast, [Next]_vars
               PROVE  PutTogetherLast'
    OBVIOUS
  <2>0. shape' = shape
    BY ShapeKept
  <2>1. CASE history' = history
    BY <2>0, <2>1 DEF PutTogetherLast
  <2>2. CASE history' # history
    <3>L. PICK L : L = Len(history)
      OBVIOUS
    <3>1. PICK p \in Procs :
            /\ pc[p] = "put" /\ prior[p] = L
            /\ Len(history)' = L + 1 /\ L \in Nat
            /\ \A n \in 1 .. L : history'[n] = history[n]
            /\ history'[L + 1] = Written(p)
            /\ L > 0 => Current = history[L]
      BY <2>2, <3>L, HistoryGrows
    <3>2. PICK w : w = Written(p)
      OBVIOUS
    <3>3. (shape = "batches" /\ w.status = "COMPLETE") =>
             L > 0 /\ Current.batch # None /\ Current.batch.done = NBatches
      <4>1. shape = "batches" => PutsPlanned(p, intent[p], At(base[p]), Current, w)
        BY <3>L, <3>1, <3>2 DEF PutsPlanned
      <4> QED BY <3>L, <4>1, CompleteAfterAll
    <3>4. ASSUME NEW n \in 1 .. L + 1, shape = "batches", history'[n].status = "COMPLETE"
          PROVE  n > 1 /\ history'[n - 1].batch # None /\ history'[n - 1].batch.done = NBatches
      <4>1. CASE n \in 1 .. L
        <5>1. history'[n] = history[n]
          BY <3>1, <4>1
        <5>2. n > 1 /\ history[n - 1].batch # None /\ history[n - 1].batch.done = NBatches
          BY <3>L, <3>4, <4>1, <5>1 DEF PutTogetherLast
        <5>3. history'[n - 1] = history[n - 1]
          BY <3>1, <4>1, <5>2
        <5> QED BY <5>2, <5>3
      <4>2. CASE n = L + 1
        <5>1. history'[n] = w
          BY <3>1, <3>2, <4>2
        <5>2. L > 0 /\ Current.batch # None /\ Current.batch.done = NBatches
          BY <3>3, <3>4, <5>1
        <5>3. n - 1 = L /\ history'[n - 1] = Current /\ n > 1
          BY <3>1, <4>2, <5>2
        <5> QED BY <5>2, <5>3
      <4> QED BY <3>1, <4>1, <4>2
    <3> QED BY <2>0, <3>1, <3>4 DEF PutTogetherLast
  <2> QED BY <2>1, <2>2
<1>3. MappingInv /\ PutTogetherLast => CompleteIsEarned
  <2> SUFFICES ASSUME MappingInv, PutTogetherLast, NEW n \in 1 .. Len(history),
                      shape = "batches", history[n].status = "COMPLETE"
               PROVE  /\ n > 1 /\ history[n - 1].batch # None
                      /\ history[n - 1].batch.done = NBatches
                      /\ \A b \in 1 .. NBatches : sent[b] = 1
    BY DEF CompleteIsEarned
  <2>1. /\ n > 1 /\ history[n - 1].batch # None
        /\ history[n - 1].batch.done = NBatches
    BY DEF PutTogetherLast
  <2>2. Len(history) \in Nat
    BY RevisionsTyped DEF MappingInv
  <2>3. n - 1 \in 1 .. Len(history)
    BY <2>1, <2>2
  <2>4. Rank(history[n - 1]) >= 3 * NBatches /\ Rank(history[n - 1]) \in Int
    BY <2>1 DEF Rank
  <2>5. \A b \in 1 .. NBatches : Rank(history[n - 1]) >= 3 * b - 1
    BY <2>4
  <2>6. \A b \in 1 .. NBatches : sent[b] = 1
    BY <2>1, <2>3, <2>5 DEF MappingInv, PlanInv
  <2> QED BY <2>1, <2>6
<1> QED BY <1>1, <1>2, <1>3, MappingAlwaysAgrees, PTL DEF Spec

\* A settled case is reopened only by the late failure of a single request,
\* never for a planned document and never after COMPLETE.
THEOREM SettledStaysSettled == Spec => ReopenedByLateFailureOnly
<1>1. ASSUME MappingInv, [Next]_vars, Current.status \in Final, Current'.status \notin Final
      PROVE  /\ shape = "one" /\ Current.status # "COMPLETE"
             /\ Current'.status \in Failures
  <2>1. history' # history
    BY <1>1 DEF Current, At
  <2>2. PICK p \in Procs :
           /\ pc[p] = "put" /\ prior[p] = Len(history) /\ Accepts(intent[p], Current)
           /\ Current' = Written(p)
    BY <1>1, <2>1, HistoryGrows
  <2>3. PICK i, w : i = intent[p] /\ w = Written(p)
    OBVIOUS
  <2>4. i.op = "terminal" /\ Current.status # "COMPLETE"
    BY <1>1, <2>2, <2>3 DEF Accepts, AcceptsOutcome, AcceptsBatch, Final, Statuses
  <2>5. shape # "batches"
    <3> SUFFICES ASSUME shape = "batches" PROVE FALSE
      OBVIOUS
    <3>1. PutsPlanned(p, i, At(base[p]), Current, w)
      BY <1>1, <2>2, <2>3 DEF PutsPlanned
    <3>2. w.status = "SOURCE_CONTEXT_LIMIT"
      BY <2>4, <3>1, OtherWritten
    <3> QED BY <1>1, <2>2, <2>3, <3>2 DEF Final
  <2>6. PlainTurn(pc[p], i) /\ w.status = i.status /\ (shape # "one" => w.status \in Final)
    BY <1>1, <2>2, <2>3, <2>5, PlainWritten DEF MappingInv
  <2>7. i.status \in Final \cup Failures
    BY <2>2, <2>4, <2>6 DEF PlainTurn
  <2> QED BY <1>1, <2>2, <2>3, <2>4, <2>6, <2>7
<1> QED BY <1>1, MappingAlwaysAgrees, PTL DEF Spec, ReopenedByLateFailureOnly

-----------------------------------------------------------------------------
(* The ledger.  Beyond MappingInv it rests on what becomes of a currency       *)
(* between the question and the batch it completes.                            *)

\* Some revision asked for the currency: of that batch, or of the document.
WasAsked(d) ==
    IF shape = "batches" THEN d[1] \in 1 .. NBatches /\ AskedSomewhere(d[1])
    ELSE d[1] = 0

\* A turn that asserts was asked; one that replays goes by a revision with the
\* currency it was given, and so does one that completes a pending batch.
KnowsCurrency(point, n, i) ==
    /\ point \in {"save", "put"} =>
          /\ i.op \in {"assert", "again"} => WasAsked(i.decision) /\ i.status = "MAPPING_REQUIRED"
          /\ i.op = "terminal" => i.status # "COMPLETE"
          /\ (i.then = "resume" /\ At(n).batch # None /\ At(n).batch.pending) =>
                \E c \in Currencies : <<At(n).batch.done + 1, c>> \in At(n).decisions
    /\ (point = "replay" /\ shape = "batches") => i.decision \in At(n).decisions

LedgerInv ==
    /\ \A m, n \in 1 .. Len(history) :
          m <= n => history[m].decisions \subseteq history[n].decisions
    /\ \A p \in Procs : KnowsCurrency(pc[p], base[p], intent[p])

\* What was there to be read stays.
LEMMA HistoryKept ==
  ASSUME MappingInv, [Next]_vars
  PROVE  /\ Len(history) \in Nat /\ Len(history)' \in Nat /\ Len(history) <= Len(history)'
         /\ \A n \in 1 .. Len(history) : history'[n] = history[n]
         /\ \A n \in 0 .. Len(history) : At(n)' = At(n)
         /\ \A b : AskedSomewhere(b) => AskedSomewhere(b)'
         /\ \A d : WasAsked(d) => WasAsked(d)'
<1>t. TypeOK /\ Len(history) \in Nat /\ shape' = shape
  BY RevisionsTyped, ShapeKept DEF MappingInv
<1>1. /\ Len(history)' \in Nat /\ Len(history) <= Len(history)'
      /\ \A n \in 1 .. Len(history) : history'[n] = history[n]
  <2>1. CASE history' = history
    BY <1>t, <2>1
  <2>2. CASE history' # history
    <3>1. /\ Len(history)' = Len(history) + 1
          /\ \A n \in 1 .. Len(history) : history'[n] = history[n]
      BY <2>2, HistoryGrows
    <3> QED BY <1>t, <3>1
  <2> QED BY <2>1, <2>2
<1>2. \A n \in 0 .. Len(history) : At(n)' = At(n)
  <2>1. \A n \in 0 .. Len(history) : n = 0 \/ n \in 1 .. Len(history)
    BY <1>t
  <2> QED BY <1>1, <2>1 DEF At
<1>3. \A b : AskedSomewhere(b) => AskedSomewhere(b)'
  <2> SUFFICES ASSUME NEW b, AskedSomewhere(b) PROVE AskedSomewhere(b)'
    OBVIOUS
  <2>1. PICK n \in 1 .. Len(history) : /\ history[n].batch # None
                                       /\ history[n].batch.pending
                                       /\ history[n].batch.done = b - 1
    BY DEF AskedSomewhere
  <2>2. n \in 1 .. Len(history)' /\ history'[n] = history[n]
    BY <1>t, <1>1
  <2> QED BY <2>1, <2>2 DEF AskedSomewhere
<1>4. \A d : WasAsked(d) => WasAsked(d)'
  BY <1>t, <1>3 DEF WasAsked
<1> QED BY <1>t, <1>1, <1>2, <1>3, <1>4

\* The decisions of a case accumulate.
LEMMA DecisionsAccumulate ==
  ASSUME MappingInv, LedgerInv, [Next]_vars
  PROVE  (\A m, n \in 1 .. Len(history) :
            m <= n => history[m].decisions \subseteq history[n].decisions)'
<1>L. PICK L : L = Len(history)
  OBVIOUS
<1>1. CASE history' = history
  BY <1>1 DEF LedgerInv
<1>2. CASE history' # history
  <2>1. PICK w : /\ Current.decisions \subseteq w.decisions
                 /\ Len(history)' = L + 1 /\ L \in Nat
                 /\ \A n \in 1 .. L : history'[n] = history[n]
                 /\ history'[L + 1] = w
                 /\ L > 0 => Current = history[L]
    <3>1. PICK p \in Procs :
            /\ Written(p) = Payload(intent[p], Current)
            /\ Len(history)' = L + 1 /\ L \in Nat
            /\ \A n \in 1 .. L : history'[n] = history[n]
            /\ history'[L + 1] = Written(p)
            /\ L > 0 => Current = history[L]
      BY <1>2, <1>L, HistoryGrows
    <3>2. Current.decisions \subseteq Written(p).decisions
      BY <3>1 DEF Payload
    <3> QED BY <3>1, <3>2
  <2>2. ASSUME NEW m \in 1 .. L + 1, NEW n \in 1 .. L + 1, m <= n
        PROVE  history'[m].decisions \subseteq history'[n].decisions
    <3>1. CASE m = L + 1
      <4>1. n = m
        BY <2>1, <2>2, <3>1
      <4> QED BY <4>1
    <3>2. CASE m \in 1 .. L /\ n \in 1 .. L
      BY <1>L, <2>1, <2>2, <3>2 DEF LedgerInv
    <3>3. CASE m \in 1 .. L /\ n = L + 1
      <4>1. L \in 1 .. L /\ m <= L
        BY <2>1, <3>3
      <4>2. history[m].decisions \subseteq history[L].decisions
        BY <1>L, <3>3, <4>1 DEF LedgerInv
      <4>3. history'[m] = history[m] /\ Current = history[L] /\ history'[n] = w
        BY <2>1, <3>3, <4>1
      <4> QED BY <2>1, <4>2, <4>3
    <3> QED BY <2>1, <3>1, <3>2, <3>3
  <2> QED BY <1>L, <2>1, <2>2
<1> QED BY <1>1, <1>2

\* A step that is about no currency.
Harmless(point, i) ==
    /\ point # "replay"
    /\ point \in {"save", "put"} =>
          /\ i.op \in {"outcome", "batch", "terminal"}
          /\ i.then # "resume"
          /\ i.op = "terminal" => i.status # "COMPLETE"

\* What the saves say, whatever they are asked to save.
LEMMA SaveFields ==
  ASSUME NEW status, NEW snapshot, NEW b, NEW then
  PROVE  /\ status # "COMPLETE" => Harmless("save", Terminal(status, snapshot))
         /\ Harmless("save", Outcome(status, snapshot))
         /\ then # "resume" => Harmless("save", BatchState(status, snapshot, b, then))
         /\ BatchState(status, snapshot, b, then).op = "batch"
         /\ BatchState(status, snapshot, b, then).then = then
<1>1. /\ Terminal(status, snapshot).op = "terminal" /\ Terminal(status, snapshot).then = "idle"
      /\ Terminal(status, snapshot).status = status
  BY DEF Terminal, NoIntent
<1>2. Outcome(status, snapshot).op = "outcome" /\ Outcome(status, snapshot).then \in {"idle", "retire"}
  BY DEF Outcome, NoIntent
<1>3. BatchState(status, snapshot, b, then).op = "batch" /\ BatchState(status, snapshot, b, then).then = then
  BY DEF BatchState, NoIntent
<1> QED BY <1>1, <1>2, <1>3 DEF Harmless

\* Where a turn goes, and nobody else.
LEMMA TurnGoes ==
  ASSUME TypeOK, NEW p \in Procs, NEW point, NEW n, NEW i, Goes(p, point, n, i)
  PROVE  /\ pc'[p] = point /\ base'[p] = n /\ intent'[p] = i
         /\ \A q \in Procs : q # p =>
               pc'[q] = pc[q] /\ base'[q] = base[q] /\ intent'[q] = intent[q]
  BY DEF TypeOK, Goes

\* What is known of a currency is not forgotten, and what is harmless needs none.
LEMMA KnowsStill ==
  ASSUME MappingInv, [Next]_vars, NEW point, NEW n \in 0 .. Len(history), NEW i
  PROVE  /\ KnowsCurrency(point, n, i) => KnowsCurrency(point, n, i)'
         /\ Harmless(point, i) => KnowsCurrency(point, n, i)'
<1>1. /\ At(n)' = At(n) /\ shape' = shape
      /\ WasAsked(i.decision) => WasAsked(i.decision)'
  BY HistoryKept, ShapeKept
<1>2. KnowsCurrency(point, n, i) => KnowsCurrency(point, n, i)'
  BY <1>1 DEF KnowsCurrency
<1>3. Harmless(point, i) => KnowsCurrency(point, n, i)'
  BY DEF KnowsCurrency, Harmless
<1> QED BY <1>2, <1>3

\* Nor does it matter there which revision a turn goes by.
LEMMA HarmlessKnows ==
  ASSUME NEW point, NEW n, NEW i, Harmless(point, i)
  PROVE  KnowsCurrency(point, n, i)'
  BY DEF KnowsCurrency, Harmless

\* Most steps of a turn are of that kind.
LEMMA HarmlessTurns ==
  ASSUME NEW p \in Procs,
         \/ BeginMapping(p) \/ BeginRetry(p) \/ BeginRetire(p) \/ BeginResume(p)
         \/ MapStep(p) \/ (BatchStep(p) /\ ~BatchDone(p) /\ ~ReplayBatch(p))
         \/ SaveRefused(p) \/ PutConflicts(p) \/ Die(p)
  PROVE  \E point, n, i : Goes(p, point, n, i) /\ Harmless(point, i)
<1>1. ASSUME NEW point \in {"idle", "map", "retry", "resume", "prompt", "plan", "answer", "call"},
             NEW n, NEW i, Goes(p, point, n, i)
      PROVE  \E x, y, z : Goes(p, x, y, z) /\ Harmless(x, z)
  BY <1>1 DEF Harmless
<1>2. ASSUME NEW n, NEW i, Saves(p, n, i), Harmless("save", i)
      PROVE  \E x, y, z : Goes(p, x, y, z) /\ Harmless(x, z)
  BY <1>2 DEF Saves
<1>3. CASE BeginMapping(p) \/ BeginRetry(p) \/ BeginResume(p) \/ Map(p) \/ TakePrompt(p)
           \/ ResumeWaits(p) \/ Send(p) \/ SaveRefused(p) \/ PutConflicts(p) \/ Die(p)
  BY <1>1, <1>3 DEF BeginMapping, BeginRetry, BeginResume, Map, TakePrompt, ResumeWaits, Send,
     SaveRefused, PutConflicts, Die, Ends
<1>4. CASE Retry(p) \/ Plan(p)
  BY <1>1, <1>2, <1>4, SaveFields DEF Retry, Plan, Ends
<1>5. CASE BeginRetire(p) \/ MapPlanned(p) \/ MapNothing(p) \/ MapTooLarge(p) \/ PromptUnavailable(p)
           \/ ProviderFails(p) \/ Invalid(p) \/ Answered(p) \/ AsksCurrency(p) \/ Replay(p)
  <2>1. \E n, status, snapshot :
           \/ status # "COMPLETE" /\ Saves(p, n, Terminal(status, snapshot))
           \/ Saves(p, n, Outcome(status, snapshot))
    BY <1>5 DEF BeginRetire, MapPlanned, MapNothing, MapTooLarge, PromptUnavailable,
       ProviderFails, Invalid, Answered, AsksCurrency, Replay
  <2> QED BY <1>2, <2>1, SaveFields
<1>6. CASE ResumeUnsafe(p) \/ Resume(p) \/ ResumeLater(p) \/ BatchStopped(p)
           \/ BatchAsksCurrency(p) \/ ReplayInvalid(p)
  <2>1. \E n, status, snapshot, b, then :
           \/ then # "resume" /\ Saves(p, n, BatchState(status, snapshot, b, then))
           \/ Saves(p, n, Outcome(status, snapshot))
    <3>1. CASE Resume(p)
      BY <3>1 DEF Resume, ClaimNext, PutsTogether, Claims
    <3>2. CASE ~Resume(p)
      BY <1>6, <3>2 DEF ResumeUnsafe, ResumeLater, BatchStopped, BatchAsksCurrency, ReplayInvalid
    <3> QED BY <3>1, <3>2
  <2> QED BY <1>2, <2>1, SaveFields
<1> QED BY <1>3, <1>4, <1>5, <1>6 DEF MapStep, BatchStep

\* A turn that takes a currency was asked for it.
LEMMA AnswerKnows ==
  ASSUME MappingInv, NEW p \in Procs, NEW c \in Currencies, BeginAnswer(p, c)
  PROVE  \E point, i : /\ Goes(p, point, Len(history), i)
                       /\ KnowsCurrency(point, Len(history), i)
<1>L. PICK L : L = Len(history)
  OBVIOUS
<1>d. PICK decision : decision = <<Scope, c>>
  OBVIOUS
<1>t. /\ TypeOK /\ L \in 0 .. Len(history) /\ L \in Nat /\ Current = At(L) /\ Current \in Revision
      /\ L > 0 => Current = history[L]
  BY <1>L, RevisionsTyped DEF MappingInv, Current
<1>f. /\ L = 0 => Current = Unborn
      /\ (L > 0 /\ shape = "batches") => RevisionInv(Current)
      /\ shape # "batches" => Current.batch = None
  BY <1>t, RevisionFacts
<1>1. L > 0 /\ (Current.batch = None => Current.status = "CURRENCY_ASSERTION_REQUIRED")
            /\ (Current.batch # None => Current.batch.pending)
  BY <1>t, <1>f DEF BeginAnswer, AsksForCurrency, Unborn, Statuses
<1>2. WasAsked(decision)
  <2>1. CASE shape = "batches"
    <3>1. Current.batch # None /\ Current.batch.pending
      BY <1>f, <1>1, <2>1 DEF RevisionInv
    <3>2. /\ Current.batch.done \in Nat /\ Current.batch.done < NBatches
      BY <1>t, <1>f, <1>1, <2>1, <3>1 DEF Revision, BatchStates, RevisionInv, IsIdle
    <3>3. decision[1] = Current.batch.done + 1
      BY <1>d, <3>1 DEF Scope
    <3>4. AskedSomewhere(decision[1])
      <4>1. L \in 1 .. Len(history) /\ Current.batch.done = decision[1] - 1
        BY <1>t, <1>1, <3>2, <3>3
      <4> QED BY <1>t, <1>1, <3>1, <4>1 DEF AskedSomewhere
    <3>5. decision[1] \in 1 .. NBatches
      BY <3>2, <3>3
    <3> QED BY <2>1, <3>4, <3>5 DEF WasAsked
  <2>2. CASE shape # "batches"
    BY <1>d, <1>f, <2>2 DEF WasAsked, Scope
  <2> QED BY <2>1, <2>2
<1>3. ASSUME NEW op \in {"assert", "again"}, Saves(p, L, Currency(op, decision))
      PROVE  \E point, i : Goes(p, point, L, i) /\ KnowsCurrency(point, L, i)
  <2>1. PICK i : i = Currency(op, decision)
    OBVIOUS
  <2>2. i.op = op /\ i.status = "MAPPING_REQUIRED" /\ i.decision = decision /\ i.then = "replay"
    BY <2>1 DEF Currency, NoIntent
  <2>3. KnowsCurrency("save", L, i)
    BY <1>2, <2>2 DEF KnowsCurrency
  <2> QED BY <1>3, <2>1, <2>3 DEF Saves
<1>4. ASSUME Asserted # {}, Goes(p, "replay", L, Currency("none", decision))
      PROVE  \E point, i : Goes(p, point, L, i) /\ KnowsCurrency(point, L, i)
  <2>1. decision \in At(L).decisions
    BY <1>d, <1>t, <1>4 DEF BeginAnswer, Asserted
  <2>2. Currency("none", decision).decision = decision
    BY DEF Currency, NoIntent
  <2> QED BY <1>4, <2>1, <2>2 DEF KnowsCurrency
<1> QED BY <1>L, <1>d, <1>3, <1>4 DEF BeginAnswer

\* A turn that completes a batch waits for its answer, or has the currency.
LEMMA CompletionKnows ==
  ASSUME MappingInv, LedgerInv, NEW p \in Procs, BatchDone(p) \/ ReplayBatch(p)
  PROVE  \E i : Goes(p, "save", base[p], i) /\ KnowsCurrency("save", base[p], i)
<1>d. PICK r, i : /\ r = At(base[p])
                  /\ i = BatchState("MAPPING_REQUIRED", r.prompt, Completed(r.batch), "resume")
  OBVIOUS
<1>t. /\ TypeOK /\ base[p] \in 0 .. Len(history) /\ r \in Revision
  BY <1>d, RevisionsTyped DEF MappingInv, TypeOK
<1>1. r.batch # None /\ Goes(p, "save", base[p], i) /\ i.op = "batch" /\ i.then = "resume"
  BY <1>d, SaveFields DEF BatchDone, ReplayBatch, WaitsForBatch, Saves
<1>2. shape = "batches" /\ base[p] > 0 /\ RevisionInv(r)
  BY <1>d, <1>t, <1>1, RevisionFacts DEF Unborn
<1>3. CASE BatchDone(p)
  <2>1. WasSent(p, base[p])
    BY <1>2, <1>3 DEF BatchDone, WaitsForBatch, MappingInv, PlannedTurn
  <2>2. ~r.batch.pending
    BY <1>d, <1>2, <2>1 DEF WasSent, HasClaim, IsClaim, RevisionInv
  <2> QED BY <1>d, <1>1, <2>2 DEF KnowsCurrency
<1>4. CASE ReplayBatch(p)
  <2>1. /\ intent[p].decision \in r.decisions
        /\ intent[p].decision[1] = r.batch.done + 1
    BY <1>d, <1>2, <1>4 DEF ReplayBatch, LedgerInv, KnowsCurrency
  <2>2. intent[p].decision \in (0 .. NBatches) \X Currencies
    BY <1>t, <2>1 DEF Revision, Assertions
  <2>3. PICK c \in Currencies : intent[p].decision = <<r.batch.done + 1, c>>
    BY <2>1, <2>2
  <2>4. \E x \in Currencies : <<r.batch.done + 1, x>> \in r.decisions
    BY <2>1, <2>3
  <2> QED BY <1>d, <1>1, <2>4 DEF KnowsCurrency
<1> QED BY <1>1, <1>3, <1>4

\* So does a turn that goes on after its save.
LEMMA PutKnows ==
  ASSUME MappingInv, LedgerInv, [Next]_vars, NEW p \in Procs, Put(p) \/ PutAgain(p)
  PROVE  \E point, n, i : /\ Goes(p, point, n, i)
                          /\ KnowsCurrency(point, n, i)'
<1>d. PICK n, i, r, w : /\ n = prior[p] + 1 /\ i = intent[p]
                        /\ r = At(prior[p]) /\ w = Payload(i, r)
  OBVIOUS
<1>1. /\ TypeOK /\ pc[p] = "put" /\ Continues(p) /\ Accepts(i, r) /\ shape' = shape /\ w = Written(p)
  BY <1>d, ShapeKept DEF Put, PutAgain, MappingInv, Written
<1>2. At(n)' = w
  <2>0. prior[p] \in 0 .. Len(history) /\ Len(history) \in Nat
    BY <1>1, RevisionsTyped DEF TypeOK
  <2>1. CASE Put(p)
    <3>1. history' # history /\ prior[p] = Len(history) /\ history' = Append(history, w)
      <4>1. history' = Append(history, w) /\ prior[p] = Len(history)
        BY <1>1, <2>1 DEF Put
      <4>2. history \in Seq(Revision)
        BY <1>1 DEF TypeOK
      <4> QED BY <4>1, <4>2
    <3>2. Len(history)' = Len(history) + 1 /\ history'[Len(history) + 1] = w
      <4>1. history \in Seq(Revision)
        BY <1>1 DEF TypeOK
      <4> QED BY <3>1, <4>1
    <3>3. n = Len(history) + 1 /\ n # 0
      BY <1>d, <2>0, <3>1
    <3> QED BY <3>2, <3>3 DEF At
  <2>2. CASE PutAgain(p)
    <3>1. history' = history /\ history[n] = w /\ n # 0
      BY <1>d, <1>1, <2>0, <2>2 DEF PutAgain, world
    <3> QED BY <3>1 DEF At
  <2> QED BY <2>1, <2>2
<1>3. /\ shape = "batches" => Plans(p, base[p], i)
      /\ shape # "batches" => PlainTurn(pc[p], i)
  BY <1>d, <1>1 DEF MappingInv, PlannedTurn
<1>4. i.then \in {"idle", "retire", "claim", "call", "resume", "replay"}
  BY <1>1, <1>3 DEF Plans, SavesBatch, PlainTurn
<1>5. CASE i.then = "idle"
  <2>1. Goes(p, "idle", 0, NoIntent) /\ Harmless("idle", NoIntent)
    BY <1>d, <1>1, <1>5 DEF Continues, Ends, Harmless
  <2> QED BY <2>1, HarmlessKnows
<1>6. CASE i.then = "retire"
  <2>1. PICK j : j = Terminal("SPECIALIST_REVIEW_REQUIRED", None)
    OBVIOUS
  <2>2. Goes(p, "save", n, j) /\ Harmless("save", j)
    BY <1>d, <1>1, <1>6, <2>1, SaveFields DEF Continues, Saves
  <2> QED BY <2>2, HarmlessKnows
<1>7. CASE i.then = "claim"
  <2>1. PICK j : \/ /\ j = BatchState("MAPPING_REQUIRED", w.prompt, Claimed(w.batch, p), "call")
                    /\ Claims(p, n, w)
                 \/ /\ j = BatchState("MAPPING_OUTPUT_INVALID", w.prompt, w.batch, "idle")
                    /\ GivesUp(p, n, w)
    BY <1>d, <1>1, <1>7 DEF Continues
  <2>2. Goes(p, "save", n, j) /\ Harmless("save", j)
    BY <1>d, <1>1, <2>1, SaveFields DEF Claims, GivesUp, Saves
  <2> QED BY <2>2, HarmlessKnows
<1>8. CASE i.then \in {"call", "resume"}
  <2>1. Goes(p, i.then, n, i) /\ Harmless(i.then, i)
    BY <1>d, <1>1, <1>8 DEF Continues, Harmless
  <2>2. PICK point : point = i.then
    OBVIOUS
  <2> QED BY <2>1, <2>2, HarmlessKnows
<1>9. CASE i.then = "replay"
  <2>1. Goes(p, "replay", n, i)
    BY <1>d, <1>1, <1>9 DEF Continues
  <2>2. shape = "batches" => i.op \in {"assert", "again"}
    BY <1>3, <1>9 DEF Plans, SavesBatch
  <2>3. shape = "batches" => i.decision \in w.decisions
    BY <1>d, <1>1, <2>2 DEF Accepts, Payload
  <2> QED BY <1>1, <1>2, <2>1, <2>3 DEF KnowsCurrency
<1> QED BY <1>4, <1>5, <1>6, <1>7, <1>8, <1>9

\* Every step keeps what is known.
LEMMA LedgerInvStep ==
  ASSUME MappingInv, LedgerInv, [Next]_vars
  PROVE  LedgerInv'
<1>t. TypeOK /\ \A q \in Procs : base[q] \in 0 .. Len(history)
  BY DEF MappingInv, TypeOK
<1>l. Len(history) \in 0 .. Len(history)
  BY RevisionsTyped DEF MappingInv
<1>1. \A m, n \in 1 .. Len(history)' :
         m <= n => history'[m].decisions \subseteq history'[n].decisions
  BY DecisionsAccumulate
<1>2. ASSUME NEW q \in Procs, pc'[q] = pc[q], base'[q] = base[q], intent'[q] = intent[q]
      PROVE  KnowsCurrency(pc[q], base[q], intent[q])'
  <2>1. PICK x, n, i : x = pc[q] /\ n = base[q] /\ i = intent[q]
    OBVIOUS
  <2>2. KnowsCurrency(x, n, i)'
    BY <1>t, <2>1, KnowsStill DEF LedgerInv
  <2> QED BY <1>2, <2>1, <2>2
<1>3. ASSUME NEW p \in Procs, NEW x, NEW n, NEW i, Goes(p, x, n, i), KnowsCurrency(x, n, i)'
      PROVE  \A q \in Procs : KnowsCurrency(pc[q], base[q], intent[q])'
  <2>1. /\ pc'[p] = x /\ base'[p] = n /\ intent'[p] = i
        /\ \A q \in Procs : q # p =>
               pc'[q] = pc[q] /\ base'[q] = base[q] /\ intent'[q] = intent[q]
    BY <1>t, <1>3, TurnGoes
  <2>2. KnowsCurrency(pc[p], base[p], intent[p])'
    BY <1>3, <2>1
  <2> QED BY <1>2, <2>1, <2>2
<1>4. ASSUME NEW p \in Procs, Begin(p) \/ Advance(p) \/ Die(p)
      PROVE  \A q \in Procs : KnowsCurrency(pc[q], base[q], intent[q])'
  <2>1. ASSUME NEW c \in Currencies, BeginAnswer(p, c)
        PROVE  \A q \in Procs : KnowsCurrency(pc[q], base[q], intent[q])'
    <3>0. PICK n : n = Len(history)
      OBVIOUS
    <3>1. PICK x, i : Goes(p, x, n, i) /\ KnowsCurrency(x, n, i)
      BY <2>1, <3>0, AnswerKnows
    <3>2. KnowsCurrency(x, n, i)'
      BY <1>l, <3>0, <3>1, KnowsStill
    <3> QED BY <1>3, <3>1, <3>2
  <2>2. CASE BatchDone(p) \/ ReplayBatch(p)
    <3>0. PICK n : n = base[p]
      OBVIOUS
    <3>1. PICK i : Goes(p, "save", n, i) /\ KnowsCurrency("save", n, i)
      BY <2>2, <3>0, CompletionKnows
    <3>2. KnowsCurrency("save", n, i)'
      BY <1>t, <3>0, <3>1, KnowsStill
    <3> QED BY <1>3, <3>1, <3>2
  <2>3. CASE Put(p) \/ PutAgain(p)
    BY <1>3, <2>3, PutKnows
  <2>4. CASE SaveReads(p)
    <3>1. /\ pc[p] = "save" /\ UNCHANGED <<base, intent>>
          /\ pc'[p] = "put" /\ \A q \in Procs : q # p => pc'[q] = pc[q]
      BY <1>t, <2>4 DEF SaveReads, TypeOK
    <3>2. PICK n, i : n = base[p] /\ i = intent[p]
      OBVIOUS
    <3>3. KnowsCurrency("save", n, i)'
      BY <1>t, <3>1, <3>2, KnowsStill DEF LedgerInv
    <3>4. KnowsCurrency("put", n, i)'
      BY <3>3 DEF KnowsCurrency
    <3>5. KnowsCurrency(pc[p], base[p], intent[p])'
      BY <3>1, <3>2, <3>4
    <3> QED BY <1>2, <3>1, <3>5
  <2>5. ASSUME \/ BeginMapping(p) \/ BeginRetry(p) \/ BeginRetire(p) \/ BeginResume(p)
               \/ MapStep(p) \/ (BatchStep(p) /\ ~BatchDone(p) /\ ~ReplayBatch(p))
               \/ SaveRefused(p) \/ PutConflicts(p) \/ Die(p)
        PROVE  \A q \in Procs : KnowsCurrency(pc[q], base[q], intent[q])'
    <3>1. PICK x, n, i : Goes(p, x, n, i) /\ Harmless(x, i)
      BY <2>5, HarmlessTurns
    <3> QED BY <1>3, <3>1, HarmlessKnows
  <2> QED BY <1>4, <2>1, <2>2, <2>3, <2>4, <2>5 DEF Begin, Advance, SaveStep
<1>5. ASSUME RevisePrompt \/ RestorePrompt \/ UNCHANGED vars
      PROVE  \A q \in Procs : KnowsCurrency(pc[q], base[q], intent[q])'
  BY <1>2, <1>5 DEF RevisePrompt, RestorePrompt, vars, turn
<1>6. \A q \in Procs : KnowsCurrency(pc[q], base[q], intent[q])'
  BY <1>4, <1>5 DEF Next
<1> QED BY <1>1, <1>6 DEF LedgerInv

\* What the ledger says of the batches, of the currencies and of the case.
Work   == [b \in 1 .. NBatches |-> WorkOn(b)]
Given  == {d[1] : d \in Current.decisions}
Result == OutcomeOf(Current)

\* Read off the status of the last revision.
LEMMA Results ==
  ASSUME NEW r
  PROVE  /\ r.status = "COMPLETE" => OutcomeOf(r) = "complete"
         /\ r.status \in Final \ {"COMPLETE"} => OutcomeOf(r) = "stopped"
         /\ (r.status = "MAPPING_OUTPUT_INVALID" /\ shape = "batches") => OutcomeOf(r) = "stopped"
         /\ (/\ r.status \notin Final
             /\ r.status = "MAPPING_OUTPUT_INVALID" => shape # "batches") => OutcomeOf(r) = "open"
         /\ shape' = shape => OutcomeOf(r)' = OutcomeOf(r)
<1>1. "COMPLETE" \in Final /\ "MAPPING_OUTPUT_INVALID" \notin Final
  BY DEF Final
<1> QED BY <1>1 DEF OutcomeOf

\* What the ledger is read off.
LEMMA LedgerKept ==
  ASSUME UNCHANGED <<shape, history, sent>>
  PROVE  UNCHANGED <<shape, Work, Given, Result>>
<1>1. Current' = Current
  BY DEF Current, At
<1>2. \A b : WorkOn(b)' = WorkOn(b)
  BY DEF WorkOn, DoneSomewhere, AskedSomewhere
<1>3. Result' = Result
  BY <1>1 DEF Result, OutcomeOf
<1> QED BY <1>1, <1>2, <1>3 DEF Work, Given

\* Nothing but a put and the sending of a batch moves the ledger.
LEMMA LedgerMovers ==
  ASSUME MappingInv, [Next]_vars
  PROVE  \/ UNCHANGED <<shape, history, sent>>
         \/ \E p \in Procs : Put(p) \/ Send(p)
<1>0. shape' = shape
  BY ShapeKept
<1>1. CASE history' # history
  BY <1>1, HistoryGrows
<1>2. CASE history' = history /\ sent' # sent
  <2>1. ~UNCHANGED vars /\ ~RevisePrompt /\ ~RestorePrompt
    BY <1>2 DEF vars, world, RevisePrompt, RestorePrompt
  <2>2. \A p \in Procs : ~Begin(p) /\ ~Die(p)
    BY <1>2 DEF world, Die, Begin, BeginMapping, BeginRetry, BeginRetire, BeginResume, BeginAnswer
  <2>3. \A p \in Procs : ~MapStep(p)
    BY <1>2 DEF world, MapStep, Retry, MapPlanned, MapNothing, MapTooLarge, Map, TakePrompt,
       PromptUnavailable, ProviderFails, Invalid, Answered, AsksCurrency, Replay
  <2>4. \A p \in Procs : BatchStep(p) => Send(p)
    BY <1>2 DEF world, BatchStep, Plan, ResumeUnsafe, ResumeWaits, Resume, ResumeLater,
       BatchStopped, BatchAsksCurrency, BatchDone, ReplayBatch, ReplayInvalid
  <2>5. \A p \in Procs : ~SaveStep(p)
    BY <1>2 DEF world, SaveStep, SaveReads, SaveRefused, Put, PutAgain, PutConflicts
  <2> QED BY <2>1, <2>2, <2>3, <2>4, <2>5 DEF Next, Advance
<1> QED BY <1>0, <1>1, <1>2

-----------------------------------------------------------------------------
(* The actions of the ledger. *)

\* A batch is sent, asks, or is done.
LEMMA LedgerBatch ==
  ASSUME NEW b \in 1 .. NBatches, UNCHANGED <<shape, Given, Result>>,
         \/ /\ shape = "batches" /\ Work[b] = "new"
            /\ \A a \in 1 .. b - 1 : Work[a] = "answered"
            /\ Work' = [Work EXCEPT ![b] = "sent"]
         \/ Result = "open" /\ Work[b] = "sent" /\ Work' = [Work EXCEPT ![b] = "asked"]
         \/ /\ Result = "open"
            /\ Work[b] = "sent" \/ (Work[b] = "asked" /\ b \in Given)
            /\ Work' = [Work EXCEPT ![b] = "answered"]
  PROVE  Ledger!Next
  BY DEF Ledger!Next, Ledger!Send, Ledger!Ask, Ledger!Answer, Ledger!Becomes, Ledger!Batches,
     Work, Given, Result

\* A currency is asserted.
LEMMA LedgerAssert ==
  ASSUME NEW b \in 0 .. NBatches, UNCHANGED <<shape, Work, Result>>, Result = "open",
         IF shape = "batches" THEN b > 0 /\ Work[b] \in {"asked", "answered"}
         ELSE b = 0 /\ shape = "one",
         Given' = Given \cup {b}
  PROVE  Ledger!Next
  BY DEF Ledger!Next, Ledger!Assert, Work, Given, Result

\* The case ends, or is opened again.
LEMMA LedgerEnds ==
  ASSUME UNCHANGED <<shape, Work, Given>>,
         \/ /\ Result = "open" /\ Result' = "complete" /\ shape \in {"one", "batches"}
            /\ shape = "batches" => \A b \in 1 .. NBatches : Work[b] = "answered"
         \/ Result = "open" /\ Result' = "stopped"
         \/ Result = "stopped" /\ Result' = "open" /\ shape = "one"
  PROVE  Ledger!Next
  BY DEF Ledger!Next, Ledger!Complete, Ledger!Stop, Ledger!Reopen, Ledger!Ends, Ledger!Batches,
     Work, Given, Result

-----------------------------------------------------------------------------
(* What the last revision says of every batch. *)

\* Batches are done up to the one the last plan stands at, and only that one
\* may be waiting; what was done or waits was sent.
LEMMA WorkNow ==
  ASSUME MappingInv, shape = "batches", Len(history) > 0,
         NEW r, r = Current, r.batch # None, NEW b \in 1 .. NBatches
  PROVE  /\ r.batch.done \in 0 .. NBatches
         /\ DoneSomewhere(b) <=> b <= r.batch.done
         /\ b > r.batch.done => (AskedSomewhere(b) <=> (r.batch.pending /\ b = r.batch.done + 1))
<1>L. PICK L : L = Len(history)
  OBVIOUS
<1>d. PICK d : d = r.batch.done
  OBVIOUS
<1>1. /\ L \in Nat /\ L \in 1 .. L /\ r = history[L] /\ PlanInv
      /\ \A n \in 1 .. L : history[n] \in Revision
  BY <1>L, RevisionsTyped DEF MappingInv, Current, At, TypeOK
<1>2. r \in Revision /\ r.batch \in BatchStates /\ d \in 0 .. NBatches
      /\ r.batch.pending \in BOOLEAN
  BY <1>d, <1>1 DEF Revision, BatchStates
<1>3. Rank(r) <= 3 * d + 2 /\ (Rank(r) = 3 * d + 2 => r.batch.pending) /\ Rank(r) \in Int
  <2>1. Rank(r) = 3 * d + (IF r.batch.pending THEN 2 ELSE IF r.batch.token # None THEN 1 ELSE 0)
    BY <1>d DEF Rank
  <2> QED BY <1>2, <2>1
<1>4. ASSUME NEW n \in 1 .. L, history[n].batch # None, NEW k, k = history[n].batch.done
      PROVE  /\ k \in Nat /\ 3 * k <= Rank(r)
             /\ history[n].batch.pending => 3 * k + 2 <= Rank(r)
  <2>1. k \in Nat
    BY <1>1, <1>4 DEF Revision, BatchStates
  <2>2. Rank(history[n]) =
          3 * k + (IF history[n].batch.pending THEN 2 ELSE IF history[n].batch.token # None THEN 1 ELSE 0)
    BY <1>4 DEF Rank
  <2>3. Rank(history[n]) <= Rank(r)
    BY <1>L, <1>1 DEF PlanInv
  <2> QED BY <1>3, <2>1, <2>2, <2>3
<1>5. ASSUME DoneSomewhere(b) PROVE b <= d
  <2>1. PICK n \in 1 .. L : history[n].batch # None /\ history[n].batch.done >= b
    BY <1>L, <1>5 DEF DoneSomewhere
  <2>2. PICK k : k = history[n].batch.done
    OBVIOUS
  <2>3. k \in Nat /\ 3 * k <= Rank(r) /\ k >= b
    BY <1>4, <2>1, <2>2
  <2> QED BY <1>2, <1>3, <2>3
<1>6. b <= d => DoneSomewhere(b)
  BY <1>L, <1>d, <1>1, <1>2 DEF DoneSomewhere
<1>7. ASSUME b > d, AskedSomewhere(b)
      PROVE  r.batch.pending /\ b = d + 1
  <2>1. PICK n \in 1 .. L : /\ history[n].batch # None /\ history[n].batch.pending
                            /\ history[n].batch.done = b - 1
    BY <1>L, <1>7 DEF AskedSomewhere
  <2>2. 3 * (b - 1) + 2 <= Rank(r)
    BY <1>4, <2>1
  <2> QED BY <1>2, <1>3, <1>7, <2>2
<1>8. (r.batch.pending /\ b = d + 1) => AskedSomewhere(b)
  <2> SUFFICES ASSUME r.batch.pending, b = d + 1 PROVE AskedSomewhere(b)
    OBVIOUS
  <2>1. history[L].batch # None /\ history[L].batch.pending /\ history[L].batch.done = b - 1
    BY <1>d, <1>1, <1>2
  <2> QED BY <1>L, <1>1, <2>1 DEF AskedSomewhere
<1> QED BY <1>d, <1>2, <1>5, <1>6, <1>7, <1>8

\* One revision more says more of the batches by what it says itself.
LEMMA WorkThen ==
  ASSUME TypeOK, NEW w \in Revision, history' = Append(history, w), sent' = sent,
         NEW b
  PROVE  /\ DoneSomewhere(b)' <=> (DoneSomewhere(b) \/ (w.batch # None /\ w.batch.done >= b))
         /\ AskedSomewhere(b)' <=> \/ AskedSomewhere(b)
                                   \/ w.batch # None /\ w.batch.pending /\ w.batch.done = b - 1
         /\ sent'[b] = sent[b]
<1>L. PICK L : L = Len(history)
  OBVIOUS
<1>1. /\ Len(history)' = L + 1 /\ L \in Nat
      /\ \A n \in 1 .. L : history'[n] = history[n]
      /\ history'[L + 1] = w
      /\ \A n \in 1 .. L + 1 : n \in 1 .. L \/ n = L + 1
      /\ L + 1 \in 1 .. L + 1 /\ \A n \in 1 .. L : n \in 1 .. L + 1
  BY <1>L, Appended
<1>2. DoneSomewhere(b)' <=> (DoneSomewhere(b) \/ (w.batch # None /\ w.batch.done >= b))
  <2>1. DoneSomewhere(b)' <=>
          \E n \in 1 .. L + 1 : history'[n].batch # None /\ history'[n].batch.done >= b
    BY <1>1 DEF DoneSomewhere
  <2> QED BY <1>L, <1>1, <2>1 DEF DoneSomewhere
<1>3. AskedSomewhere(b)' <=> \/ AskedSomewhere(b)
                             \/ w.batch # None /\ w.batch.pending /\ w.batch.done = b - 1
  <2>1. AskedSomewhere(b)' <=>
          \E n \in 1 .. L + 1 : /\ history'[n].batch # None
                                /\ history'[n].batch.pending /\ history'[n].batch.done = b - 1
    BY <1>1 DEF AskedSomewhere
  <2> QED BY <1>L, <1>1, <2>1 DEF AskedSomewhere
<1> QED BY <1>2, <1>3

\* A revision without a plan says nothing of the batches, nor does a fresh plan.
LEMMA WorkUntold ==
  ASSUME TypeOK, NEW w \in Revision, history' = Append(history, w), sent' = sent,
         \/ w.batch = None
         \/ w.batch # None /\ w.batch.done = 0 /\ ~w.batch.pending
  PROVE  Work' = Work
<1>1. ASSUME NEW b \in 1 .. NBatches
      PROVE  WorkOn(b)' = WorkOn(b)
  <2>1. DoneSomewhere(b)' <=> DoneSomewhere(b)
    BY WorkThen
  <2>2. AskedSomewhere(b)' <=> AskedSomewhere(b)
    BY WorkThen
  <2> QED BY <2>1, <2>2 DEF WorkOn
<1> QED BY <1>1 DEF Work

\* Otherwise it is the batch the plan stands at that is moved, if any is.
LEMMA WorkMoves ==
  ASSUME MappingInv, shape = "batches", Len(history) > 0,
         NEW r, r = Current, r.batch # None,
         NEW w \in Revision, w.batch # None,
         history' = Append(history, w), sent' = sent,
         NEW d, d = r.batch.done
  PROVE  /\ (w.batch.done = d /\ (w.batch.pending => r.batch.pending)) => Work' = Work
         /\ (/\ w.batch.done = d /\ w.batch.pending /\ ~r.batch.pending
             /\ d + 1 \in 1 .. NBatches /\ sent[d + 1] = 1) =>
               Work[d + 1] = "sent" /\ Work' = [Work EXCEPT ![d + 1] = "asked"]
         /\ (w.batch.done = d + 1 /\ ~w.batch.pending) =>
               Work' = [Work EXCEPT ![d + 1] = "answered"]
<1>1. d \in Nat /\ TypeOK
  <2>1. d \in 0 .. NBatches
    <3>1. 1 \in 1 .. NBatches
      OBVIOUS
    <3> QED BY <3>1, WorkNow
  <2> QED BY <2>1 DEF MappingInv
<1>2. \A b \in 1 .. NBatches :
         /\ DoneSomewhere(b) <=> b <= d
         /\ b > d => (AskedSomewhere(b) <=> (r.batch.pending /\ b = d + 1))
         /\ DoneSomewhere(b)' <=> (DoneSomewhere(b) \/ w.batch.done >= b)
         /\ AskedSomewhere(b)' <=>
               (AskedSomewhere(b) \/ (w.batch.pending /\ w.batch.done = b - 1))
         /\ sent'[b] = sent[b]
  BY <1>1, WorkNow, WorkThen
<1>3. CASE w.batch.done = d /\ (w.batch.pending => r.batch.pending)
  <2>1. ASSUME NEW b \in 1 .. NBatches
        PROVE  WorkOn(b)' = WorkOn(b)
    <3>1. DoneSomewhere(b)' <=> DoneSomewhere(b)
      BY <1>1, <1>2, <1>3
    <3>2. ~DoneSomewhere(b) => (AskedSomewhere(b)' <=> AskedSomewhere(b))
      BY <1>1, <1>2, <1>3
    <3> QED BY <3>1, <3>2 DEF WorkOn
  <2> QED BY <1>1, <1>3, <2>1 DEF Work
<1>4. CASE /\ w.batch.done = d /\ w.batch.pending /\ ~r.batch.pending
           /\ d + 1 \in 1 .. NBatches /\ sent[d + 1] = 1
  <2>1. ASSUME NEW b \in 1 .. NBatches
        PROVE  WorkOn(b)' = IF b = d + 1 THEN "asked" ELSE WorkOn(b)
    <3>1. DoneSomewhere(b)' <=> DoneSomewhere(b)
      BY <1>1, <1>2, <1>4
    <3>2. CASE b = d + 1
      <4>1. ~DoneSomewhere(b)' /\ AskedSomewhere(b)'
        BY <1>1, <1>2, <1>4, <3>1, <3>2
      <4> QED BY <3>2, <4>1 DEF WorkOn
    <3>3. CASE b # d + 1
      <4>1. AskedSomewhere(b)' <=> AskedSomewhere(b)
        BY <1>1, <1>2, <1>4, <3>3
      <4> QED BY <3>1, <3>3, <4>1 DEF WorkOn
    <3> QED BY <3>2, <3>3
  <2>2. WorkOn(d + 1) = "sent"
    <3>1. ~DoneSomewhere(d + 1) /\ ~AskedSomewhere(d + 1)
      BY <1>1, <1>2, <1>4
    <3> QED BY <1>4, <3>1 DEF WorkOn
  <2> QED BY <1>4, <2>1, <2>2 DEF Work
<1>5. CASE w.batch.done = d + 1 /\ ~w.batch.pending
  <2>1. ASSUME NEW b \in 1 .. NBatches
        PROVE  WorkOn(b)' = IF b = d + 1 THEN "answered" ELSE WorkOn(b)
    <3>1. DoneSomewhere(b)' <=> (DoneSomewhere(b) \/ b = d + 1)
      BY <1>1, <1>2, <1>5
    <3>2. AskedSomewhere(b)' <=> AskedSomewhere(b)
      BY <1>1, <1>2, <1>5
    <3> QED BY <3>1, <3>2 DEF WorkOn
  <2>2. Work' = [Work EXCEPT ![d + 1] = "answered"]
    BY <2>1 DEF Work
  <2>3. ~(w.batch.done = d)
    BY <1>1, <1>5
  <2> QED BY <1>5, <2>2, <2>3
<1> QED BY <1>3, <1>4, <1>5

-----------------------------------------------------------------------------
(* Every step is a step of the ledger, or none of it. *)

\* The batch that is sent is the next one, and was not sent.
LEMMA SendLedger ==
  ASSUME MappingInv, NEW p \in Procs, Send(p)
  PROVE  Ledger!Next
<1>d. PICK n, r, d : n = base[p] /\ r = At(n) /\ d = r.batch.done
  OBVIOUS
<1>t. TypeOK /\ n \in 0 .. Len(history) /\ Len(history) \in Nat /\ r \in Revision
  BY <1>d, RevisionsTyped DEF MappingInv, TypeOK
<1>1. pc[p] = "call" /\ UNCHANGED <<shape, history>> /\ sent' = [sent EXCEPT ![d + 1] = @ + 1]
  BY <1>d DEF Send
<1>2. shape = "batches"
  BY <1>1 DEF MappingInv, PlainTurn
<1>3. PlanInv /\ HasClaim(p, n) /\ sent[d + 1] = 0
  BY <1>d, <1>1, <1>2 DEF MappingInv, PlannedTurn
<1>4. n > 0 /\ r = history[n] /\ IsClaim(r) /\ RevisionInv(r) /\ n \in 1 .. Len(history)
  BY <1>d, <1>t, <1>3 DEF HasClaim, PlanInv, At
<1>5. r.batch # None /\ d \in Nat /\ d + 1 \in 1 .. NBatches
  <2>1. r.batch \in BatchStates /\ ~IsIdle(r.batch) /\ r.batch # None
    BY <1>t, <1>4 DEF IsClaim, Revision, IsIdle
  <2>2. d \in Nat /\ d < NBatches
    BY <1>d, <1>4, <2>1 DEF RevisionInv, BatchStates
  <2> QED BY <2>1, <2>2
<1>h. \A m \in 1 .. Len(history) : history[m] \in Revision
  BY <1>t DEF TypeOK
<1>6. ASSUME NEW m \in 1 .. Len(history), history[m].batch # None, NEW k, k = history[m].batch.done
      PROVE  k <= d /\ ~(k = d /\ history[m].batch.pending)
  <2>1. history[m].batch \in BatchStates
    BY <1>h, <1>6 DEF Revision
  <2>2. k \in Nat
    BY <1>6, <2>1 DEF BatchStates
  <2>3. Rank(history[m]) =
          3 * k + (IF history[m].batch.pending THEN 2 ELSE IF history[m].batch.token # None THEN 1 ELSE 0)
    BY <1>6 DEF Rank
  <2>4. ~(Rank(history[m]) >= 3 * (d + 1) - 1)
    BY <1>3, <1>5, <1>6 DEF PlanInv
  <2> QED BY <1>5, <2>2, <2>3, <2>4
<1>7. Work[d + 1] = "new"
  <2>1. ~DoneSomewhere(d + 1)
    <3> SUFFICES ASSUME DoneSomewhere(d + 1) PROVE FALSE
      OBVIOUS
    <3>1. PICK m \in 1 .. Len(history) : history[m].batch # None /\ history[m].batch.done >= d + 1
      BY DEF DoneSomewhere
    <3>2. history[m].batch.done <= d
      BY <1>6, <3>1
    <3>3. history[m].batch \in BatchStates
      BY <1>h, <3>1 DEF Revision
    <3>4. PICK k : k = history[m].batch.done
      OBVIOUS
    <3>5. k \in Nat /\ k <= d /\ k >= d + 1
      BY <3>1, <3>2, <3>3, <3>4 DEF BatchStates
    <3> QED BY <1>5, <3>5
  <2>2. ~AskedSomewhere(d + 1)
    <3> SUFFICES ASSUME AskedSomewhere(d + 1) PROVE FALSE
      OBVIOUS
    <3>1. PICK m \in 1 .. Len(history) : /\ history[m].batch # None /\ history[m].batch.pending
                                         /\ history[m].batch.done = (d + 1) - 1
      BY DEF AskedSomewhere
    <3>2. PICK k : k = history[m].batch.done
      OBVIOUS
    <3>3. k = d
      <4>1. k = (d + 1) - 1
        BY <3>1, <3>2
      <4> QED BY <1>5, <4>1
    <3> QED BY <1>6, <3>1, <3>2, <3>3
  <2> QED BY <1>3, <1>5, <2>1, <2>2 DEF Work, WorkOn
<1>8. \A a \in 1 .. (d + 1) - 1 : Work[a] = "answered"
  <2> SUFFICES ASSUME NEW a \in 1 .. (d + 1) - 1 PROVE Work[a] = "answered"
    OBVIOUS
  <2>1. a \in 1 .. NBatches /\ d >= a
    BY <1>5
  <2>2. DoneSomewhere(a)
    BY <1>d, <1>4, <1>5, <2>1 DEF DoneSomewhere
  <2> QED BY <2>1, <2>2 DEF Work, WorkOn
<1>9. Work' = [Work EXCEPT ![d + 1] = "sent"]
  <2>1. \A b : (DoneSomewhere(b)' <=> DoneSomewhere(b)) /\ (AskedSomewhere(b)' <=> AskedSomewhere(b))
    BY <1>1 DEF DoneSomewhere, AskedSomewhere
  <2>2. ASSUME NEW b \in 1 .. NBatches
        PROVE  WorkOn(b)' = IF b = d + 1 THEN "sent" ELSE WorkOn(b)
    <3>1. CASE b = d + 1
      <4>1. sent'[d + 1] = 1
        BY <1>t, <1>1, <1>3, <1>5 DEF TypeOK
      <4>2. WorkOn(d + 1) = "new"
        BY <1>5, <1>7 DEF Work
      <4>3. ~DoneSomewhere(d + 1) /\ ~AskedSomewhere(d + 1)
        BY <4>2 DEF WorkOn
      <4> QED BY <2>1, <3>1, <4>1, <4>3 DEF WorkOn
    <3>2. CASE b # d + 1
      <4>1. sent'[b] = sent[b]
        BY <1>t, <1>1, <3>2 DEF TypeOK
      <4> QED BY <2>1, <3>2, <4>1 DEF WorkOn
    <3> QED BY <3>1, <3>2
  <2> QED BY <2>2 DEF Work
<1>10. UNCHANGED <<shape, Given, Result>>
  <2>1. Current' = Current /\ shape' = shape
    BY <1>1 DEF Current, At
  <2> QED BY <2>1 DEF Given, Result, OutcomeOf
<1>11. PICK b : b = d + 1
  OBVIOUS
<1>12. /\ b \in 1 .. NBatches /\ Work[b] = "new" /\ Work' = [Work EXCEPT ![b] = "sent"]
       /\ \A a \in 1 .. b - 1 : Work[a] = "answered"
  BY <1>5, <1>7, <1>8, <1>9, <1>11
<1> QED BY <1>2, <1>10, <1>12, LedgerBatch

\* A batch save on a plan that is there leaves its batch alone, makes it wait,
\* or completes it.
LEMMA AttemptKinds ==
  ASSUME NEW p \in Procs, NEW i, NEW s, NEW r, NEW w, PutsPlanned(p, i, s, r, w),
         i.op = "batch", Len(history) > 0, NEW d, d = r.batch.done
  PROVE  /\ d \in Nat
         /\ \/ w.batch.done = d /\ (w.batch.pending => r.batch.pending)
            \/ /\ d + 1 \in 1 .. NBatches /\ sent[d + 1] = 1
               /\ w.batch.done = d /\ w.batch.pending /\ ~r.batch.pending
               /\ w.status = "CURRENCY_ASSERTION_REQUIRED"
            \/ /\ d + 1 \in 1 .. NBatches /\ sent[d + 1] = 1
               /\ w.batch.done = d + 1 /\ ~w.batch.pending
               /\ w.status = "MAPPING_REQUIRED"
               /\ i.then = "resume" /\ base[p] > 0 /\ s.batch # None /\ s.batch.done = d
               /\ WasSent(p, base[p]) \/ s.batch.pending
<1>e. PICK e : e = s.batch.done
  OBVIOUS
<1>f. /\ s \in Revision /\ r \in Revision /\ RevisionInv(r)
      /\ base[p] \in 0 .. Len(history) /\ s = At(base[p])
      /\ base[p] > 0 => RevisionInv(s) /\ Rank(s) <= Rank(r)
      /\ w \in Revision /\ RevisionInv(w)
      /\ \A c \in 1 .. NBatches : (w.batch # None /\ Rank(w) >= 3 * c - 1) => sent[c] = 1
  BY PutsPlannedFacts, PlannedRevision DEF PutsPlanned
<1>w. /\ w.status = i.status /\ w.batch = i.batch /\ i.batch \in BatchStates
      /\ i.then = "claim" => i.batch = FreshPlan
      /\ i.then # "claim" => base[p] > 0 /\ SavesBatch(p, base[p], i) /\ s.batch # None
      /\ r.batch # None /\ AttemptIsOurs(i, r.batch)
  BY BatchWritten
<1>r. /\ r.batch \in BatchStates /\ d \in Nat /\ d <= NBatches /\ Rank(r) <= 3 * d + 2
      /\ IsIdle(r.batch) => Rank(r) = 3 * d
  <2>1. r.batch \in BatchStates
    BY <1>f, <1>w DEF Revision
  <2>2. d \in Nat /\ d <= NBatches
    BY <2>1 DEF BatchStates
  <2>3. Rank(r) = 3 * d + (IF r.batch.pending THEN 2 ELSE IF r.batch.token # None THEN 1 ELSE 0)
    BY <1>w DEF Rank
  <2> QED BY <2>1, <2>2, <2>3 DEF IsIdle
<1>s. i.then # "claim" =>
        /\ s.batch \in BatchStates /\ e \in Nat
        /\ Rank(s) = 3 * e + (IF s.batch.pending THEN 2 ELSE IF s.batch.token # None THEN 1 ELSE 0)
        /\ Rank(s) <= Rank(r) /\ Rank(s) >= 3 * e
  <2> SUFFICES ASSUME i.then # "claim"
               PROVE  /\ s.batch \in BatchStates /\ e \in Nat
                      /\ Rank(s) = 3 * e + (IF s.batch.pending THEN 2
                                            ELSE IF s.batch.token # None THEN 1 ELSE 0)
                      /\ Rank(s) <= Rank(r) /\ Rank(s) >= 3 * e
    OBVIOUS
  <2>1. s.batch \in BatchStates
    BY <1>f, <1>w DEF Revision
  <2>2. e \in Nat
    BY <1>e, <2>1 DEF BatchStates
  <2>3. Rank(s) = 3 * e + (IF s.batch.pending THEN 2 ELSE IF s.batch.token # None THEN 1 ELSE 0)
    BY <1>e, <1>w DEF Rank
  <2> QED BY <1>f, <1>w, <2>1, <2>2, <2>3
<1>k. i.then # "claim" =>
        \/ i.then = "call" /\ i.batch.done = e /\ ~i.batch.pending /\ i.batch.token # None
        \/ /\ i.then = "resume" /\ i.status = "MAPPING_REQUIRED"
           /\ i.batch.done = e + 1 /\ ~i.batch.pending
           /\ WasSent(p, base[p]) \/ s.batch.pending
        \/ /\ i.batch.done = e /\ i.batch.pending /\ i.status = "CURRENCY_ASSERTION_REQUIRED"
           /\ s.batch.token # None
        \/ i.batch = s.batch
  <2> SUFFICES ASSUME i.then # "claim"
               PROVE  \/ i.then = "call" /\ i.batch.done = e /\ ~i.batch.pending /\ i.batch.token # None
                      \/ /\ i.then = "resume" /\ i.status = "MAPPING_REQUIRED"
                         /\ i.batch.done = e + 1 /\ ~i.batch.pending
                         /\ WasSent(p, base[p]) \/ s.batch.pending
                      \/ /\ i.batch.done = e /\ i.batch.pending /\ i.status = "CURRENCY_ASSERTION_REQUIRED"
                         /\ s.batch.token # None
                      \/ i.batch = s.batch
    OBVIOUS
  <2>1. /\ Claimed(s.batch, p).done = e /\ Claimed(s.batch, p).token = p
        /\ Claimed(s.batch, p).pending = s.batch.pending
        /\ Awaiting(s.batch).done = e /\ Awaiting(s.batch).pending
        /\ Completed(s.batch).done = e + 1 /\ ~Completed(s.batch).pending
    BY <1>e, <1>s DEF Claimed, Awaiting, Completed, BatchStates
  <2>2. WasSent(p, base[p]) => s.batch.token # None
    BY <1>f DEF WasSent, HasClaim, IsClaim
  <2> QED BY <1>f, <1>w, <2>1, <2>2 DEF SavesBatch, IsIdle
<1>c. /\ Completed(r.batch).done = d + 1 /\ ~Completed(r.batch).pending
      /\ Completed(r.batch).token = None
      /\ Awaiting(r.batch).done = d /\ Awaiting(r.batch).pending
      /\ FreshPlan.done = 0 /\ ~FreshPlan.pending
  BY <1>r DEF Completed, Awaiting, FreshPlan, BatchStates
<1>u. \A c \in 1 .. NBatches : Rank(w) >= 3 * c - 1 => sent[c] = 1
  BY <1>f, <1>w
<1>1. CASE IsIdle(r.batch)
  <2>1. w.batch.done = d
    BY <1>1, <1>w DEF AttemptIsOurs
  <2>2. ~w.batch.pending
    <3>1. CASE i.then = "claim"
      BY <1>w, <1>c, <3>1
    <3>2. CASE i.then # "claim" /\ e = d
      BY <1>1, <1>w, <1>r, <1>s, <1>k, <2>1, <3>2
    <3>3. CASE i.then # "claim" /\ e # d
      BY <1>e, <1>w, <1>k, <2>1, <3>3
    <3> QED BY <3>1, <3>2, <3>3
  <2> QED BY <1>r, <2>1, <2>2
<1>2. CASE ~IsIdle(r.batch) /\ i.batch = r.batch
  BY <1>2, <1>w, <1>r
<1>3. CASE ~IsIdle(r.batch) /\ i.batch = Completed(r.batch)
  <2>1. w.batch.done = d + 1 /\ ~w.batch.pending /\ w.batch.token = None
    BY <1>3, <1>w, <1>c
  <2>2. i.then # "claim"
    BY <1>w, <1>r, <1>c, <2>1
  <2>3. i.batch # s.batch
    <3> SUFFICES ASSUME i.batch = s.batch PROVE FALSE
      OBVIOUS
    <3>1. e = d + 1
      BY <1>e, <1>w, <2>1
    <3>2. Rank(s) \in Int /\ Rank(r) \in Int
      BY <1>f DEF Rank, Revision, BatchStates
    <3>3. Rank(s) <= Rank(r) /\ Rank(s) >= 3 * e /\ Rank(r) <= 3 * d + 2 /\ d \in Nat
      BY <1>r, <1>s, <2>2
    <3>4. \A x \in Nat, m, n \in Int : ~(m <= n /\ m >= 3 * (x + 1) /\ n <= 3 * x + 2)
      OBVIOUS
    <3>5. Rank(s) >= 3 * (d + 1)
      BY <3>1, <3>3
    <3> QED BY <3>2, <3>3, <3>4, <3>5
  <2>4. /\ i.then = "resume" /\ i.status = "MAPPING_REQUIRED" /\ e + 1 = d + 1
        /\ WasSent(p, base[p]) \/ s.batch.pending
    BY <1>w, <1>k, <2>1, <2>2, <2>3
  <2>5. d + 1 \in 1 .. NBatches
    <3>1. w.batch.done <= NBatches
      BY <1>w DEF BatchStates
    <3> QED BY <1>r, <2>1, <3>1
  <2>6. sent[d + 1] = 1
    <3>1. Rank(w) = 3 * (d + 1)
      BY <1>w, <1>r, <2>1 DEF Rank
    <3> QED BY <1>u, <1>r, <2>5, <3>1
  <2>7. s.batch.done = d
    <3>1. e \in Nat /\ e + 1 = d + 1
      BY <1>s, <2>2, <2>4
    <3>2. d \in Nat
      BY <1>r
    <3>3. e = d
      BY <3>1, <3>2
    <3> QED BY <1>e, <3>3
  <2>8. w.status = "MAPPING_REQUIRED" /\ base[p] > 0 /\ s.batch # None
    BY <1>w, <2>2, <2>4
  <2> QED BY <1>r, <2>1, <2>4, <2>5, <2>6, <2>7, <2>8
<1>4. CASE /\ ~IsIdle(r.batch) /\ r.batch.token # None /\ i.batch = Awaiting(r.batch)
           /\ i.status = "CURRENCY_ASSERTION_REQUIRED"
  <2>1. w.batch.done = d /\ w.batch.pending /\ ~r.batch.pending
    BY <1>4, <1>f, <1>w, <1>c DEF RevisionInv
  <2>2. d + 1 \in 1 .. NBatches
    <3>1. w.batch.done < NBatches
      BY <1>f, <1>w, <2>1 DEF RevisionInv, IsIdle
    <3> QED BY <1>r, <2>1, <3>1
  <2>3. sent[d + 1] = 1
    <3>1. Rank(w) = 3 * d + 2
      BY <1>w, <1>r, <2>1 DEF Rank
    <3> QED BY <1>u, <1>r, <2>2, <3>1
  <2> QED BY <1>4, <1>r, <1>w, <2>1, <2>2, <2>3
<1> QED BY <1>1, <1>2, <1>3, <1>4, <1>w DEF AttemptIsOurs

\* What is read off after a put.
LEMMA PutReads ==
  ASSUME MappingInv, NEW w, NEW r, r = Current, Current' = w, shape' = shape
  PROVE  /\ w.decisions = r.decisions => Given' = Given
         /\ \A d : w.decisions = r.decisions \cup {d} => Given' = Given \cup {d[1]}
         /\ Result = OutcomeOf(r) /\ Result' = OutcomeOf(w)
<1>1. Given' = {d[1] : d \in w.decisions} /\ Given = {d[1] : d \in r.decisions}
  BY DEF Given
<1>2. Result = OutcomeOf(r) /\ Result' = OutcomeOf(w)
  BY DEF Result, OutcomeOf
<1> QED BY <1>1, <1>2

\* A put in a planned case is a step of the ledger, or none.
LEMMA PutPlannedLedger ==
  ASSUME MappingInv, LedgerInv, NEW p \in Procs, shape = "batches", Put(p)
  PROVE  Ledger!Next \/ UNCHANGED <<shape, Work, Given, Result>>
<1>L. PICK L : L = Len(history)
  OBVIOUS
<1>d. PICK i, s, r, w : i = intent[p] /\ s = At(base[p]) /\ r = Current /\ w = Written(p)
  OBVIOUS
<1>p. PutsPlanned(p, i, s, r, w)
  BY <1>d DEF PutsPlanned, Put
<1>f. /\ i \in Intent /\ s \in Revision /\ r \in Revision /\ Accepts(i, r) /\ L \in Nat
      /\ IF L = 0 THEN r = Unborn ELSE RevisionInv(r)
      /\ base[p] \in 0 .. L
      /\ w \in Revision /\ RevisionInv(w) /\ w = Payload(i, r)
  BY <1>L, <1>p, PutsPlannedFacts, PlannedRevision
<1>u. /\ history' = Append(history, w) /\ UNCHANGED <<shape, sent>> /\ pc[p] = "put"
      /\ TypeOK /\ PlanInv
  BY <1>d DEF Put, MappingInv
<1>a. Current' = w /\ (L > 0 => r = history[L])
  <2>1. L > 0 => At(L) = history[L]
    BY <1>f DEF At
  <2> QED BY <1>L, <1>d, <1>f, <1>u, <2>1, Appended DEF Current
<1>g. /\ w.decisions = r.decisions => Given' = Given
      /\ \A d : w.decisions = r.decisions \cup {d} => Given' = Given \cup {d[1]}
      /\ Result = OutcomeOf(r) /\ Result' = OutcomeOf(w)
  BY <1>d, <1>u, <1>a, PutReads
<1>k. KnowsCurrency("put", base[p], i)
  BY <1>d, <1>u DEF LedgerInv
<1>o. /\ r.status \in {None, "MAPPING_REQUIRED", "CURRENCY_ASSERTION_REQUIRED", "PROVIDER_UNAVAILABLE"}
            => Result = "open"
      /\ w.status \in {"MAPPING_REQUIRED", "CURRENCY_ASSERTION_REQUIRED", "PROVIDER_UNAVAILABLE"}
            => Result' = "open"
  BY <1>g, Results DEF Final, Statuses
<1>e. \A x \in Revision : x.status # "COMPLETE" => OutcomeOf(x) \in {"open", "stopped"}
  BY Results
<1>1. CASE i.op = "terminal"
  <2>1. w.status = "SOURCE_CONTEXT_LIMIT" /\ w.batch = None /\ w.decisions = r.decisions
    BY <1>p, <1>1, OtherWritten
  <2>2. r.status # "COMPLETE"
    BY <1>f, <1>1 DEF Accepts
  <2>3. Result' = "stopped" /\ Result \in {"open", "stopped"}
    BY <1>f, <1>g, <1>e, <2>1, <2>2, Results DEF Final
  <2>4. Work' = Work
    BY <1>f, <1>u, <2>1, WorkUntold
  <2> QED BY <1>u, <1>g, <2>1, <2>3, <2>4, LedgerEnds
<1>2. CASE i.op = "outcome"
  <2>1. /\ w.status = "COMPLETE" /\ w.batch = None /\ w.decisions = r.decisions
        /\ AcceptsOutcome(i, r) /\ i.prompt = r.prompt
    BY <1>p, <1>2, OtherWritten
  <2>2. Result = "open" /\ Result' = "complete"
    BY <1>g, <1>o, <2>1, Results DEF AcceptsOutcome
  <2>3. L > 0 /\ r.batch # None /\ r.batch.done = NBatches
    BY <1>L, <1>p, <2>1, CompleteAfterAll
  <2>4. \A b \in 1 .. NBatches : Work[b] = "answered"
    <3>1. \A b \in 1 .. NBatches : DoneSomewhere(b)
      BY <1>L, <1>d, <2>3, WorkNow
    <3> QED BY <3>1 DEF Work, WorkOn
  <2>5. Work' = Work
    BY <1>f, <1>u, <2>1, WorkUntold
  <2> QED BY <1>u, <1>g, <2>1, <2>2, <2>4, <2>5, LedgerEnds
<1>3. CASE i.op \in {"assert", "again"}
  <2>1. /\ w.status = "MAPPING_REQUIRED" /\ w.batch = r.batch /\ r.batch # None /\ L > 0
        /\ r.status = "CURRENCY_ASSERTION_REQUIRED"
        /\ w.decisions \in {r.decisions, r.decisions \cup {i.decision}}
    BY <1>L, <1>p, <1>3, OtherWritten
  <2>2. Result = "open" /\ Result' = "open"
    BY <1>o, <2>1
  <2>3. Work' = Work
    BY <1>L, <1>d, <1>f, <1>u, <2>1, WorkMoves
  <2>4. CASE w.decisions = r.decisions
    BY <1>u, <1>g, <2>2, <2>3, <2>4
  <2>5. CASE w.decisions = r.decisions \cup {i.decision}
    <3>1. PICK b : b = i.decision[1]
      OBVIOUS
    <3>2. b \in 1 .. NBatches /\ AskedSomewhere(b)
      BY <1>k, <1>3, <3>1 DEF KnowsCurrency, WasAsked
    <3>3. Work[b] \in {"asked", "answered"}
      BY <3>2 DEF Work, WorkOn
    <3>4. Given' = Given \cup {b}
      BY <1>g, <2>5, <3>1
    <3>5. b \in 0 .. NBatches /\ b > 0
      BY <3>2
    <3> QED BY <1>u, <2>2, <2>3, <3>3, <3>4, <3>5, LedgerAssert
  <2> QED BY <2>1, <2>4, <2>5
<1>4. CASE i.op = "batch" /\ L = 0
  <2>1. w.batch = FreshPlan /\ w.status = "MAPPING_REQUIRED" /\ w.decisions = r.decisions
    BY <1>L, <1>p, <1>4, BatchWritten
  <2>2. w.batch # None /\ w.batch.done = 0 /\ ~w.batch.pending
    BY <2>1, FreshPlanFacts DEF FreshPlan
  <2>3. Work' = Work
    BY <1>f, <1>u, <2>2, WorkUntold
  <2>4. Result = "open" /\ Result' = "open"
    BY <1>f, <1>o, <1>4, <2>1 DEF Unborn
  <2> QED BY <1>u, <1>g, <2>1, <2>3, <2>4
<1>5. CASE i.op = "batch" /\ L > 0
  <2>d. PICK d : d = r.batch.done
    OBVIOUS
  <2>1. /\ r.batch # None /\ w.batch # None /\ w.decisions = r.decisions
        /\ AcceptsBatch(i, r)
    BY <1>L, <1>p, <1>5, BatchWritten
  <2>2. Result = "open" /\ UNCHANGED <<shape, Given>> /\ w.status # "COMPLETE"
    BY <1>f, <1>u, <1>g, <1>o, <2>1 DEF AcceptsBatch, RevisionInv
  <2>3. /\ d \in Nat
        /\ \/ w.batch.done = d /\ (w.batch.pending => r.batch.pending)
           \/ /\ d + 1 \in 1 .. NBatches /\ sent[d + 1] = 1
              /\ w.batch.done = d /\ w.batch.pending /\ ~r.batch.pending
              /\ w.status = "CURRENCY_ASSERTION_REQUIRED"
           \/ /\ d + 1 \in 1 .. NBatches /\ sent[d + 1] = 1
              /\ w.batch.done = d + 1 /\ ~w.batch.pending
              /\ w.status = "MAPPING_REQUIRED"
              /\ i.then = "resume" /\ base[p] > 0 /\ s.batch # None /\ s.batch.done = d
              /\ WasSent(p, base[p]) \/ s.batch.pending
    BY <1>L, <1>p, <1>5, <2>d, AttemptKinds
  <2>m. /\ (w.batch.done = d /\ (w.batch.pending => r.batch.pending)) => Work' = Work
        /\ (/\ w.batch.done = d /\ w.batch.pending /\ ~r.batch.pending
            /\ d + 1 \in 1 .. NBatches /\ sent[d + 1] = 1) =>
              Work[d + 1] = "sent" /\ Work' = [Work EXCEPT ![d + 1] = "asked"]
        /\ (w.batch.done = d + 1 /\ ~w.batch.pending) =>
              Work' = [Work EXCEPT ![d + 1] = "answered"]
    BY <1>L, <1>d, <1>f, <1>u, <1>5, <2>d, <2>1, WorkMoves
  <2>4. CASE w.batch.done = d /\ (w.batch.pending => r.batch.pending)
    <3>1. Work' = Work /\ Result' \in {"open", "stopped"}
      BY <1>f, <1>g, <1>e, <2>2, <2>m, <2>4
    <3> QED BY <2>2, <3>1, LedgerEnds
  <2>5. CASE /\ d + 1 \in 1 .. NBatches /\ sent[d + 1] = 1
             /\ w.batch.done = d /\ w.batch.pending /\ ~r.batch.pending
             /\ w.status = "CURRENCY_ASSERTION_REQUIRED"
    <3>1. Work[d + 1] = "sent" /\ Work' = [Work EXCEPT ![d + 1] = "asked"] /\ Result' = "open"
      BY <1>o, <2>m, <2>5
    <3> QED BY <2>2, <2>5, <3>1, LedgerBatch
  <2>6. CASE /\ d + 1 \in 1 .. NBatches /\ sent[d + 1] = 1
             /\ w.batch.done = d + 1 /\ ~w.batch.pending
             /\ w.status = "MAPPING_REQUIRED"
             /\ i.then = "resume" /\ base[p] > 0 /\ s.batch # None /\ s.batch.done = d
             /\ WasSent(p, base[p]) \/ s.batch.pending
    <3>1. Work' = [Work EXCEPT ![d + 1] = "answered"] /\ Result' = "open"
      BY <1>o, <2>m, <2>6
    <3>2. /\ ~DoneSomewhere(d + 1)
          /\ AskedSomewhere(d + 1) <=> r.batch.pending
      <4>1. d + 1 > d /\ ~(d + 1 <= d)
        BY <2>3
      <4> QED BY <1>L, <1>d, <1>5, <2>d, <2>1, <2>6, <4>1, WorkNow
    <3>3. CASE ~r.batch.pending
      <4>1. Work[d + 1] = "sent"
        BY <2>6, <3>2, <3>3 DEF Work, WorkOn
      <4> QED BY <2>2, <2>6, <3>1, <4>1, LedgerBatch
    <3>4. CASE r.batch.pending
      <4>1. Work[d + 1] = "asked"
        BY <2>6, <3>2, <3>4 DEF Work, WorkOn
      <4>2. s.batch.pending
        <5> SUFFICES ASSUME HasClaim(p, base[p]), ~s.batch.pending PROVE FALSE
          BY <2>6 DEF WasSent
        <5>1. \A m \in base[p] + 1 .. L : ~IsOpen(history[m])
          BY <1>L, <1>u DEF MappingInv, PlannedTurn
        <5>2. IsOpen(r)
          BY <1>f, <1>5, <2>1 DEF AcceptsBatch, RevisionInv, IsOpen, Statuses, Final
        <5>3. base[p] # L
          <6>1. base[p] = L => s = r
            BY <1>L, <1>d DEF Current
          <6> QED BY <3>4, <6>1
        <5>4. L \in base[p] + 1 .. L
          BY <1>f, <5>3
        <5> QED BY <1>a, <1>5, <5>1, <5>2, <5>4
      <4>3. PICK c \in Currencies : <<d + 1, c>> \in s.decisions
        BY <1>d, <1>k, <2>6, <4>2 DEF KnowsCurrency
      <4>4. s.decisions \subseteq r.decisions
        <5>1. base[p] \in 1 .. L /\ L \in 1 .. L /\ base[p] <= L
          BY <1>f, <2>6
        <5>2. s = history[base[p]]
          BY <1>d, <5>1 DEF At
        <5> QED BY <1>L, <1>a, <1>5, <5>1, <5>2 DEF LedgerInv
      <4>5. d + 1 \in Given
        <5>1. <<d + 1, c>>[1] = d + 1 /\ <<d + 1, c>> \in Current.decisions
          BY <1>d, <4>3, <4>4
        <5> QED BY <5>1 DEF Given
      <4> QED BY <2>2, <2>6, <3>1, <4>1, <4>5, LedgerBatch
    <3> QED BY <3>3, <3>4
  <2> QED BY <2>3, <2>4, <2>5, <2>6
<1>6. i.op \in {"outcome", "batch", "terminal", "assert", "again"}
  BY <1>f DEF Accepts
<1> QED BY <1>f, <1>1, <1>2, <1>3, <1>4, <1>5, <1>6

\* So is one in any other case, where there are no batches.
LEMMA PutPlainLedger ==
  ASSUME MappingInv, LedgerInv, [Next]_vars, NEW p \in Procs, shape # "batches", Put(p)
  PROVE  Ledger!Next \/ UNCHANGED <<shape, Work, Given, Result>>
<1>d. PICK i, r, w : i = intent[p] /\ r = Current /\ w = Written(p)
  OBVIOUS
<1>1. /\ pc[p] = "put" /\ At(prior[p]) = r /\ prior[p] = Len(history) /\ TypeOK
      /\ history' = Append(history, w) /\ UNCHANGED <<shape, sent>>
      /\ Accepts(i, r) /\ w = Payload(i, r) /\ PlainTurn(pc[p], i)
      /\ r \in Revision
  BY <1>d, RevisionsTyped DEF Put, MappingInv, Current, Written
<1>2. /\ w \in Revision /\ w.batch = None /\ w.status = i.status
      /\ shape # "one" => w.status \in Final
  BY <1>d, <1>1, PlainWritten
<1>3. Work' = Work
  BY <1>1, <1>2, WorkUntold
<1>4. KnowsCurrency("put", base[p], i)
  BY <1>d, <1>1 DEF LedgerInv
<1>5. Current' = w
  BY <1>1, <1>2, Appended
<1>g. /\ w.decisions = r.decisions => Given' = Given
      /\ \A d : w.decisions = r.decisions \cup {d} => Given' = Given \cup {d[1]}
      /\ Result = OutcomeOf(r) /\ Result' = OutcomeOf(w)
  BY <1>d, <1>1, <1>5, PutReads
<1>o. /\ r.status \notin Final => Result = "open"
      /\ w.status \notin Final => Result' = "open"
      /\ r.status # "COMPLETE" => Result \in {"open", "stopped"}
      /\ w.status \in Final \ {"COMPLETE"} => Result' = "stopped"
      /\ w.status = "COMPLETE" => Result' = "complete"
  BY <1>g, Results
<1>6. CASE i.op = "terminal"
  <2>1. r.status # "COMPLETE" /\ w.status # "COMPLETE" /\ w.decisions = r.decisions
    BY <1>1, <1>2, <1>4, <1>6 DEF Accepts, KnowsCurrency, Payload
  <2>2. CASE w.status \in Final
    <3>1. Result' = "stopped" /\ Result \in {"open", "stopped"}
      BY <1>o, <2>1, <2>2
    <3> QED BY <1>1, <1>3, <1>g, <2>1, <3>1, LedgerEnds
  <2>3. CASE w.status \notin Final
    <3>1. Result' = "open" /\ Result \in {"open", "stopped"} /\ shape = "one"
      BY <1>2, <1>o, <2>1, <2>3
    <3> QED BY <1>1, <1>3, <1>g, <2>1, <3>1, LedgerEnds
  <2> QED BY <2>2, <2>3
<1>7. CASE i.op = "outcome"
  <2>1. r.status \notin Final /\ w.decisions = r.decisions
    BY <1>1, <1>7 DEF Accepts, AcceptsOutcome, Payload, Final, Statuses
  <2>2. shape = "one"
    BY <1>1, <1>7 DEF PlainTurn
  <2>3. Result = "open" /\ Result' \in {"open", "stopped", "complete"}
    BY <1>o, <2>1
  <2> QED BY <1>1, <1>3, <1>g, <2>1, <2>2, <2>3, LedgerEnds
<1>8. CASE i.op \in {"assert", "again"}
  <2>1. r.status = "CURRENCY_ASSERTION_REQUIRED" /\ w.status = "MAPPING_REQUIRED"
        /\ i.decision[1] = 0
    BY <1>1, <1>2, <1>4, <1>8 DEF Accepts, KnowsCurrency, WasAsked
  <2>2. Result = "open" /\ Result' = "open"
    BY <1>o, <2>1 DEF Final
  <2>3. shape = "one"
    BY <1>1, <1>8 DEF PlainTurn
  <2>4. CASE i.op = "assert"
    <3>1. Given' = Given \cup {0}
      BY <1>1, <1>g, <2>1, <2>4 DEF Payload
    <3>2. PICK b : b = 0
      OBVIOUS
    <3>3. b \in 0 .. NBatches /\ Given' = Given \cup {b}
      BY <3>1, <3>2
    <3> QED BY <1>1, <1>3, <2>2, <2>3, <3>2, <3>3, LedgerAssert
  <2>5. CASE i.op = "again"
    <3>1. Given' = Given
      BY <1>1, <1>g, <2>5 DEF Payload
    <3> QED BY <1>1, <1>3, <2>2, <3>1
  <2> QED BY <1>8, <2>4, <2>5
<1>9. i.op \in {"outcome", "terminal", "assert", "again"}
  BY <1>1 DEF Accepts, PlainTurn
<1> QED BY <1>6, <1>7, <1>8, <1>9

\* Every step is a step of the ledger, or none.
LEMMA LedgerStep ==
  ASSUME MappingInv, LedgerInv, [Next]_vars
  PROVE  Ledger!Next \/ UNCHANGED <<shape, Work, Given, Result>>
<1>1. CASE UNCHANGED <<shape, history, sent>>
  BY <1>1, LedgerKept
<1>2. CASE \E p \in Procs : Put(p) \/ Send(p)
  BY <1>2, PutPlannedLedger, PutPlainLedger, SendLedger
<1> QED BY <1>1, <1>2, LedgerMovers

\* What a turn knows of the currencies, always.
LEMMA LedgerInvAlways == Spec => [](MappingInv /\ LedgerInv)
<1>1. Init => LedgerInv
  <2> SUFFICES ASSUME Init PROVE LedgerInv
    OBVIOUS
  <2>1. \A p \in Procs : KnowsCurrency(pc[p], base[p], intent[p])
    BY DEF Init, KnowsCurrency
  <2> QED BY <2>1 DEF Init, LedgerInv
<1>2. MappingInv /\ LedgerInv /\ [Next]_vars => LedgerInv'
  BY LedgerInvStep
<1> QED BY <1>1, <1>2, MappingAlwaysAgrees, PTL DEF Spec

\* The mapping case keeps its ledger, whatever turns run at once: batches are
\* sent once and in order, a question for a currency is answered before its
\* batch is done, and what save_batch_state, save_mapping_outcome and the
\* terminal saves settle is not unsettled by a stale one.
THEOREM MappingImplementsLedger == Spec => ImplementsLedger
<1>1. Init => Ledger!Init
  <2> SUFFICES ASSUME Init PROVE Ledger!Init
    OBVIOUS
  <2>1. Current = Unborn /\ shape \in Shapes
    BY DEF Init, Current, At
  <2>2. {d[1] : d \in Current.decisions} = {} /\ Current.status = None
    BY <2>1 DEF Unborn
  <2>3. OutcomeOf(Current) = "open"
    BY <2>2, Results DEF Final, Statuses
  <2>4. \A b \in 1 .. NBatches : WorkOn(b) = "new"
    BY DEF Init, WorkOn, DoneSomewhere, AskedSomewhere
  <2> QED BY <2>1, <2>2, <2>3, <2>4 DEF Ledger!Init, Ledger!Batches, Shapes
<1>2. MappingInv /\ LedgerInv /\ [Next]_vars =>
        [Ledger!Next]_<<shape, [b \in 1 .. NBatches |-> WorkOn(b)],
                        {d[1] : d \in Current.decisions}, OutcomeOf(Current)>>
  BY LedgerStep DEF Work, Given, Result
<1> QED BY <1>1, <1>2, LedgerInvAlways, PTL DEF Spec, ImplementsLedger, Ledger!Spec

=============================================================================
