---------------------------- MODULE BoundsProofs ----------------------------
(***************************************************************************)
(* Proof that the reason a run gives for ending early is its own, for any  *)
(* number of delegated runs, budgets and retries.  The invariant adds that *)
(* a run's options name its own slot however they were derived, and that a *)
(* run which is not over has said nothing yet.                             *)
(***************************************************************************)
EXTENDS RunBounds, TLAPS

Ends == {Unset, "Limits", "Stopped", "Budget", "MaxRounds", "ModelBudget", "Failed", "Done"}
RunnerPlaces == {"off", "boundary", "preparing", "request", "failed", "sleeping", "streaming", "tools", "over"}
Delays == {0} \union {delay_for(n, s) : n \in Nat, s \in RetryAfters}
RunnerStates == [pc : RunnerPlaces, rounds : Nat, model_requests : Nat, attempt : Nat, delay : Delays, end : Ends]

BoundsInv ==
    /\ opts \in [Runs -> [counter : Runs, slot : Runs, model_budget : Nat \union {Unset}]]
    /\ slots \in [Runs -> {Unset, "StopRequested", "TokenBudget"}]
    /\ runner \in [Runs -> RunnerStates]
    /\ \A r \in Runs :
          /\ opts[r].slot = r
          /\ runner[r].pc # "over" => runner[r].end = Unset /\ slots[r] = Unset
    /\ EarlyEndIsOwn

\* Options are derived with the slot of the run they are for, and nobody has
\* ended at first.
LEMMA BoundsInvInit == BoundsInit => BoundsInv
<1> SUFFICES ASSUME BoundsInit PROVE BoundsInv
  OBVIOUS
<1>1. opts \in [Runs -> [counter : Runs, slot : Runs, model_budget : Nat \union {Unset}]]
  BY BoundsAssumption DEF BoundsInit
<1>2. runner \in [Runs -> RunnerStates] /\ \A r \in Runs : runner[r].end = Unset
  BY DEF BoundsInit, NotRun, RunnerStates, RunnerPlaces, Ends, Delays
<1> QED
  BY <1>1, <1>2, BoundsAssumption DEF BoundsInit, BoundsInv, EarlyEndIsOwn

\* A step of one run that goes on, or ends without giving a reason.
LEMMA QuietStepInv ==
    ASSUME BoundsInv, NEW r \in Runs, NEW place \in RunnerStates,
           runner' = [runner EXCEPT ![r] = place], runner[r].pc # "over",
           place.end \notin {"Stopped", "Budget"}, place.pc # "over" => place.end = Unset,
           UNCHANGED <<opts, slots>>
    PROVE  BoundsInv'
<1>1. runner' \in [Runs -> RunnerStates]
  BY DEF BoundsInv
<1>2. ASSUME NEW q \in Runs
      PROVE  /\ runner'[q].pc # "over" => runner'[q].end = Unset /\ slots[q] = Unset
             /\ slots[q] = "StopRequested" <=> runner'[q].end = "Stopped"
             /\ slots[q] = "TokenBudget" <=> runner'[q].end = "Budget"
  <2>1. CASE q = r
    <3>1. runner'[q] = place /\ slots[q] = Unset
      BY <2>1 DEF BoundsInv
    <3> QED
      BY <3>1, BoundsAssumption
  <2>2. CASE q # r
    BY <2>2 DEF BoundsInv, EarlyEndIsOwn
  <2> QED
    BY <2>1, <2>2
<1> QED
  BY <1>1, <1>2 DEF BoundsInv, EarlyEndIsOwn

\* One field of a run's state at a time.
LEMMA FieldUpdates ==
    ASSUME NEW s \in RunnerStates
    PROVE  /\ \A x \in RunnerPlaces : /\ [s EXCEPT !.pc = x] \in RunnerStates
                                      /\ [s EXCEPT !.pc = x].pc = x /\ [s EXCEPT !.pc = x].end = s.end
           /\ \A x \in Nat : /\ [s EXCEPT !.rounds = x] \in RunnerStates
                             /\ [s EXCEPT !.rounds = x].pc = s.pc /\ [s EXCEPT !.rounds = x].end = s.end
           /\ \A x \in Nat : /\ [s EXCEPT !.attempt = x] \in RunnerStates
                             /\ [s EXCEPT !.attempt = x].pc = s.pc /\ [s EXCEPT !.attempt = x].end = s.end
           /\ \A x \in Nat : /\ [s EXCEPT !.model_requests = x] \in RunnerStates
                             /\ [s EXCEPT !.model_requests = x].pc = s.pc
                             /\ [s EXCEPT !.model_requests = x].end = s.end
           /\ \A x \in Delays : /\ [s EXCEPT !.delay = x] \in RunnerStates
                                /\ [s EXCEPT !.delay = x].pc = s.pc /\ [s EXCEPT !.delay = x].end = s.end
           /\ \A x \in Ends : /\ [s EXCEPT !.end = x] \in RunnerStates
                              /\ [s EXCEPT !.end = x].pc = s.pc /\ [s EXCEPT !.end = x].end = x
           /\ s.attempt \in Nat /\ s.attempt + 1 \in Nat /\ s.model_requests + 1 \in Nat /\ s.rounds + 1 \in Nat
BY DEF RunnerStates

\* A run that is over.
LEMMA OverUpdate ==
    ASSUME NEW s \in RunnerStates, NEW how \in Ends
    PROVE  /\ [s EXCEPT !.pc = "over", !.end = how] \in RunnerStates
           /\ [s EXCEPT !.pc = "over", !.end = how].pc = "over" /\ [s EXCEPT !.pc = "over", !.end = how].end = how
<1> DEFINE s1 == [s EXCEPT !.pc = "over"]
           s2 == [s1 EXCEPT !.end = how]
<1>0. "over" \in RunnerPlaces
  BY DEF RunnerPlaces
<1>1. s1 \in RunnerStates /\ s1.pc = "over"
  BY <1>0, FieldUpdates
<1> HIDE DEF s1
<1>2. s2 \in RunnerStates /\ s2.pc = "over" /\ s2.end = how
  BY <1>0, <1>1, FieldUpdates
<1> HIDE DEF s2
<1> QED
  BY <1>2, Zenon DEF s2, s1

\* A run that begins a round.
LEMMA RoundUpdate ==
    ASSUME NEW s \in RunnerStates
    PROVE  /\ [s EXCEPT !.pc = "preparing", !.rounds = @ + 1, !.attempt = 0] \in RunnerStates
           /\ [s EXCEPT !.pc = "preparing", !.rounds = @ + 1, !.attempt = 0].pc = "preparing" /\ [s EXCEPT !.pc = "preparing", !.rounds = @ + 1, !.attempt = 0].end = s.end
<1> DEFINE s1 == [s EXCEPT !.pc = "preparing"]
           s2 == [s1 EXCEPT !.rounds = s.rounds + 1]
           s3 == [s2 EXCEPT !.attempt = 0]
<1>0. "preparing" \in RunnerPlaces /\ 0 \in Nat
  BY DEF RunnerPlaces
<1>1. s1 \in RunnerStates /\ s1.pc = "preparing" /\ s1.end = s.end
  BY <1>0, FieldUpdates
<1> HIDE DEF s1
<1>2. s2 \in RunnerStates /\ s2.pc = "preparing" /\ s2.end = s.end
  BY <1>0, <1>1, FieldUpdates
<1> HIDE DEF s2
<1>3. s3 \in RunnerStates /\ s3.pc = "preparing" /\ s3.end = s.end
  BY <1>0, <1>2, FieldUpdates
<1> HIDE DEF s3
<1> QED
  BY <1>3, Zenon DEF s3, s2, s1

\* A run that has sent a request.
LEMMA SentUpdate ==
    ASSUME NEW s \in RunnerStates, NEW pc \in RunnerPlaces
    PROVE  /\ [s EXCEPT !.attempt = @ + 1, !.model_requests = @ + 1, !.pc = pc] \in RunnerStates
           /\ [s EXCEPT !.attempt = @ + 1, !.model_requests = @ + 1, !.pc = pc].pc = pc /\ [s EXCEPT !.attempt = @ + 1, !.model_requests = @ + 1, !.pc = pc].end = s.end
<1> DEFINE s1 == [s EXCEPT !.attempt = s.attempt + 1]
           s2 == [s1 EXCEPT !.model_requests = s.model_requests + 1]
           s3 == [s2 EXCEPT !.pc = pc]
<1>1. s1 \in RunnerStates /\ s1.end = s.end
  BY FieldUpdates
<1> HIDE DEF s1
<1>2. s2 \in RunnerStates /\ s2.end = s.end
  BY <1>1, FieldUpdates
<1> HIDE DEF s2
<1>3. s3 \in RunnerStates /\ s3.pc = pc /\ s3.end = s.end
  BY <1>2, FieldUpdates
<1> HIDE DEF s3
<1> QED
  BY <1>3, Zenon DEF s3, s2, s1

\* The steps of a run between two boundaries: compaction, attempts, waits, the
\* response and the tools.
LEMMA RoundStepInv ==
    ASSUME BoundsInv, NEW r \in Runs,
           \/ StreamFails(r) \/ Wake(r) \/ ToolsDone(r)
           \/ \E n \in 0..MaxUsage : Prepare(r, n)
           \/ \E b \in BOOLEAN : OpenStream(r, b)
           \/ \E b \in BOOLEAN, s \in RetryAfters : RetryOrFail(r, b, s)
           \/ \E n \in 1..MaxUsage, b \in BOOLEAN : Respond(r, n, b)
    PROVE  BoundsInv'
<1>0. runner \in [Runs -> RunnerStates] /\ runner[r] \in RunnerStates
  BY DEF BoundsInv
<1>1. UNCHANGED <<opts, slots>> /\ runner[r].pc # "over" /\ runner[r].end = Unset
  BY DEF StreamFails, Wake, ToolsDone, Prepare, OpenStream, RetryOrFail, Respond, BoundsInv
<1>2. ASSUME NEW how \in {"Limits", "MaxRounds", "ModelBudget", "Failed", "Done"}, Over(r, how) PROVE BoundsInv'
  <2> DEFINE place == [runner[r] EXCEPT !.pc = "over", !.end = how]
  <2>1. place \in RunnerStates /\ place.end = how /\ place.pc = "over"
    BY <1>0 DEF RunnerStates, RunnerPlaces, Ends
  <2>2. runner' = [runner EXCEPT ![r] = place]
    BY <1>0, <1>2 DEF Over, RunnerStates
  <2> HIDE DEF place
  <2> QED
    BY <1>1, <2>1, <2>2, QuietStepInv
<1>3. ASSUME NEW place \in RunnerStates, runner' = [runner EXCEPT ![r] = place],
             place.pc # "over", place.end = Unset
      PROVE  BoundsInv'
  BY <1>1, <1>3, QuietStepInv, BoundsAssumption
<1>4. CASE StreamFails(r)
  BY <1>2, <1>4 DEF StreamFails
<1>5. CASE Wake(r)
  <2> DEFINE place(x) == [runner[r] EXCEPT !.pc = "request", !.delay = x]
  <2>1. \A x \in Delays : place(x) \in RunnerStates /\ place(x).end = Unset /\ place(x).pc = "request"
    BY <1>0, <1>1 DEF RunnerStates, RunnerPlaces
  <2>2. Over(r, "Limits") \/ runner' = [runner EXCEPT ![r] = place(0)]
    BY <1>0, <1>5 DEF Wake, RunnerStates
  <2>3. 0 \in Delays
    BY DEF Delays
  <2> HIDE DEF place
  <2> QED
    BY <1>1, <1>2, <1>3, <2>1, <2>2, <2>3
<1>6. CASE ToolsDone(r) \/ \E n \in 0..MaxUsage : Prepare(r, n)
  <2> DEFINE place(pc) == [runner[r] EXCEPT !.pc = pc]
  <2>1. \A pc \in {"boundary", "request"} : place(pc) \in RunnerStates /\ place(pc).end = Unset /\ place(pc).pc = pc
    BY <1>0, <1>1 DEF RunnerStates, RunnerPlaces
  <2>2. \E pc \in {"boundary", "request"} : runner' = [runner EXCEPT ![r] = place(pc)]
    BY <1>0, <1>6 DEF ToolsDone, Prepare, RunnerStates
  <2> HIDE DEF place
  <2> QED
    BY <1>3, <2>1, <2>2
<1>7. ASSUME NEW b \in BOOLEAN, OpenStream(r, b) PROVE BoundsInv'
  <2> DEFINE place(pc) == [runner[r] EXCEPT !.attempt = @ + 1, !.model_requests = @ + 1, !.pc = pc]
  <2>1. \A pc \in {"streaming", "failed"} : place(pc) \in RunnerStates /\ place(pc).end = Unset /\ place(pc).pc = pc
    <3>1. \A pc \in RunnerPlaces :
             place(pc) \in RunnerStates /\ place(pc).end = runner[r].end /\ place(pc).pc = pc
      BY <1>0, SentUpdate, Zenon
    <3>2. "streaming" \in RunnerPlaces /\ "failed" \in RunnerPlaces
      BY DEF RunnerPlaces
    <3> HIDE DEF place
    <3> QED
      BY <1>1, <3>1, <3>2
  <2>2. Over(r, "Limits") \/ \E pc \in {"streaming", "failed"} : runner' = [runner EXCEPT ![r] = place(pc)]
    BY <1>0, <1>7 DEF OpenStream, RunnerStates
  <2> HIDE DEF place
  <2> QED
    BY <1>2, <1>3, <2>1, <2>2
<1>8. ASSUME NEW b \in BOOLEAN, NEW s \in RetryAfters, RetryOrFail(r, b, s) PROVE BoundsInv'
  <2> DEFINE place == [runner[r] EXCEPT !.pc = "sleeping", !.delay = delay_for(runner[r].attempt, s)]
  <2>1. runner[r].attempt \in Nat
    BY <1>0 DEF RunnerStates
  <2>2. delay_for(runner[r].attempt, s) \in Delays
    BY <2>1 DEF Delays
  <2>3. place \in RunnerStates /\ place.end = Unset /\ place.pc = "sleeping"
    BY <1>0, <1>1, <2>2 DEF RunnerStates, RunnerPlaces
  <2>4. Over(r, "Failed") \/ Over(r, "ModelBudget") \/ runner' = [runner EXCEPT ![r] = place]
    BY <1>0, <1>8 DEF RetryOrFail, RunnerStates
  <2> HIDE DEF place
  <2> QED
    BY <1>2, <1>3, <2>3, <2>4
<1>9. ASSUME NEW n \in 1..MaxUsage, NEW b \in BOOLEAN, Respond(r, n, b) PROVE BoundsInv'
  <2> DEFINE place == [runner[r] EXCEPT !.pc = "tools"]
  <2>1. place \in RunnerStates /\ place.end = Unset /\ place.pc = "tools"
    BY <1>0, <1>1 DEF RunnerStates, RunnerPlaces
  <2>2. Over(r, "Done") \/ runner' = [runner EXCEPT ![r] = place]
    BY <1>0, <1>9 DEF Respond, RunnerStates
  <2> HIDE DEF place
  <2> QED
    BY <1>2, <1>3, <2>1, <2>2
<1> QED
  BY <1>4, <1>5, <1>6, <1>7, <1>8, <1>9

\* The boundary: the reason goes into the run's own slot, which is still empty.
LEMMA BoundaryInv == ASSUME BoundsInv, NEW r \in Runs, Boundary(r) PROVE BoundsInv'
<1>0. /\ runner \in [Runs -> RunnerStates] /\ runner[r] \in RunnerStates
      /\ opts' = opts /\ opts[r].slot = r /\ slots[r] = Unset /\ runner[r].end = Unset /\ runner[r].pc = "boundary"
  BY DEF BoundsInv, Boundary
<1> DEFINE over(how) == [runner[r] EXCEPT !.pc = "over", !.end = how]
           round == [runner[r] EXCEPT !.pc = "preparing", !.rounds = @ + 1, !.attempt = 0]
<1>1. /\ \A how \in Ends : over(how) \in RunnerStates /\ over(how).pc = "over" /\ over(how).end = how
      /\ round \in RunnerStates /\ round.pc = "preparing" /\ round.end = Unset
  <2>1. runner[r] \in RunnerStates
    BY <1>0
  <2>2. \A how \in Ends : over(how) \in RunnerStates /\ over(how).pc = "over" /\ over(how).end = how
    BY <2>1, OverUpdate, Zenon
  <2>3. round \in RunnerStates /\ round.pc = "preparing" /\ round.end = runner[r].end
    BY <2>1, RoundUpdate, Zenon
  <2> HIDE DEF over, round
  <2> QED
    BY <1>0, <2>2, <2>3
<1>2. \/ UNCHANGED slots /\ \E how \in {"Limits", "MaxRounds", "ModelBudget"} : runner' = [runner EXCEPT ![r] = over(how)]
      \/ UNCHANGED slots /\ runner' = [runner EXCEPT ![r] = round]
      \/ record_early_end(r, "StopRequested") /\ runner' = [runner EXCEPT ![r] = over("Stopped")]
      \/ record_early_end(r, "TokenBudget") /\ runner' = [runner EXCEPT ![r] = over("Budget")]
  BY <1>0 DEF Boundary, Over, RunnerStates
<1> HIDE DEF over, round
<1>3. CASE UNCHANGED slots /\ \E how \in {"Limits", "MaxRounds", "ModelBudget"} : runner' = [runner EXCEPT ![r] = over(how)]
  <2>1. PICK how \in {"Limits", "MaxRounds", "ModelBudget"} : runner' = [runner EXCEPT ![r] = over(how)]
    BY <1>3
  <2>2. over(how) \in RunnerStates /\ over(how).pc = "over" /\ over(how).end = how
    BY <1>1 DEF Ends
  <2> QED
    BY <1>0, <1>3, <2>1, <2>2, QuietStepInv
<1>4. CASE UNCHANGED slots /\ runner' = [runner EXCEPT ![r] = round]
  BY <1>0, <1>1, <1>4, QuietStepInv, BoundsAssumption
<1>5. ASSUME NEW why \in {"StopRequested", "TokenBudget"}, NEW how \in {"Stopped", "Budget"},
             why = "StopRequested" <=> how = "Stopped",
             record_early_end(r, why), runner' = [runner EXCEPT ![r] = over(how)]
      PROVE  BoundsInv'
  <2>1. slots' = [slots EXCEPT ![r] = why] /\ slots \in [Runs -> {Unset, "StopRequested", "TokenBudget"}]
    BY <1>0, <1>5 DEF record_early_end, BoundsInv
  <2>2. runner' \in [Runs -> RunnerStates] /\ slots' \in [Runs -> {Unset, "StopRequested", "TokenBudget"}]
    BY <1>0, <1>1, <1>5, <2>1 DEF Ends
  <2>3. runner'[r] = over(how) /\ over(how).pc = "over" /\ over(how).end = how /\ slots'[r] = why
    BY <1>0, <1>1, <1>5, <2>1 DEF Ends
  <2>4. \A q \in Runs \ {r} : runner'[q] = runner[q] /\ slots'[q] = slots[q]
    BY <1>0, <1>5, <2>1
  <2> QED
    BY <1>0, <1>5, <2>2, <2>3, <2>4 DEF BoundsInv, EarlyEndIsOwn
<1> QED
  BY <1>2, <1>3, <1>4, <1>5

\* A delegated run reports in a slot of its own.
LEMMA DelegateInv == ASSUME BoundsInv, NEW r \in Runs, NEW c \in Delegated, Delegate(r, c) PROVE BoundsInv'
<1>0. c \in Runs /\ runner[c] \in RunnerStates /\ runner \in [Runs -> RunnerStates]
  BY DEF Runs, BoundsInv
<1>1. opts' \in [Runs -> [counter : Runs, slot : Runs, model_budget : Nat \union {Unset}]]
  BY <1>0 DEF Delegate, child, BoundsInv
<1>2. \A q \in Runs : opts'[q].slot = q
  BY <1>0 DEF Delegate, child, BoundsInv
<1> DEFINE place == [runner[c] EXCEPT !.pc = "boundary"]
<1>3. place \in RunnerStates /\ place.pc = "boundary" /\ place.end = runner[c].end
  BY <1>0 DEF RunnerStates, RunnerPlaces
<1>4. runner' = [runner EXCEPT ![c] = place] /\ runner[c].pc = "off" /\ slots' = slots
  BY <1>0 DEF Delegate, RunnerStates
<1> HIDE DEF place
<1>5. \A q \in Runs : /\ runner'[q].end = runner[q].end
                      /\ runner'[q].pc # "over" => runner[q].pc # "over"
  BY <1>0, <1>3, <1>4
<1>6. runner' \in [Runs -> RunnerStates]
  BY <1>0, <1>3, <1>4
<1>7. EarlyEndIsOwn'
  BY <1>4, <1>5 DEF BoundsInv, EarlyEndIsOwn
<1> QED
  BY <1>1, <1>2, <1>4, <1>5, <1>6, <1>7 DEF BoundsInv

\* Every step keeps the invariant.
LEMMA BoundsInvStep == BoundsInv /\ [BoundsNext]_boundsVars => BoundsInv'
<1> SUFFICES ASSUME BoundsInv, [BoundsNext]_boundsVars PROVE BoundsInv'
  OBVIOUS
<1>1. CASE UNCHANGED boundsVars \/ cancel \/ stop \/ DeadlinePasses
  BY <1>1 DEF boundsVars, cancel, stop, DeadlinePasses, BoundsInv, EarlyEndIsOwn
<1>2. ASSUME NEW r \in Runs,
             \/ Boundary(r) \/ StreamFails(r) \/ Wake(r) \/ ToolsDone(r)
             \/ \E n \in 0..MaxUsage : Prepare(r, n)
             \/ \E b \in BOOLEAN : OpenStream(r, b)
             \/ \E b \in BOOLEAN, s \in RetryAfters : RetryOrFail(r, b, s)
             \/ \E n \in 1..MaxUsage, b \in BOOLEAN : Respond(r, n, b)
             \/ \E c \in Delegated : Delegate(r, c)
      PROVE  BoundsInv'
  BY <1>2, BoundaryInv, RoundStepInv, DelegateInv
<1> QED
  BY <1>1, <1>2 DEF BoundsNext

\* RunOptions::child and record_early_end, for any tree of delegated runs: what a
\* caller reads in a run's slot is why that run, and no run it started, ended.
THEOREM EarlyEndsAreOwn == BoundsSpec => []EarlyEndIsOwn
<1>1. BoundsInv => EarlyEndIsOwn
  BY DEF BoundsInv
<1> QED
  BY <1>1, BoundsInvInit, BoundsInvStep, PTL DEF BoundsSpec
=============================================================================
