------------------------------ MODULE Evaluation ------------------------------
(***************************************************************************)
(* One call of variation(), variationDetail() or allFlagsState() (index.js)*)
(* over a feature store that may answer later, while the data changes:     *)
(* the evaluation of prerequisites, rules and segments (evaluate_flag.js), *)
(* the events it leads to (event_factory.js) and the state it collects     *)
(* (flags_state.js).                                                       *)
(*                                                                         *)
(* An evaluation keeps a stack of frames, one for the flag and one for     *)
(* each prerequisite entered; each frame says how far its flag has come.   *)
(* Every read of the store is one step, and so is each piece of work       *)
(* between two reads.  sync says that the evaluation still runs inside the *)
(* Promise's executor, because the store has answered every read at once:  *)
(* only then does an exception reject the promise.                         *)
(* Operators named <name>_<variant> are mistakes the runs must detect.     *)
(***************************************************************************)
EXTENDS FlagRules, FiniteSets

CONSTANTS FlagKey, SegmentKey,
          Catalog,      \* every flag configuration that comes up
          Datasets,     \* what the store may hold when the call is made
          Changes,      \* the updates that may arrive meanwhile: [key, item]
          Calls,        \* the calls: [op, key, user, reasons, clientOnly,
                        \*   trackedOnly, ready, offline, inited]
          MaxChanges,   \* bound on the updates during the call
          Pending, Rejected, Crashed

\* The reason for a result, the result, and what allFlagsState() gives.
Reason ==
    {<<"OFF">>, <<"TARGET_MATCH">>, <<"FALLTHROUGH">>} \cup ({"RULE_MATCH"} \X Nat)
    \cup ({"PREREQUISITE_FAILED"} \X FlagKey)
    \cup ({"ERROR"} \X {"CLIENT_NOT_READY", "FLAG_NOT_FOUND", "USER_NOT_SPECIFIED",
                       "MALFORMED_FLAG"})
Result == [variation : Nat \cup {Null}, reason : Reason]
FlagState == [variation : Nat \cup {Null}, version : Nat \cup {Null},
              reason : Reason \cup {Null}, trackEvents : BOOLEAN]
AllState == [valid : BOOLEAN, flags : UNION {[K -> FlagState] : K \in SUBSET FlagKey}]

\* What the store may hold under the key of a flag.
ConfigOf(k) == {f \in Catalog : f.key = k} \cup {Null}

\* A version names one configuration of a flag.
ASSUME CatalogAssumption ==
    /\ IsFiniteSet(FlagKey) /\ Undefined # Null /\ Null \notin Catalog \cup Nat \cup Result
    /\ \A f, g \in Catalog : f.key = g.key /\ f.version = g.version => f = g
    /\ \A f \in Catalog :
          /\ f.key \in FlagKey /\ {f.version, f.variations} \subseteq Nat
          /\ {f.on, f.trackEvents} \subseteq BOOLEAN
          /\ f.prerequisites \in Seq([key : FlagKey, variation : Nat])
          /\ f.rules \in Seq(ToSet(f.rules))

ASSUME CallAssumption ==
    /\ \A d \in Datasets : /\ DOMAIN d = FlagKey \cup SegmentKey
                           /\ \A k \in FlagKey : d[k] \in ConfigOf(k)
    /\ \A c \in Changes : c.key \in FlagKey => c.item \in ConfigOf(c.key)
    /\ \A c \in Calls : c.key \in FlagKey \cup {Null}
    /\ MaxChanges \in Nat
    /\ Pending \notin {Rejected, Crashed}
    /\ \A x \in {Pending, Rejected, Crashed} : x \notin Result \cup AllState

VARIABLES data,     \* the store: flag or segment key -> item or Null
          call,     \* the call under way
          stage,    \* "called", "allowed", "evaluating", "settled"
          sync,     \* whether the store has answered at once so far
          evals,    \* the evaluations: flag key -> [flag, user, stack,
          \*   events, result, sync]
          sent,     \* what eventProcessor.sendEvent() was given
          outcome,  \* what became of the promise
          changes   \* the updates since the call was made

vars == <<data, call, stage, sync, evals, sent, outcome, changes>>

IsAll == call.op = "allFlagsState"
NoKey(user) == user.own["key"] = Null

--------------------------------------------------------------------------------
(* Events. *)

IsExperiment(flag, reason) ==
    CASE reason[1] = "RULE_MATCH"  -> flag.rules[reason[2]].trackEvents
      [] reason[1] = "FALLTHROUGH" -> flag.trackFallthrough
      [] OTHER                     -> FALSE

NewEvalEvent(flag, result, prereqOf) ==
    LET experiment == IsExperiment(flag, result.reason)
    IN  [key |-> flag.key, version |-> flag.version, variation |-> result.variation,
         prereqOf |-> prereqOf, trackEvents |-> experiment \/ flag.trackEvents,
         reason |-> IF experiment \/ call.reasons THEN result.reason ELSE Null]

NewDefaultEvent(flag, result) ==
    [key |-> flag.key, version |-> flag.version, variation |-> Null, prereqOf |-> Null,
     trackEvents |-> flag.trackEvents,
     reason |-> IF call.reasons THEN result.reason ELSE Null]

NewUnknownFlagEvent(result) ==
    [key |-> call.key, version |-> Null, variation |-> Null, prereqOf |-> Null,
     trackEvents |-> FALSE, reason |-> IF call.reasons THEN result.reason ELSE Null]

--------------------------------------------------------------------------------
(* Frames. *)

\* evalInternal(): a flag that is off is done at once.
Enter(flag) ==
    [flag |-> flag, prereq |-> 1, rule |-> 0, clause |-> 1, value |-> 1,
     result |-> IF flag.on THEN Null ELSE GetOffResult(flag, <<"OFF">>)]

\* evaluate()
Evaluate(flag, isSync) ==
    [flag |-> flag, user |-> SanitizedUser(call.user), events |-> <<>>, sync |-> isSync,
     stack  |-> IF NoKey(call.user) THEN <<>> ELSE <<Enter(flag)>>,
     result |-> IF NoKey(call.user) THEN ErrorResult("USER_NOT_SPECIFIED") ELSE Null]

Top(k) == Last(evals[k].stack)
Prereqs(frame) == frame.flag.prerequisites
Rule(frame) == frame.flag.rules[frame.rule]
Clause(frame) == Rule(frame).clauses[frame.clause]

\* The evaluation k works on its top frame, with no result for it yet.
Working(k) ==
    /\ stage = "evaluating"
    /\ evals[k].stack # <<>>
    /\ Top(k).result = Null

Replace(k, frame) ==
    evals' = [evals EXCEPT ![k].stack = Append(Front(@), frame)]

Decide(k, result) == Replace(k, [Top(k) EXCEPT !.result = result])

PrerequisiteFailed(frame, key) ==
    [frame EXCEPT !.result = GetOffResult(frame.flag, <<"PREREQUISITE_FAILED", key>>)]

\* What a clause's verdict does to its rule, and the rule's to the flag.
AfterVerdict(frame, verdict) ==
    IF verdict = "yes" THEN [frame EXCEPT !.clause = @ + 1, !.value = 1]
    ELSE [frame EXCEPT !.rule = @ + 1, !.clause = 1, !.value = 1]

\* An exception leaves through the executor or through the store's callback.
Throw(isSync) == /\ outcome' = IF isSync THEN Rejected ELSE Crashed
                 /\ stage' = "settled"
                 /\ UNCHANGED <<evals, sent>>

Settle(result, events) == /\ outcome' = result
                          /\ sent' = sent \o events
                          /\ stage' = "settled"
                          /\ UNCHANGED evals
--------------------------------------------------------------------------------
(* The flags of an allFlagsState(). *)

\* FlagsStateBuilder: what addFlag() keeps of one flag.
AddFlag(flag, result) ==
    LET details == ~call.trackedOnly \/ flag.trackEvents
    IN  [variation |-> result.variation,
         version   |-> IF details THEN flag.version ELSE Null,
         reason    |-> IF details /\ call.reasons THEN result.reason ELSE Null,
         trackEvents |-> flag.trackEvents]

FlagsState(valid, flags) == [valid |-> valid, flags |-> flags]
NoFlags == [k \in {} |-> Null]

Present == {k \in FlagKey : data[k] # Null}
Wanted == {k \in Present : call.clientOnly => data[k].clientSide}

--------------------------------------------------------------------------------
Init ==
    /\ data \in Datasets
    /\ call \in Calls
    /\ stage = "called"
    /\ sync = TRUE
    /\ evals = NoFlags
    /\ sent = <<>>
    /\ outcome = Pending
    /\ changes = 0

\* evaluateIfPossible(): an uninitialized client asks the store whether it has
\* data from before.
EvaluateIfPossible(late) ==
    /\ stage = "called" /\ ~IsAll
    /\ call.ready => ~late
    /\ sync' = ~late
    /\ IF call.ready \/ call.inited
       THEN stage' = "allowed" /\ UNCHANGED <<evals, sent, outcome>>
       ELSE LET result == ErrorResult("CLIENT_NOT_READY")
            IN  Settle(result, <<NewUnknownFlagEvent(result)>>)
    /\ UNCHANGED <<data, call, changes>>

\* variationInternal(), when it does not get as far as the store.
Refuse ==
    /\ stage = "allowed"
    /\ call.offline \/ call.key = Null
    /\ Settle(ErrorResult(IF call.offline THEN "CLIENT_NOT_READY" ELSE "FLAG_NOT_FOUND"), <<>>)
    /\ UNCHANGED <<data, call, sync, changes>>

\* variationInternal(): the store answers with the flag.
GetFlag(late) ==
    LET flag    == data[call.key]
        isSync  == sync /\ ~late
        unknown == ErrorResult("FLAG_NOT_FOUND")
        noUser  == ErrorResult("USER_NOT_SPECIFIED")
    IN  /\ stage = "allowed" /\ ~call.offline /\ call.key # Null
        /\ sync' = isSync
        /\ CASE flag = Null -> Settle(unknown, <<NewUnknownFlagEvent(unknown)>>)
             [] flag # Null /\ call.user = Null ->
                    Settle(noUser, <<NewDefaultEvent(flag, noUser)>>)
             [] OTHER -> /\ stage' = "evaluating"
                         /\ evals' = [k \in {call.key} |-> Evaluate(flag, isSync)]
                         /\ UNCHANGED <<sent, outcome>>
        /\ UNCHANGED <<data, call, changes>>

\* allFlagsState(): the store answers with all flags, and an evaluation of
\* each is started.
GetAll(late) ==
    /\ stage = "called" /\ IsAll
    /\ call.offline \/ call.user = Null => ~late
    /\ sync' = ~late
    /\ IF call.offline \/ call.user = Null
       THEN Settle(FlagsState(FALSE, NoFlags), <<>>)
       ELSE /\ stage' = "evaluating"
            /\ evals' = [k \in Wanted |-> Evaluate(data[k], ~late)]
            /\ UNCHANGED <<sent, outcome>>
    /\ UNCHANGED <<data, call, changes>>

--------------------------------------------------------------------------------
\* The prerequisite key is answered with flag: it fails if there is none.
AfterAnswer_NoCallback(stack, key, flag) ==
    IF flag = Null THEN stack ELSE Append(stack, Enter(flag))
AfterAnswer(stack, key, flag) ==
    IF flag = Null THEN Append(Front(stack), PrerequisiteFailed(Last(stack), key))
    ELSE Append(stack, Enter(flag))

\* The store answers with the prerequisite the top frame has come to.
GetPrerequisite(k, late) ==
    LET frame == Top(k)
        key   == Prereqs(frame)[frame.prereq].key
    IN  /\ Working(k) /\ frame.rule = 0 /\ frame.prereq <= Len(Prereqs(frame))
        /\ evals' = [evals EXCEPT
               ![k].sync  = @ /\ ~late,
               ![k].stack = AfterAnswer(@, key, data[key])]
        /\ UNCHANGED <<data, call, stage, sync, sent, outcome, changes>>

\* A prerequisite counts only if it is on and gives the variation asked for.
Satisfied_WhenOff(child, prereq) ==
    ~IsError(child.result) /\ child.result.variation = prereq.variation
Satisfied(child, prereq) ==
    /\ ~IsError(child.result)
    /\ child.flag.on
    /\ child.result.variation = prereq.variation

\* A frame is done: its result goes to the frame below, together with an
\* event, or is the evaluation's.
Return(k) ==
    LET stack  == evals[k].stack
        child  == Last(stack)
        parent == stack[Len(stack) - 1]
        prereq == Prereqs(parent)[parent.prereq]
    IN  /\ stage = "evaluating" /\ stack # <<>> /\ child.result # Null
        /\ evals' = IF Len(stack) = 1
             THEN [evals EXCEPT ![k].stack = <<>>, ![k].result = child.result]
             ELSE [evals EXCEPT
                    ![k].stack = Append(Front(Front(@)),
                        IF Satisfied(child, prereq) THEN [parent EXCEPT !.prereq = @ + 1]
                        ELSE PrerequisiteFailed(parent, prereq.key)),
                    ![k].events = Append(@, NewEvalEvent(child.flag, child.result, parent.flag.key))]
        /\ UNCHANGED <<data, call, stage, sync, sent, outcome, changes>>

\* evalRules(): all prerequisites hold; the targets come first.
TestTargets(k) ==
    LET frame  == Top(k)
        target == TargetOf(frame.flag, evals[k].user)
    IN  /\ Working(k) /\ frame.rule = 0 /\ frame.prereq > Len(Prereqs(frame))
        /\ IF target = 0 THEN Replace(k, [frame EXCEPT !.rule = 1])
           ELSE Decide(k, GetVariation(frame.flag, frame.flag.targets[target].variation,
                                       <<"TARGET_MATCH">>))
        /\ UNCHANGED <<data, call, stage, sync, sent, outcome, changes>>

AtClause(k) ==
    /\ Working(k)
    /\ Top(k).rule \in DOMAIN Top(k).flag.rules
    /\ Rule(Top(k)).clauses # Null
    /\ Top(k).clause \in DOMAIN Rule(Top(k)).clauses

MoreSegments(k) == /\ Clause(Top(k)).op = "segmentMatch"
                   /\ Top(k).value \in DOMAIN Clause(Top(k)).values

\* A clause that needs no segment, or has run out of them.
TestClause(k) ==
    LET frame   == Top(k)
        clause  == Clause(frame)
        verdict == IF clause.op = "segmentMatch" THEN MaybeNegate(clause, "no")
                   ELSE ClauseMatchUserNoSegments(clause, evals[k].user)
    IN  /\ AtClause(k) /\ ~MoreSegments(k)
        /\ IF verdict = "throws" THEN Throw(evals[k].sync)
           ELSE Replace(k, AfterVerdict(frame, verdict)) /\ UNCHANGED <<stage, sent, outcome>>
        /\ UNCHANGED <<data, call, sync, changes>>

\* The store answers with a segment a clause names.
GetSegment(k, late) ==
    LET frame   == Top(k)
        clause  == Clause(frame)
        segment == data[clause.values[frame.value]]
        isSync  == evals[k].sync /\ ~late
        verdict == IF segment = Null THEN "no" ELSE SegmentMatchUser(segment, evals[k].user)
        next    == IF verdict = "no" THEN [frame EXCEPT !.value = @ + 1]
                   ELSE AfterVerdict(frame, MaybeNegate(clause, "yes"))
    IN  /\ AtClause(k) /\ MoreSegments(k)
        /\ IF verdict = "throws" THEN Throw(isSync)
           ELSE /\ evals' = [evals EXCEPT ![k].sync = isSync,
                                          ![k].stack = Append(Front(@), next)]
                /\ UNCHANGED <<stage, sent, outcome>>
        /\ UNCHANGED <<data, call, sync, changes>>

\* All clauses of a rule hold, the rule has none at all, or no rule is left.
EndRule(k) ==
    LET frame == Top(k)
        flag  == frame.flag
        user  == evals[k].user
    IN  /\ Working(k) /\ frame.rule > 0 /\ ~AtClause(k)
        /\ IF frame.rule > Len(flag.rules)
           THEN Decide(k, GetResultForVariationOrRollout(flag.fallthrough, user, flag,
                                                         <<"FALLTHROUGH">>))
           ELSE IF Rule(frame).clauses = Null THEN Replace(k, AfterVerdict(frame, "no"))
           ELSE Decide(k, GetResultForVariationOrRollout(Rule(frame), user, flag,
                                                         RuleReason(flag, Rule(frame))))
        /\ UNCHANGED <<data, call, stage, sync, sent, outcome, changes>>

--------------------------------------------------------------------------------
\* variationInternal(): the events of the prerequisites go first, then the
\* flag's own; a result without a variation becomes the default value.
FinishVariation ==
    LET e == evals[call.key]
    IN  /\ stage = "evaluating" /\ ~IsAll /\ e.result # Null
        /\ Settle(e.result, Append(e.events, NewEvalEvent(e.flag, e.result, Null)))
        /\ UNCHANGED <<data, call, sync, changes>>

FinishAllFlags ==
    /\ stage = "evaluating" /\ IsAll
    /\ \A k \in DOMAIN evals : evals[k].result # Null
    /\ Settle(FlagsState(TRUE, [k \in DOMAIN evals |-> AddFlag(evals[k].flag, evals[k].result)]),
              <<>>)
    /\ UNCHANGED <<data, call, sync, changes>>

\* The data source or another process changes what the store holds.
Change(c) ==
    /\ stage # "settled" /\ changes < MaxChanges
    /\ data[c.key] # c.item
    /\ data' = [data EXCEPT ![c.key] = c.item]
    /\ changes' = changes + 1
    /\ UNCHANGED <<call, stage, sync, evals, sent, outcome>>

Work(k) ==
    \/ \E late \in BOOLEAN : GetPrerequisite(k, late) \/ GetSegment(k, late)
    \/ Return(k) \/ TestTargets(k) \/ TestClause(k) \/ EndRule(k)

Proceed ==
    \/ \E late \in BOOLEAN : EvaluateIfPossible(late) \/ GetFlag(late) \/ GetAll(late)
    \/ Refuse
    \/ \E k \in DOMAIN evals : Work(k)
    \/ FinishVariation
    \/ FinishAllFlags

Next == Proceed \/ \E c \in Changes : Change(c)

\* The store answers every read in the end.
Spec == Init /\ [][Next]_vars /\ WF_vars(Proceed)
================================================================================
