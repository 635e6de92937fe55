---------------------------- MODULE PolicyEngine ----------------------------
(***************************************************************************)
(* The policy engine of glc/policy/engine.py with the SIGHUP handler that  *)
(* glc/main.py installs: the verdict on a tool call, the lazily built      *)
(* engine, and the reload of policy.yaml under it.                         *)
(*                                                                         *)
(* Two locks that are not reentrant guard the module-level engine and the  *)
(* rules in it.  The signal handler runs on the main thread, between two   *)
(* of its instructions, whatever that thread was doing: the stack of the   *)
(* main thread may hold an interrupted evaluate(), an interrupted handler, *)
(* and the handler that runs.  The operator rewrites policy.yaml in two    *)
(* steps, the truncation and the write.                                    *)
(***************************************************************************)
EXTENDS Integers, Sequences, FiniteSets, SequencesExt

CONSTANTS
  Main, Workers,   \* the main thread and the others that call evaluate()
  Policies,        \* rule lists the operator may write
  Calls,           \* tool calls: [tool, channel, trust_level, params]
  Malformed,       \* a file that does not parse or validate
  NotBuilt,        \* _engine before the first get_engine()
  Free,            \* a lock nobody holds
  NoVerdict,       \* a thread without an answer yet
  MaxWrites, MaxSignals, MaxCalls   \* bounds: rewrites of the file, SIGHUPs, calls

ASSUME ThreadsAssumption == Main \notin Workers
ASSUME PoliciesAssumption ==
  \A rules \in Policies : rules # NotBuilt /\ rules \in Seq(ToSet(rules))

Threads == {Main} \union Workers
Files == Policies \union {<< >>, Malformed}   \* << >>: the truncated file has no rules

DenyEverything ==
  << [tool |-> "*", channel |-> "*", trust_level |-> "*",
      condition |-> {c.params : c \in Calls}, action |-> "deny"] >>

ASSUME NotBuiltAssumption == NotBuilt \notin {<< >>, DenyEverything}
-----------------------------------------------------------------------------
(* A rule's condition is the set of parameters that meet it, all of them   *)
(* when the rule has none (_matches_condition).                            *)
Matches(rule, call) ==
  /\ rule.tool \in {"*", call.tool}
  /\ rule.channel \in {"*", call.channel}
  /\ rule.trust_level \in {"*", call.trust_level}
  /\ call.params \in rule.condition

(* The loop of evaluate(): the index of the first rule that matches, and   *)
(* of the first that matches and denies; 0 for none.                       *)
Scan(rules, call) ==
  LET found[i \in 0..Len(rules)] ==
        IF i = 0 THEN [first |-> 0, deny |-> 0]
        ELSE IF ~Matches(rules[i], call) THEN found[i - 1]
        ELSE [first |-> IF found[i - 1].first = 0 THEN i ELSE found[i - 1].first,
              deny  |-> IF found[i - 1].deny = 0 /\ rules[i].action = "deny" THEN i
                        ELSE found[i - 1].deny]
  IN  found[Len(rules)]

Default(call) == IF call.trust_level = "owner_paired" THEN "allow" ELSE "deny"

(* Mutant: the first match decides, deny or not.                           *)
VerdictFirstMatch(rules, call) ==
  LET found == Scan(rules, call)
  IN  IF found.first # 0 THEN rules[found.first].action ELSE Default(call)

Verdict(rules, call) ==
  LET found == Scan(rules, call)
  IN  CASE found.deny # 0 -> "deny"
        [] found.deny = 0 /\ found.first # 0 -> rules[found.first].action
        [] OTHER -> Default(call)

(* from_yaml(): the rules in the file, or the rule that denies everything. *)
FromYaml(content) == IF content = Malformed THEN DenyEverything ELSE content
-----------------------------------------------------------------------------
VARIABLES
  file,        \* policy.yaml
  writing,     \* the operator has truncated the file and not written it
  engine,      \* the rules in force (_engine.config), or NotBuilt
  engineLock,  \* _engine_lock
  rulesLock,   \* PolicyEngine._lock
  frames,      \* frames[t]: the calls of thread t, the running one last
  hup,         \* a SIGHUP is pending
  answer,      \* the verdict that the last step returned, or NoVerdict
  versions,    \* history: the rule lists policy.yaml has held completely
  current,     \* history: a SIGHUP was sent and the file not touched since
  nested,      \* history: a handler has interrupted another
  counts       \* history: writes, signals and calls so far

store == <<file, writing, versions, current>>
locks == <<engineLock, rulesLock>>
policyVars == <<store, engine, locks, frames, hup, answer, nested, counts>>

Top(t) == Last(frames[t])
Running(t, step) == frames[t] # << >> /\ Top(t).step = step
Goto(t, frame) == frames' = [frames EXCEPT ![t] = Append(Front(@), frame)]
Silent == answer' = NoVerdict
Pop(t) == frames' = [frames EXCEPT ![t] = Front(@)]

(* seen: history, the rules that were in force while the call ran.         *)
NewEvaluate(call) ==
  [op |-> "evaluate", step |-> "getEngine", call |-> call, rules |-> << >>,
   seen |-> IF engine = NotBuilt THEN {} ELSE {engine}]
NewReload == [op |-> "reload", step |-> "getEngine", rules |-> << >>]

(* Every evaluate() under way sees the rules that come into force.         *)
Seen(stack, rules) ==
  [i \in 1..Len(stack) |->
    IF stack[i].op = "evaluate" THEN [stack[i] EXCEPT !.seen = @ \union {rules}] ELSE stack[i]]

PolicyInit ==
  /\ file \in Policies
  /\ writing = FALSE
  /\ engine = NotBuilt
  /\ engineLock = Free /\ rulesLock = Free
  /\ frames = [t \in Threads |-> << >>]
  /\ hup = FALSE
  /\ answer = NoVerdict
  /\ versions = {file}
  /\ current = TRUE
  /\ nested = FALSE
  /\ counts = [writes |-> 0, signals |-> 0, calls |-> 0]

(* evaluate(): a thread asks for a verdict.                                *)
Evaluate(t, call) ==
  /\ frames[t] = << >>
  /\ counts.calls < MaxCalls
  /\ counts' = [counts EXCEPT !.calls = @ + 1]
  /\ frames' = [frames EXCEPT ![t] = << NewEvaluate(call) >>]
  /\ Silent
  /\ UNCHANGED <<store, engine, locks, hup, nested>>

(* get_engine(): enter the module lock...                                  *)
LockEngine(t) ==
  /\ Running(t, "getEngine")
  /\ engineLock = Free
  /\ engineLock' = t
  /\ Goto(t, [Top(t) EXCEPT !.step = "lookEngine"])
  /\ Silent
  /\ UNCHANGED <<store, engine, rulesLock, hup, nested, counts>>

(* ... and build the engine from the file if there is none: the step of    *)
(* thread t, next, and the engine after it.                                *)
Look(t) ==
  LET next == IF Top(t).op = "evaluate" THEN "getRules" ELSE "readFile"
      stacks == [frames EXCEPT ![t] = Append(Front(@), [Top(t) EXCEPT !.step = next])]
      fresh == FromYaml(file)
  IN  IF engine = NotBuilt
      THEN engine' = fresh /\ frames' = [u \in Threads |-> Seen(stacks[u], fresh)]
      ELSE frames' = stacks /\ UNCHANGED engine

(* Mutant: the module lock is not left.                                    *)
BuildEngineKeepingLock(t) ==
  /\ Running(t, "lookEngine")
  /\ Look(t)
  /\ Silent
  /\ UNCHANGED <<store, locks, hup, nested, counts>>

(* The lock is left in the same step: nobody sees _engine before that.     *)
BuildEngine(t) ==
  /\ Running(t, "lookEngine")
  /\ Look(t)
  /\ engineLock' = Free
  /\ Silent
  /\ UNCHANGED <<store, rulesLock, hup, nested, counts>>

(* reload(): parse and validate the file, before any lock.                 *)
ReadFile(t) ==
  /\ Running(t, "readFile")
  /\ Goto(t, [Top(t) EXCEPT !.step = "getRules", !.rules = FromYaml(file)])
  /\ Silent
  /\ UNCHANGED <<store, engine, locks, hup, nested, counts>>

(* evaluate() and reload(): enter the engine's lock.                       *)
LockRules(t) ==
  /\ Running(t, "getRules")
  /\ rulesLock = Free
  /\ rulesLock' = t
  /\ Goto(t, [Top(t) EXCEPT !.step = "haveRules"])
  /\ Silent
  /\ UNCHANGED <<store, engine, engineLock, hup, nested, counts>>

(* evaluate(): copy the rules and leave the lock.                          *)
Snapshot(t) ==
  /\ Running(t, "haveRules") /\ Top(t).op = "evaluate"
  /\ rulesLock' = Free
  /\ Goto(t, [Top(t) EXCEPT !.step = "decide", !.rules = engine])
  /\ Silent
  /\ UNCHANGED <<store, engine, engineLock, hup, nested, counts>>

(* Mutant: the rules that were read are dropped.                           *)
InstallNothing(t) ==
  /\ Running(t, "haveRules") /\ Top(t).op = "reload"
  /\ rulesLock' = Free
  /\ Pop(t)
  /\ Silent
  /\ UNCHANGED <<store, engine, engineLock, hup, nested, counts>>

(* reload(): install the rules that were read and leave the lock.          *)
Install(t) ==
  /\ Running(t, "haveRules") /\ Top(t).op = "reload"
  /\ rulesLock' = Free
  /\ engine' = Top(t).rules
  /\ frames' = [u \in Threads |->
       Seen(IF u = t THEN Front(frames[u]) ELSE frames[u], engine')]
  /\ Silent
  /\ UNCHANGED <<store, engineLock, hup, nested, counts>>

(* evaluate(): the verdict, on the copy.                                   *)
Decide(t) ==
  /\ Running(t, "decide")
  /\ answer' = [call |-> Top(t).call, seen |-> Top(t).seen,
                action |-> Verdict(Top(t).rules, Top(t).call)]
  /\ Pop(t)
  /\ UNCHANGED <<store, engine, locks, hup, nested, counts>>

(* Python runs the handler on the main thread, on top of what it was doing.*)
HandleSignal ==
  /\ hup
  /\ hup' = FALSE
  /\ frames' = [frames EXCEPT ![Main] = Append(@, NewReload)]
  /\ nested' = (nested \/ \E i \in 1..Len(frames[Main]) : frames[Main][i].op = "reload")
  /\ Silent
  /\ UNCHANGED <<store, engine, locks, counts>>

(* The operator truncates policy.yaml...                                   *)
Truncate ==
  /\ ~writing
  /\ counts.writes < MaxWrites
  /\ counts' = [counts EXCEPT !.writes = @ + 1]
  /\ file' = << >>
  /\ writing' = TRUE
  /\ current' = FALSE
  /\ Silent
  /\ UNCHANGED <<engine, locks, frames, hup, versions, nested>>

(* ... writes it...                                                        *)
Write(policy) ==
  /\ writing
  /\ file' = policy
  /\ writing' = FALSE
  /\ versions' = versions \union ({policy} \ {Malformed})
  /\ Silent
  /\ UNCHANGED <<engine, locks, frames, hup, current, nested, counts>>

(* ... and, then or at any other time, sends SIGHUP.                       *)
SendSignal ==
  /\ counts.signals < MaxSignals
  /\ counts' = [counts EXCEPT !.signals = @ + 1]
  /\ hup' = TRUE
  /\ current' = ~writing
  /\ Silent
  /\ UNCHANGED <<file, writing, versions, engine, locks, frames, nested>>

Steps(t) ==
  \/ LockEngine(t)
  \/ BuildEngine(t)
  \/ ReadFile(t)
  \/ LockRules(t)
  \/ Snapshot(t)
  \/ Install(t)
  \/ Decide(t)

Operator ==
  \/ Truncate
  \/ \E policy \in Policies \union {Malformed} : Write(policy)
  \/ SendSignal

PolicyNext ==
  \/ \E t \in Threads : Steps(t) \/ \E call \in Calls : Evaluate(t, call)
  \/ HandleSignal
  \/ Operator

(* A thread that can go on does, and a pending signal is handled.          *)
Fairness == WF_policyVars(HandleSignal) /\ \A t \in Threads : WF_policyVars(Steps(t))

PolicySpec == PolicyInit /\ [][PolicyNext]_policyVars /\ Fairness
-----------------------------------------------------------------------------
Frame == [op : {"evaluate"}, step : {"getEngine", "lookEngine", "getRules",
                                     "haveRules", "decide"},
          call : Calls, rules : Policies \union {<< >>, DenyEverything},
          seen : SUBSET (Policies \union {<< >>, DenyEverything})]
   \union [op : {"reload"}, step : {"getEngine", "lookEngine", "readFile",
                                    "getRules", "haveRules"},
          rules : Policies \union {<< >>, DenyEverything}]

PolicyTypeOK ==
  /\ file \in Files /\ writing \in BOOLEAN
  /\ engine \in Policies \union {<< >>, DenyEverything, NotBuilt}
  /\ engineLock \in Threads \union {Free} /\ rulesLock \in Threads \union {Free}
  /\ \A t \in Threads : \A i \in 1..Len(frames[t]) : frames[t][i] \in Frame
  /\ \A t \in Workers : Len(frames[t]) <= 1
  /\ versions \subseteq Policies
  /\ hup \in BOOLEAN /\ current \in BOOLEAN /\ nested \in BOOLEAN

(* What POLICY_GUIDE.md says a rule list means: any matching deny rule     *)
(* wins, else the first matching rule, else the default.                   *)
Meaning(rules, call) ==
  LET matching == {i \in 1..Len(rules) : Matches(rules[i], call)}
  IN  IF \E i \in matching : rules[i].action = "deny" THEN "deny"
      ELSE IF matching = {} THEN Default(call)
      ELSE rules[CHOOSE i \in matching : \A j \in matching : i <= j].action

(* A verdict is what one rule list means, a list that was in force at some *)
(* moment of the call: a reload in the middle of an evaluate() never mixes *)
(* two lists, and never lets a verdict rest on a list long replaced.       *)
VerdictOfOneList ==
  answer # NoVerdict =>
    \E rules \in answer.seen : answer.action = Meaning(rules, answer.call)

(* A caller that is not the owner gets nothing that every list the         *)
(* operator ever completed denies, also when the file was read truncated,  *)
(* malformed or in the middle of a reload.                                 *)
DeniedByEveryVersion ==
  answer # NoVerdict =>
    \/ answer.call.trust_level = "owner_paired"
    \/ answer.action = "deny"
    \/ \E rules \in versions : Meaning(rules, answer.call) = answer.action

(* What a caller is told, whatever reloads and edits fall into its call.   *)
VerdictsHold == PolicyTypeOK /\ VerdictOfOneList /\ DeniedByEveryVersion

(* No signal pending, no call under way.                                   *)
AllQuiet == ~hup /\ \A t \in Threads : frames[t] = << >>

(* Once a SIGHUP sent after the last edit has been handled, and no handler *)
(* interrupted another, the rules in force are those of the file.          *)
ReloadTakesEffect ==
  AllQuiet /\ current /\ ~nested /\ engine # NotBuilt => engine = FromYaml(file)

(* The main thread waits for a lock that a call it interrupted holds.      *)
WaitsForItself ==
  \/ Running(Main, "getEngine") /\ engineLock = Main
  \/ Running(Main, "getRules") /\ rulesLock = Main

(* Every call and every reload ends, unless the main thread waits for      *)
(* itself: no two threads ever wait for each other, whatever the order of  *)
(* the two locks and of the signals.                                       *)
EndsUnlessMainStuck == ~AllQuiet ~> (AllQuiet \/ WaitsForItself)

(* POLICY_GUIDE.md:13: "Hot-reload by sending SIGHUP to the gateway        *)
(* process".  It does not hold: the handler may wait for a lock that the   *)
(* call it interrupted will never leave.                                   *)
SignalIsHandled == hup ~> AllQuiet
=============================================================================
