------------------------------ MODULE Reactor ------------------------------
(***************************************************************************)
(* BoolExpr, World, Catalog and Evaluate: three-valued evaluation of rule  *)
(* expressions over facts, the clock and the deployed rules, recording     *)
(* everything an answer looked at.  Reactor: standing questions with their *)
(* answers, indexed by what the answers observed, recomputed when the host *)
(* reports what changed; and the evaluation cache of request handlers.     *)
(*                                                                         *)
(* An environment is [facts, now, rules, subject]: `facts` maps            *)
(* <<entity, attribute>> to a value or Missing, `rules` maps a key to an   *)
(* expression or Missing.  An observation is [key, content]; equal digests *)
(* are equal contents.  Evaluations are compared as wholes, which is what  *)
(* equality of their content ids means.                                    *)
(***************************************************************************)
EXTENDS Integers, Sequences, FiniteSets

CONSTANTS SUBJECT, Missing, DayLength

lit(value) == [tag |-> "Lit", value |-> value]
exists(entity, attribute) == [tag |-> "Exists", entity |-> entity, attribute |-> attribute]
eq(entity, attribute, value) ==
    [tag |-> "Eq", entity |-> entity, attribute |-> attribute, value |-> value]
before(entity, attribute, granularity) ==
    [tag |-> "Before", entity |-> entity, attribute |-> attribute, granularity |-> granularity]
rule(key) == [tag |-> "Rule", key |-> key]
not(expr) == [tag |-> "Not", expr |-> expr]
all(exprs) == [tag |-> "All", exprs |-> exprs]
any(exprs) == [tag |-> "Any", exprs |-> exprs]

\* The facts, and the rules, an expression names itself.
RECURSIVE mentions(_), mentionsRules(_)
mentions(expr) ==
    CASE expr.tag \in {"Exists", "Eq", "Before"} -> {<<expr.entity, expr.attribute>>}
      [] expr.tag = "Not" -> mentions(expr.expr)
      [] expr.tag \in {"All", "Any"} -> UNION {mentions(expr.exprs[i]) : i \in DOMAIN expr.exprs}
      [] OTHER -> {}
mentionsRules(expr) ==
    CASE expr.tag = "Rule" -> {expr.key}
      [] expr.tag = "Not" -> mentionsRules(expr.expr)
      [] expr.tag \in {"All", "Any"} ->
           UNION {mentionsRules(expr.exprs[i]) : i \in DOMAIN expr.exprs}
      [] OTHER -> {}

-----------------------------------------------------------------------------
(* Observations. *)

bucket(now, granularity) == IF granularity = "day" THEN now \div DayLength ELSE now

factKey(entity, attribute) == <<"fact", entity, attribute>>
ruleKey(key) == <<"config", key>>
clockKey(granularity) == <<"clock", granularity>>

\* An absent fact or rule is observed like a present one.
Observation(key, content) == [key |-> key, content |-> content]

\* Faulty form: a fact that is not there leaves no trace.
observe_Bug(env, entity, attribute) ==
    IF env.facts[<<entity, attribute>>] = Missing THEN {}
    ELSE {Observation(factKey(entity, attribute), env.facts[<<entity, attribute>>])}

observe(env, entity, attribute) ==
    {Observation(factKey(entity, attribute), env.facts[<<entity, attribute>>])}

\* Faulty form: time never moves for a recorded answer.
reobserve_Bug(observed, env) ==
    {Observation(o.key, CASE o.key[1] = "clock" -> o.content
                          [] o.key[1] = "config" -> env.rules[o.key[2]]
                          [] OTHER -> env.facts[<<o.key[2], o.key[3]>>]) : o \in observed}

\* Replay recorded dependencies against the current inputs.
reobserve(observed, env) ==
    {Observation(o.key, CASE o.key[1] = "clock" -> bucket(env.now, o.key[2])
                          [] o.key[1] = "config" -> env.rules[o.key[2]]
                          [] OTHER -> env.facts[<<o.key[2], o.key[3]>>]) : o \in observed}

-----------------------------------------------------------------------------
(* Evaluation; truths are "true", "false" and "unknown". *)

notOf(t) == CASE t = "unknown" -> t [] t = "true" -> "false" [] OTHER -> "true"

allOf(ts) == IF "false" \in ts THEN "false" ELSE IF "unknown" \in ts THEN "unknown" ELSE "true"

anyOf(ts) == IF "true" \in ts THEN "true" ELSE IF "unknown" \in ts THEN "unknown" ELSE "false"

node(truth, expr, observed, children) ==
    [ truth |-> truth, expr |-> expr, children |-> children,
      observed |-> observed \cup UNION {children[i].observed : i \in DOMAIN children} ]

RECURSIVE go(_, _, _)
go(expr, env, calling) ==
    LET entity == IF expr.entity = SUBJECT THEN env.subject ELSE expr.entity
        value == env.facts[<<entity, expr.attribute>>]
        seen == observe(env, entity, expr.attribute)
        truthOf(b) == IF b THEN "true" ELSE "false"
        tick == bucket(env.now, expr.granularity)
        children == [i \in DOMAIN expr.exprs |-> go(expr.exprs[i], env, calling)]
        truths == {children[i].truth : i \in DOMAIN children}
    IN  CASE expr.tag = "Lit" -> node(truthOf(expr.value), expr, {}, <<>>)
          [] expr.tag \in {"Exists", "Eq", "Before"} /\ entity = Missing ->
               node("unknown", expr, {}, <<>>)
          [] expr.tag = "Exists" /\ entity # Missing ->
               node(truthOf(value # Missing), expr, seen, <<>>)
          [] expr.tag = "Eq" /\ entity # Missing ->
               node(IF value = Missing THEN "unknown" ELSE truthOf(value = expr.value),
                    expr, seen, <<>>)
          [] expr.tag = "Before" /\ entity # Missing ->
               node(IF value = Missing THEN "unknown"
                    ELSE truthOf(bucket(value, expr.granularity) < tick),
                    expr, seen \cup {Observation(clockKey(expr.granularity), tick)}, <<>>)
          [] expr.tag = "Rule" ->
               LET found == env.rules[expr.key]
                   looked == {Observation(ruleKey(expr.key), found)}
               IN  IF found = Missing \/ expr.key \in calling
                     THEN node("unknown", expr, looked, <<>>)
                     ELSE LET child == go(found, env, calling \cup {expr.key})
                          IN  node(child.truth, expr, looked, <<child>>)
          [] expr.tag = "Not" ->
               LET child == go(expr.expr, env, calling)
               IN  node(notOf(child.truth), expr, {}, <<child>>)
          [] expr.tag = "All" -> node(allOf(truths), expr, {}, children)
          [] expr.tag = "Any" -> node(anyOf(truths), expr, {}, children)

evaluate(expr, env) == go(expr, env, {})

-----------------------------------------------------------------------------
(* Reuse: the cache of Evaluate and the preview of a deployment. *)

\* cached: the kept answers of an expression whose recorded inputs are all
\* unchanged.  Answers of one dependency shape differ in their contents, so
\* grouping them by shape finds the same ones.
Hits(kept, env) == {e \in kept : reobserve(e.observed, env) = e.observed}

\* impact: the answer read no rule that moves, and is not evaluated again.
Skipped(evaluation, after) ==
    LET config == {o \in evaluation.observed : o.key[1] = "config"}
    IN  reobserve(config, after) = config

-----------------------------------------------------------------------------
(* ConfigRuntime: the facts read before a decision is evaluated. *)

RECURSIVE Called(_, _, _)
Called(keys, rules, visited) ==
    IF keys \subseteq visited THEN visited
    ELSE Called(UNION {IF rules[k] = Missing THEN {} ELSE mentionsRules(rules[k]) : k \in keys},
                rules, visited \cup keys)

\* The static closure: the facts of the expression and of every rule it
\* reaches.  A missing rule contributes none.
factReads(expr, env) ==
    LET reached == {k \in Called(mentionsRules(expr), env.rules, {}) : env.rules[k] # Missing}
    IN  {<<IF m[1] = SUBJECT THEN env.subject ELSE m[1], m[2]>> :
           m \in UNION {mentions(e) : e \in {expr} \cup {env.rules[k] : k \in reached}}}

\* worldFromReads, when every fact read has at most one scalar value
DecisionWorld(expr, env) ==
    [env EXCEPT !.facts = [f \in DOMAIN env.facts |->
                             IF f \in factReads(expr, env) THEN env.facts[f] ELSE Missing]]

-----------------------------------------------------------------------------
(***************************************************************************)
(* The reactor.  `env` is the host's world: facts, clock and published     *)
(* rules.  `changed` holds the keys of the changes the host has made and   *)
(* not yet reported.  A registration was made for a subject; Registration  *)
(* does not keep it, and refresh evaluates with the subject of the         *)
(* reacting call.                                                          *)
(***************************************************************************)
CONSTANTS
    Interests, Questions, People, Entities, Attributes, RuleKeys,
    Bodies,            \* the expressions a rule may be published with
    Instants, FactValues, Unregistered, MaxChanges

VARIABLES env, changed, changes, registrations, index, cache

reactorVars == <<env, changed, changes, registrations, index, cache>>

\* The environment of one subject.
Env(subject) == [facts |-> env.facts, now |-> env.now, rules |-> env.rules, subject |-> subject]

-----------------------------------------------------------------------------
(* The host's changes, each with the observation keys it touches. *)

Change(next, keys) ==
    /\ changes < MaxChanges
    /\ next # env
    /\ env' = next
    /\ changed' = changed \cup keys
    /\ changes' = changes + 1
    /\ UNCHANGED <<registrations, index, cache>>

Submit == \E e \in Entities, a \in Attributes, v \in FactValues \cup {Missing} :
            Change([env EXCEPT !.facts[<<e, a>>] = v], {factKey(e, a)})

Publish == \E k \in RuleKeys, body \in Bodies \cup {Missing} :
             Change([env EXCEPT !.rules[k] = body], {ruleKey(k)})

\* Every instant is a change of the instant clock; a new day of both.
Pass == \E t \in {u \in Instants : u > env.now} :
          Change([env EXCEPT !.now = t],
                 {clockKey("instant")} \cup
                 (IF bucket(t, "day") # bucket(env.now, "day") THEN {clockKey("day")} ELSE {}))

-----------------------------------------------------------------------------

ObservedKeys(evaluation) == {o.key : o \in evaluation.observed}

Registered == {k \in Interests : registrations[k] # Unregistered}

\* reindex: the edges of the previous answer go, those of the new one come.
Reindexed(edges, key, observed) ==
    {e \in edges : e[2] # key} \cup {<<slot, key>> : slot \in observed}

\* register, and registerAll one entry after the other
Register(key, question, subject) ==
    \E evaluation \in {evaluate(question, Env(subject))} :
        /\ registrations' = [registrations EXCEPT ![key] =
             [expr |-> question, subject |-> subject, evaluation |-> evaluation]]
        /\ index' = Reindexed(index, key, ObservedKeys(evaluation))
        /\ UNCHANGED <<env, changed, changes, cache>>

Unregister(key) ==
    /\ key \in Registered
    /\ registrations' = [registrations EXCEPT ![key] = Unregistered]
    /\ index' = Reindexed(index, key, {})
    /\ UNCHANGED <<env, changed, changes, cache>>

affected(keys) == {e[2] : e \in {f \in index : f[1] \in keys}}

\* react: affected, then refresh of all of them with the subject at hand
React(subject) ==
    /\ changed # {}
    /\ \E fresh \in {[k \in affected(changed) |-> evaluate(registrations[k].expr, Env(subject))]} :
         /\ registrations' = [k \in Interests |->
              IF k \in DOMAIN fresh THEN [registrations[k] EXCEPT !.evaluation = fresh[k]]
              ELSE registrations[k]]
         /\ index' = {e \in index : e[2] \notin DOMAIN fresh} \cup
                     UNION {{<<slot, k>> : slot \in ObservedKeys(fresh[k])} : k \in DOMAIN fresh}
    /\ changed' = {}
    /\ UNCHANGED <<env, changes, cache>>

\* cached, on a miss
Remember(question, subject) ==
    /\ Hits(cache[question], Env(subject)) = {}
    /\ cache' = [cache EXCEPT ![question] = @ \cup {evaluate(question, Env(subject))}]
    /\ UNCHANGED <<env, changed, changes, registrations, index>>

-----------------------------------------------------------------------------

ReactorInit ==
    /\ env = [facts |-> [f \in Entities \X Attributes |-> Missing],
              now |-> CHOOSE t \in Instants : \A u \in Instants : t <= u,
              rules |-> [k \in RuleKeys |-> Missing]]
    /\ changed = {} /\ changes = 0
    /\ registrations = [k \in Interests |-> Unregistered]
    /\ index = {}
    /\ cache = [q \in Questions |-> {}]

HostNext == Submit \/ Publish \/ Pass

\* The reactor and the cache share nothing but the host's world.
ReactorNext ==
    \/ \E k \in Interests, q \in Questions, s \in People : Register(k, q, s)
    \/ \E k \in Interests : Unregister(k)
    \/ \E s \in People : React(s)

CacheNext == \E q \in Questions, s \in People : Remember(q, s)

-----------------------------------------------------------------------------

\* A kept answer that is no longer what evaluation gives is found by the
\* index from the changes not yet reported, absent facts, unpublished rules
\* and the clock included; so after react every answer is current.
StaleIsAffected ==
    \A k \in Registered :
        LET r == registrations[k]
        IN  r.evaluation = evaluate(r.expr, Env(r.subject)) \/ k \in affected(changed)

\* The index holds exactly the edges of the kept answers: no phantom
\* dependents and none missing.
EdgesExact ==
    index = UNION {{<<slot, k>> : slot \in ObservedKeys(registrations[k].evaluation)} : k \in Registered}

\* Reporting the changes is enough to bring every kept answer up to date,
\* and nothing else is ever re-evaluated.
ReactionsExact == StaleIsAffected /\ EdgesExact

\* A kept answer is only served where evaluation would give it again, and
\* an answer skipped by a deployment preview cannot flip.
ReuseSound ==
    \A q \in Questions, s \in People :
        /\ \A e \in Hits(cache[q], Env(s)) : e = evaluate(q, Env(s))
        /\ \A e \in cache[q], k \in RuleKeys, body \in Bodies \cup {Missing} :
             LET now == [Env(s) EXCEPT !.rules[k] = body]
             IN  e = evaluate(q, Env(s)) /\ Skipped(e, now) => evaluate(q, now).truth = e.truth

\* A decision taken on the facts read beforehand is the decision the whole
\* world gives.
DecisionSeesAll ==
    \A q \in Questions, s \in People \ {Missing} :
        evaluate(q, DecisionWorld(q, Env(s))) = evaluate(q, Env(s))

\* Every answer that is not computed on the world as it is, the kept one and
\* the one taken on facts read beforehand, is what the world would give.
ShortcutsSound == ReuseSound /\ DecisionSeesAll

=============================================================================
