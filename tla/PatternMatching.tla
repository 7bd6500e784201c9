---------------------------- MODULE PatternMatching ----------------------------
(***************************************************************************)
(* The match statement: the nested conditional that it is translated to,   *)
(* next to what Python does.                                               *)
(*                                                                         *)
(* A value is [cls, n, f]: its class, what tells it from the others of its *)
(* class, and for an object the value of its field f, as <<value>>.        *)
(*                                                                         *)
(* Patterns: "as" (a name, None for `_', around a pattern, None for any),  *)
(* "single" (None, True, False), "value" (==), "class" (whose keyword      *)
(* patterns are all about f) and "or".                                     *)
(***************************************************************************)
EXTENDS Naturals, Sequences, FiniteSets

CONSTANTS Matches,      \* sequence of sets of [subject, before, cases, after]
          None

VARIABLES task,     \* a match statement with the values its subject and names have
          state     \* at: "trying" a case, "body" of one, "after" the statement, "left"
                    \* or "rejected" by a definedness check; the case, the
                    \* local variables that are defined, the names that were read

vars == <<task, state>>

Superclasses(c) == CASE c = "bool" -> {"bool", "int"} [] c = "B" -> {"B", "A"} [] OTHER -> {c}
IsInstance(v, c) == c \in Superclasses(v.cls)
\* __eq__ of numbers is that of their values, of other objects identity.
IsEqual(v, w) == v = w \/ (IsInstance(v, "int") /\ IsInstance(w, "int") /\ v.n = w.n)

(***************************************************************************)
(* The translation.                                                        *)
(***************************************************************************)
\* A mutant: True and False are compared with ==, so that 1 is True.
SingletonByEquality(v, w) == IsEqual(v, w)
\* None is null; True and False are isinstance(subject, bool) and the unboxed value.
IsSingleton(v, w) == IF w.cls = "none" THEN v = w ELSE IsInstance(v, "bool") /\ v.n = w.n

RECURSIVE Condition(_, _)
\* The condition under which a case is taken, its guard aside.
Condition(p, v) ==
  CASE p.p = "as"     -> p.sub # None => Condition(p.sub, v)
    [] p.p = "single" -> IsSingleton(v, p.v)
    [] p.p = "value"  -> IsEqual(v, p.v)
    [] p.p = "class"  -> IsInstance(v, p.cls) /\ \A i \in DOMAIN p.kw : Condition(p.kw[i], v.f[1])
    [] p.p = "or"     -> \E i \in DOMAIN p.alts : Condition(p.alts[i], v)

\* While its guard is translated, the names of a chain of `as' mean the subject.
RECURSIVE GuardAliases(_)
GuardAliases(p) ==
  IF p.p # "as" THEN {}
  ELSE (IF p.name = None THEN {} ELSE {p.name}) \cup (IF p.sub = None THEN {} ELSE GuardAliases(p.sub))

RECURSIVE Assignments(_, _)
\* The variables that are assigned and set defined: those of or-patterns are not.
Assignments(p, v) ==
  CASE p.p = "as"    -> (IF p.name = None THEN {} ELSE {[name |-> p.name, v |-> v]})
                          \cup (IF p.sub = None THEN {} ELSE Assignments(p.sub, v))
    [] p.p = "class" -> UNION {Assignments(p.kw[i], v.f[1]) : i \in DOMAIN p.kw}
    [] OTHER -> {}

Assign(env, bound) ==
  [x \in DOMAIN env \cup {b.name : b \in bound} |->
     IF \E b \in bound : b.name = x THEN (CHOOSE b \in bound : b.name = x).v ELSE env[x]]

\* A guard is `name is value', or None.
GuardHolds(g, env) == g # None => env[g.name] = g.v
GuardEnv(p, v, env) == [x \in DOMAIN env \cup GuardAliases(p) |-> IF x \in GuardAliases(p) THEN v ELSE env[x]]

-----------------------------------------------------------------------------
(* Python: a pattern that succeeds binds its names, and then the guard is asked. *)

RECURSIVE Succeeds(_, _), Captures(_, _)
Succeeds(p, v) ==
  CASE p.p = "as"     -> p.sub # None => Succeeds(p.sub, v)
    [] p.p = "single" -> v = p.v
    [] p.p = "value"  -> IsEqual(v, p.v)
    [] p.p = "class"  -> IsInstance(v, p.cls) /\ \A i \in DOMAIN p.kw : v.f # <<>> /\ Succeeds(p.kw[i], v.f[1])
    [] p.p = "or"     -> \E i \in DOMAIN p.alts : Succeeds(p.alts[i], v)
Captures(p, v) ==
  CASE p.p = "as"    -> (IF p.name = None THEN {} ELSE {[name |-> p.name, v |-> v]})
                          \cup (IF p.sub = None THEN {} ELSE Captures(p.sub, v))
    [] p.p = "class" -> UNION {Captures(p.kw[i], v.f[1]) : i \in DOMAIN p.kw}
    [] p.p = "or"    -> LET i == CHOOSE i \in DOMAIN p.alts : /\ Succeeds(p.alts[i], v)
                                                            /\ \A j \in DOMAIN p.alts : j < i => ~ Succeeds(p.alts[j], v)
                        IN  Captures(p.alts[i], v)
    [] OTHER -> {}

Read(env, x) == IF x \in DOMAIN env THEN <<x, env[x]>> ELSE <<x, None>>
Reads(env, names) == [i \in DOMAIN names |-> Read(env, names[i])]

RECURSIVE PythonFrom(_, _, _)
\* [taken: the case, 0 for none; env; ok: no guard read a name that is not bound].
PythonFrom(t, i, env) ==
  IF i > Len(t.cases) THEN [taken |-> 0, env |-> env, ok |-> TRUE]
  ELSE LET c == t.cases[i]
           Asked(bound) == IF c.guard # None /\ c.guard.name \notin DOMAIN bound THEN [taken |-> i, env |-> bound, ok |-> FALSE]
                           ELSE IF GuardHolds(c.guard, bound) THEN [taken |-> i, env |-> bound, ok |-> TRUE]
                           ELSE PythonFrom(t, i + 1, bound)
       IN  IF Succeeds(c.pattern, t.subject) THEN Asked(Assign(env, Captures(c.pattern, t.subject)))
                                             ELSE PythonFrom(t, i + 1, env)
PythonReads(t, r) ==
  (IF r.taken = 0 THEN <<>> ELSE Reads(r.env, t.cases[r.taken].reads)) \o Reads(r.env, t.after)

-----------------------------------------------------------------------------
(* The specification: the statement is executed, case by case. *)

Init ==
  \E k \in DOMAIN Matches : \E m \in Matches[k] :
    /\ task = [of |-> "match", match |-> m]
    /\ state = [at |-> "trying", case |-> 1, env |-> m.before, seen |-> <<>>]

Match == task.match
Case == Match.cases[state.case]
Matching(at) == task.of = "match" /\ state.at = at

\* The definedness checks of the names that are read.
Verified(env, names) == \A i \in DOMAIN names : names[i] \in DOMAIN env

Applies == Condition(Case.pattern, Match.subject)
Guarded == GuardEnv(Case.pattern, Match.subject, state.env)
GuardVerified == Applies /\ Case.guard # None => Case.guard.name \in DOMAIN Guarded

Trying == Matching("trying") /\ state.case <= Len(Match.cases)

TakeCase ==
  /\ Trying /\ Applies /\ GuardVerified /\ GuardHolds(Case.guard, Guarded)
  /\ state' = [state EXCEPT !.at = "body", !.env = Assign(@, Assignments(Case.pattern, Match.subject))]
  /\ UNCHANGED task

SkipCase ==
  /\ Trying /\ GuardVerified /\ ~ (Applies /\ GuardHolds(Case.guard, Guarded))
  /\ state' = [state EXCEPT !.case = @ + 1]
  /\ UNCHANGED task

NoCase ==
  /\ Matching("trying") /\ state.case > Len(Match.cases)
  /\ state' = [state EXCEPT !.at = "after", !.case = 0]
  /\ UNCHANGED task

\* The body of the case, and what comes after the statement.
RunBody ==
  /\ Matching("body") /\ Verified(state.env, Case.reads)
  /\ state' = [state EXCEPT !.at = "after", !.seen = Reads(state.env, Case.reads)]
  /\ UNCHANGED task

RunAfter ==
  /\ Matching("after") /\ Verified(state.env, Match.after)
  /\ state' = [state EXCEPT !.at = "left", !.seen = @ \o Reads(state.env, Match.after)]
  /\ UNCHANGED task

\* A name is read that may not be defined.
Reject ==
  /\ \/ Trying /\ ~ GuardVerified
     \/ Matching("body") /\ ~ Verified(state.env, Case.reads)
     \/ Matching("after") /\ ~ Verified(state.env, Match.after)
  /\ state' = [state EXCEPT !.at = "rejected"]
  /\ UNCHANGED task

Done == state.at \in {"left", "rejected"} /\ UNCHANGED vars

Next == TakeCase \/ SkipCase \/ NoCase \/ RunBody \/ RunAfter \/ Reject \/ Done

Spec == Init /\ [][Next]_vars

\* A match statement that passes the definedness checks takes the case that Python
\* takes, and the names of the patterns have Python's values in its body and
\* afterwards, although the names mean something else while a guard is translated
\* and assignments are made only once a case is taken (statement.py
\* translate_stmt_Match).
MatchesLikePython ==
  Matching("left") =>
    LET Same(r) == r.ok /\ r.taken = state.case /\ PythonReads(Match, r) = state.seen
    IN  Same(PythonFrom(Match, 1, Match.before))
=============================================================================
