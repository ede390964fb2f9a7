---- MODULE MC_ScheduleExpansion ----
(* Instances of ScheduleExpansion for TLC. *)
EXTENDS ScheduleExpansion

FirstIter == [kind |-> "first"]
LastIter == [kind |-> "last"]
Opaque(k) == [kind |-> "opaque", key |-> k, negated |-> FALSE]
NotOpaque(k) == [kind |-> "opaque", key |-> k, negated |-> TRUE]
And(g, h) == [kind |-> "and", args |-> <<g, h>>]
Or(g, h) == [kind |-> "or", args |-> <<g, h>>]
Skippable == [kind |-> "skippable"]
Complement(g) == [kind |-> "not", arg |-> g]
Every(p, s) == [kind |-> "every", period |-> p, start |-> s]
Step(s) == [kind |-> "step", stage |-> s, id |-> 100]
DomainLoop(s, e, body) == [kind |-> "domain", body |-> body,
                     bounds |-> [start |-> s, end |-> e, step |-> 2]]
When(g, body) == [kind |-> "cond", guard |-> g, fires |-> None, body |-> body]

\* Guards decided by a condition, by the iteration, and by both.
MCGuards == {Opaque("a"), Opaque("b"), And(LastIter, Opaque("a")),
             Or(FirstIter, And(Complement(Every(2, 0)), NotOpaque("b"))), Skippable}

\* While loops of one and two modelled rounds.
MCRounds == {<<1, 2>>}
MCFires == {None, 1}

\* Domain loops whose end is known on the device only.  The largest start bounds them:
\* they have three iterations and one.  The partner's loop has a known end.
MCDomains == {[start |-> s, end |-> Dynamic, step |-> 1] : s \in {0, 2}}
MCPartners == <<<<DomainLoop(2, 4, <<When(Opaque("b"), <<Step("sync")>>)>>)>>>>
====
