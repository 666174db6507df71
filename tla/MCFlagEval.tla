----------------------------- MODULE MCFlagEval -----------------------------
\* Instances of FlagEval for TLC.
EXTENDS FlagEval

MCNames == [text : {"", "x", "y", "z"}, padded : BOOLEAN]
MCPlain == {Name("x"), Name("y"), Name("z")}
MCWeights == {-1, 0, 1, 2, 3, 4, 5, 6, 31}

Flag(e, d, vs, rs) == [enabled |-> e, default |-> d, variants |-> vs, rules |-> rs]
Variant(n, w) == [name |-> n, weight |-> w]

\* Up to three variants: every weight, in every order.
RolloutFlags ==
  {Flag(TRUE, d, vs, <<>>) :
     d \in {Name("x"), Name("y")},
     vs \in {<<>>} \cup {<<Variant(Name("x"), u)>> : u \in MCWeights}
            \cup {<<Variant(Name("x"), u), Variant(Name("y"), v)>> :
                    u, v \in MCWeights}
            \cup {<<Variant(Name("z"), u), Variant(Name("x"), v), Variant(Name("y"), w)>> :
                    u, v, w \in MCWeights}}

\* Two variants under every pair of names, padded, empty and equal ones too.
NamedFlags ==
  {Flag(e, d, <<Variant(m, 1), Variant(n, 3)>>, rs) :
     e \in BOOLEAN, d \in MCNames, m, n \in MCNames,
     rs \in {<<>>} \cup {<<[attribute |-> "plan", operator |-> "in",
                            values |-> <<"pro">>, variant |-> q, priority |-> 0]>> :
                           q \in {Name("x"), [text |-> "x", padded |-> TRUE]}}}

MCRules == [attribute : {"", "plan", "country"}, operator : {"eq", "in", "gt"},
            values : {<<>>, <<"pro">>, <<"pro", "free">>, <<"">>},
            variant : {Name("x"), Name("y")}, priority : {-1, 0, 1, 8}]
GoodRules == {r \in MCRules : ValidRule(r, MCPlain)}

\* Two rules in either order, and every malformed rule alone.
RuleFlags ==
  {Flag(e, Name("x"), <<Variant(Name("x"), 1), Variant(Name("y"), 3)>>, rs) :
     e \in BOOLEAN,
     rs \in {<<r>> : r \in MCRules} \cup {<<r, s>> : r, s \in GoodRules}}

MCFlags == RolloutFlags \cup NamedFlags \cup RuleFlags

MCContexts ==
  [user : {"", "u"},
   attributes : {[plan |-> p, country |-> c] : p \in {"", "pro", "free"},
                                                c \in {"", "pro"}}]
=============================================================================
