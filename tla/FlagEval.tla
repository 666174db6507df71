------------------------------ MODULE FlagEval ------------------------------
(***************************************************************************)
(* From a flag definition to an answer: ValidateFlag (internal/domain),    *)
(* the column types of the tables, CompileFlag and Evaluate                *)
(* (internal/eval).                                                        *)
(*                                                                         *)
(* A name is a text with or without white space around it, since           *)
(* validation trims some of the names it compares and not others.  Weights *)
(* are Go ints, INTEGER columns and uint32s in turn: IntMod, ColumnMax and *)
(* UintMod are 2^64, 2^31 - 1 and 2^32, and FullWeight is 100, scaled      *)
(* down in the same order.  The hash of the user is any uint32.            *)
(***************************************************************************)
EXTENDS Integers, Sequences, FiniteSets

CONSTANTS Flags,       \* the definitions that clients submit
          Contexts,    \* the evaluation contexts
          FullWeight, IntMod, ColumnMax, UintMod

\* Names: [text, padded], the empty text being "".
Names == [text : STRING, padded : BOOLEAN]
Name(t) == [text |-> t, padded |-> FALSE]
Trim(n) == Name(n.text)

Definitions ==
  [enabled : BOOLEAN, default : Names,
   variants : Seq([name : Names, weight : Int]),
   rules : Seq([attribute : STRING, operator : STRING, values : Seq(STRING),
                variant : Names, priority : Int])]

\* A definition is held in memory: it has fewer than 2^32 variants, so what fits
\* in the weight column adds up to less than 2^63.
ASSUME EvalAssumption ==
  /\ FullWeight \in Nat \ {0} /\ ColumnMax \in Nat /\ UintMod \in Nat /\ IntMod \in Nat
  /\ FullWeight <= ColumnMax /\ ColumnMax < UintMod /\ UintMod < IntMod
  /\ Flags \subseteq Definitions
  /\ \A f \in Flags : 2 * (Len(f.variants) * ColumnMax) < IntMod

\* Go's signed int addition, and the conversion to uint32.
WrapInt(n) == LET m == n % IntMod IN IF 2 * m >= IntMod THEN m - IntMod ELSE m
ToUint(n) == n % UintMod

\* totalWeight after each of the variants.
Totals(vs) ==
  LET total[i \in 0 .. Len(vs)] ==
        IF i = 0 THEN 0 ELSE WrapInt(total[i - 1] + vs[i].weight)
  IN total

TotalWeight(vs) == Totals(vs)[Len(vs)]

-----------------------------------------------------------------------------
(* ValidateFlag                                                            *)

\* Trimmed names are not empty and unique, no weight is negative, the sum of the
\* weights is FullWeight.
ValidVariants(vs) ==
  /\ vs # <<>>
  /\ \A i \in DOMAIN vs : vs[i].name.text # "" /\ vs[i].weight >= 0
  /\ \A i, j \in DOMAIN vs : vs[i].name.text = vs[j].name.text => i = j
  /\ TotalWeight(vs) = FullWeight

\* variantNames holds the trimmed names; the default variant and the rules'
\* variants are looked up as they are.
VariantNames(vs) == {Trim(vs[i].name) : i \in DOMAIN vs}

ValidRule(r, names) ==
  /\ r.attribute # ""
  /\ r.operator \in {"eq", "in"}
  /\ r.values # <<>> /\ \A i \in DOMAIN r.values : r.values[i] # ""
  /\ r.operator = "eq" => Len(r.values) = 1
  /\ r.variant \in names
  /\ r.priority >= 0

UniquePriorities(rs) ==
  \A i, j \in DOMAIN rs : rs[i].priority = rs[j].priority => i = j

\* Mutant: the default variant is only required not to be empty.
ValidateFlagAnyDefault(f) ==
  LET names == VariantNames(f.variants) IN
  /\ f.default.text # ""
  /\ ValidVariants(f.variants)
  /\ \A i \in DOMAIN f.rules : ValidRule(f.rules[i], names)
  /\ UniquePriorities(f.rules)

ValidateFlag(f) ==
  LET names == VariantNames(f.variants) IN
  /\ f.default.text # "" /\ f.default \in names
  /\ ValidVariants(f.variants)
  /\ \A i \in DOMAIN f.rules : ValidRule(f.rules[i], names)
  /\ UniquePriorities(f.rules)

-----------------------------------------------------------------------------
(* The tables: INTEGER weights and priorities, which ValidateFlag has not  *)
(* let be negative, and a foreign key from a rule's variant to the         *)
(* variants as they are written, with their white space.                   *)

\* Mutant: the weight column is as wide as an int.
StorableAnyWeight(f) ==
  \A i \in DOMAIN f.rules :
    /\ f.rules[i].priority <= ColumnMax
    /\ \E j \in DOMAIN f.variants : f.rules[i].variant = f.variants[j].name

Storable(f) ==
  /\ \A i \in DOMAIN f.variants : f.variants[i].weight <= ColumnMax
  /\ \A i \in DOMAIN f.rules :
       /\ f.rules[i].priority <= ColumnMax
       /\ \E j \in DOMAIN f.variants : f.rules[i].variant = f.variants[j].name

-----------------------------------------------------------------------------
(* CompileFlag                                                             *)

\* Mutant: the rules stay in the order in which they were written.
SortRulesAsWritten(rs) == rs

\* The rules by priority; sort.Slice leaves open which of equals comes first.
SortRules(rs) ==
  LET order == CHOOSE p \in [DOMAIN rs -> DOMAIN rs] :
        \A i, j \in DOMAIN rs :
          i < j => p[i] # p[j] /\ rs[p[i]].priority <= rs[p[j]].priority
  IN [i \in DOMAIN rs |-> rs[order[i]]]

CompileFlag(f) ==
  [enabled |-> f.enabled, default |-> f.default, rollout |-> f.variants,
   rules |-> SortRules(f.rules), totalWeight |-> TotalWeight(f.variants)]

-----------------------------------------------------------------------------
(* Evaluate                                                                *)

\* compileRule: an attribute that is absent or empty matches nothing; eq and in
\* both ask for one of the values.
Match(r, ctx) ==
  /\ r.attribute \in DOMAIN ctx.attributes
  /\ ctx.attributes[r.attribute] # ""
  /\ \E i \in DOMAIN r.values : r.values[i] = ctx.attributes[r.attribute]

\* pickVariant's cumulative after each of the variants.
Cumulative(vs) ==
  LET sum[i \in 0 .. Len(vs)] ==
        IF i = 0 THEN 0 ELSE ToUint(sum[i - 1] + ToUint(vs[i].weight))
  IN sum

First(places) == CHOOSE i \in places : \A j \in places : i <= j

\* Mutant: the bucket at the end of a variant's share is still the variant's.
PickVariantInclusive(c, bucket) ==
  LET sum == Cumulative(c.rollout)
      over == {i \in DOMAIN c.rollout : bucket <= sum[i]}
  IN IF over = {} THEN c.default ELSE c.rollout[First(over)].name

\* The first variant whose cumulative weight exceeds the bucket.
PickVariant(c, bucket) ==
  LET sum == Cumulative(c.rollout)
      over == {i \in DOMAIN c.rollout : bucket < sum[i]}
  IN IF over = {} THEN c.default ELSE c.rollout[First(over)].name

\* hash is the FNV hash of the user and the flag.
Evaluate(c, ctx, hash) ==
  LET matching == {i \in DOMAIN c.rules : Match(c.rules[i], ctx)} IN
  IF ~c.enabled THEN c.default
  ELSE IF matching # {} THEN c.rules[First(matching)].variant
  ELSE IF ctx.user = "" \/ c.totalWeight <= 0 THEN c.default
  ELSE PickVariant(c, hash % ToUint(c.totalWeight))

-----------------------------------------------------------------------------
(* A definition is submitted, then evaluated                               *)

VARIABLES flag,      \* the definition submitted
          stage,     \* "new", "rejected" (400), "refused" (500) or "served"
          compiled   \* the compiled flag, <<>> before

vars == <<flag, stage, compiled>>

Init == flag \in Flags /\ stage = "new" /\ compiled = <<>>

\* Validation, then the INSERTs.
Reject == /\ stage = "new" /\ ~ValidateFlag(flag)
          /\ stage' = "rejected" /\ UNCHANGED <<flag, compiled>>

Refuse == /\ stage = "new" /\ ValidateFlag(flag) /\ ~Storable(flag)
          /\ stage' = "refused" /\ UNCHANGED <<flag, compiled>>

\* The refresh compiles the flag and serves it.
Serve == /\ stage = "new" /\ ValidateFlag(flag) /\ Storable(flag)
         /\ stage' = "served" /\ compiled' = CompileFlag(flag)
         /\ UNCHANGED flag

Next == Reject \/ Refuse \/ Serve

Spec == Init /\ [][Next]_vars

-----------------------------------------------------------------------------
(* Properties                                                              *)

Served == stage = "served"
Hashes == 0 .. UintMod - 1
Answer(ctx, hash) == Evaluate(compiled, ctx, hash)

\* The rollout gives each variant exactly as many of the buckets 0..99 as its
\* weight says, wherever it stands in the list: no bucket falls through to the
\* default, no sum wraps (CompileFlag, pickVariant).
RolloutExact ==
  Served => \A i \in DOMAIN flag.variants :
    Cardinality({b \in 0 .. FullWeight - 1 :
                   PickVariant(compiled, b) = flag.variants[i].name})
      = flag.variants[i].weight

\* Of the rules that match a context, the one with the least priority decides,
\* in whatever order they were written (CompileFlag's sort, Evaluate's loop).
LeastPriorityWins ==
  (Served /\ flag.enabled) =>
    \A ctx \in Contexts : \A i \in DOMAIN flag.rules :
      (/\ Match(flag.rules[i], ctx)
       /\ \A j \in DOMAIN flag.rules :
            Match(flag.rules[j], ctx) => flag.rules[i].priority <= flag.rules[j].priority)
      => \A h \in Hashes : Answer(ctx, h) = flag.rules[i].variant

\* Whatever the context and the hash, an evaluation answers one of the flag's
\* variants, up to white space.
AnswerKnown ==
  Served => \A ctx \in Contexts, h \in Hashes :
              Trim(Answer(ctx, h)) \in VariantNames(flag.variants)
=============================================================================
