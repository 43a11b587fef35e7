--------------------------- MODULE ImplementationRules ---------------------------
(***************************************************************************)
(* The single-mapping implementation rules of the optimizer               *)
(* (src/src/optimizer/rule/implementation/): each rule is a Pattern whose *)
(* predicate tests the logical Operator of a group expression, with no    *)
(* test of the children, and maps a match to one PhysicalOption.  The     *)
(* memo that tries every rule on a group expression is not in this        *)
(* repository: here it tries the rules one at a time, in any order, and   *)
(* collects the physical options of those that match.                     *)
(***************************************************************************)
EXTENDS FiniteSets

CONSTANTS
    Operators   \* the logical Operator variants a group expression may hold

\* A rule: the operators its pattern predicate accepts, and its PhysicalOption.
ProjectionImplementation == [matches |-> {"Project"}, option |-> "Project"]
CreateTableImplementation == [matches |-> {"CreateTable"}, option |-> "CreateTable"]
UpdateImplementation == [matches |-> {"Update"}, option |-> "Update"]
DummyImplementation == [matches |-> {"Dummy"}, option |-> "Dummy"]
DropTableImplementation == [matches |-> {"DropTable"}, option |-> "DropTable"]
TruncateImplementation == [matches |-> {"DropTable"}, option |-> "Truncate"]

Rules == [r \in {"Projection", "CreateTable", "Update", "Dummy", "DropTable", "Truncate"} |->
            CASE r = "Projection"  -> ProjectionImplementation
              [] r = "CreateTable" -> CreateTableImplementation
              [] r = "Update"      -> UpdateImplementation
              [] r = "Dummy"       -> DummyImplementation
              [] r = "DropTable"   -> DropTableImplementation
              [] r = "Truncate"    -> TruncateImplementation]

VARIABLES
    op,         \* the logical operator of the group expression
    tried,      \* the rules already tried on it
    options     \* the physical options the matching rules produced

vars == << op, tried, options >>

TypeOK ==
    /\ op \in Operators
    /\ tried \subseteq DOMAIN Rules
    /\ options \subseteq {Rules[r].option : r \in DOMAIN Rules}

Init ==
    /\ op \in Operators
    /\ tried = {}
    /\ options = {}

\* The rule's pattern matches (predicate true, PatternChildrenPredicate::None):
\* single_mapping's to_expression adds its PhysicalOption to the group.
Implement(r) ==
    /\ r \notin tried /\ op \in Rules[r].matches
    /\ tried' = tried \cup {r}
    /\ options' = options \cup {Rules[r].option}
    /\ UNCHANGED op

\* The pattern does not match: the rule adds nothing.
NoMatch(r) ==
    /\ r \notin tried /\ op \notin Rules[r].matches
    /\ tried' = tried \cup {r}
    /\ UNCHANGED << op, options >>

Next == \E r \in DOMAIN Rules : Implement(r) \/ NoMatch(r)

Spec == Init /\ [][Next]_vars

-----------------------------------------------------------------------------
(***************************************************************************)
(* Once every rule was tried, a logical operator that has a rule is       *)
(* implemented by exactly the physical option of the same name (the      *)
(* variants share their names in Operator and PhysicalOption): a DROP     *)
(* TABLE plan can only drop the table and a TRUNCATE plan only truncate   *)
(* it.  It is about the pattern predicates of the rule files, copied from *)
(* one another.                                                            *)
(***************************************************************************)
ImplementsOwnOperator ==
    (tried = DOMAIN Rules /\ op \in {Rules[r].option : r \in DOMAIN Rules})
        => options = {op}
=============================================================================
