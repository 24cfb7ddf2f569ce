----------------------------- MODULE FilterSubsumes -----------------------------
(***************************************************************************)
(* The loop of filter_subsumes (acl.rs), which decides whether a filter    *)
(* that a principal is allowed to subscribe to covers a requested one.     *)
(***************************************************************************)
EXTENDS Topics

VARIABLES allowed, requested, i, result

vars == <<allowed, requested, i, result>>

Init ==
  /\ allowed \in Filters
  /\ requested \in Filters
  /\ i = 1
  /\ result = "running"

Return(r) == result' = r /\ UNCHANGED <<allowed, requested, i>>

Continue == i' = i + 1 /\ UNCHANGED <<allowed, requested, result>>

InAllowed   == i <= Len(allowed)
InRequested == i <= Len(requested)
HashAllowed == InAllowed /\ allowed[i] = Hash

\* The level of the request is covered by that of the allowed filter.  (Mutant: '+'
\* covers '#' too.)
Covered_HashByPlus ==
  \/ allowed[i] = Plus
  \/ requested[i] # Plus /\ requested[i] # Hash /\ allowed[i] = requested[i]

Covered ==
  /\ requested[i] # Hash
  /\ \/ allowed[i] = Plus
     \/ requested[i] # Plus /\ allowed[i] = requested[i]

Step ==
  /\ result = "running"
  /\ \/ HashAllowed /\ Return("true")
     \/ ~InAllowed /\ ~InRequested /\ Return("true")
     \/ ~HashAllowed /\ InAllowed /\ InRequested /\ Covered /\ Continue
     \/ ~HashAllowed /\ InAllowed /\ InRequested /\ ~Covered /\ Return("false")
     \/ ~HashAllowed /\ InAllowed # InRequested /\ Return("false")

Spec == Init /\ [][Step]_vars

-------------------------------------------------------------------------------
\* The variables have their types.
TypeOK ==
  /\ allowed \in Filters
  /\ requested \in Filters
  /\ i \in Nat \ {0}
  /\ i <= Len(allowed) + 1 /\ i <= Len(requested) + 1
  /\ result \in {"running", "true", "false"}

\* "every concrete topic the request could match must also be matched by the allowed
\* pattern": a request that is granted matches no name that the allowed filter does
\* not match.  Names that begin with '$' are left out: there a wildcard first level
\* covers a literal one without matching what it matches.
SubsumesSound ==
  parse(allowed) /\ parse(requested) /\ result = "true" =>
    \A t \in TopicNames :
      t[1] \notin Dollar /\ Matches(requested, t) => Matches(allowed, t)
=================================================================================
