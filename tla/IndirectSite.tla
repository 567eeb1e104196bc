---------------------------- MODULE IndirectSite ----------------------------
(***************************************************************************)
(* The indirect call sites of one image (vm_resolve_indirect, which the    *)
(* build emits from src/gen/cold.lua, and abc_vm_site_stats in             *)
(* src/src/vm.c).                                                          *)
(*                                                                         *)
(* Every site observes its targets: nothing yet, one function, or finally  *)
(* too many.  While it has seen one function, a repeated target skips the  *)
(* checks of the resolver.  The interpreter, the threaded tape and native  *)
(* code all resolve through this one operation.                            *)
(***************************************************************************)
EXTENDS Integers, FiniteSets

CONSTANTS
    Sites,            \* indirect call sites of the module
    Functions,        \* functions of the module
    Halting,          \* functions that contain HALT
    CEntries,         \* functions entered from C only
    Others,           \* targets that are no function entry of this module
    SiteSignature,    \* the signature each site declares
    Signature,        \* the signature of each function
    Unseen, Generic   \* the two observations that are no function

Targets == Functions \cup Others
Uncallable == Halting \cup CEntries

ASSUME NamesAssumption ==
    /\ Unseen # Generic
    /\ Unseen \notin Functions /\ Generic \notin Functions
    /\ Functions \cap Others = {}
    /\ Targets \cap {"invalid", "arguments"} = {}

ASSUME SitesAssumption == IsFiniteSet(Sites)

VARIABLES observation, transitions, answer

sitesVars == <<observation, transitions, answer>>

Observation == {Unseen, Generic} \cup Functions

-----------------------------------------------------------------------------

Entry(t) == t \in Functions \ Uncallable

\* The checks of the slow path, in their order.
Verdict(s, t) ==
    IF ~Entry(t) THEN "invalid"
    ELSE IF SiteSignature[s] # Signature[t] THEN "arguments"
    ELSE t

Promise == INSTANCE Resolver

SitesInit ==
    /\ observation = [s \in Sites |-> Unseen]
    /\ transitions = 0
    /\ answer = Promise!NoAnswer

Answer(s, t, outcome) ==
    answer' = [site |-> s, target |-> t, outcome |-> outcome]

\* Mutant: the first target is recorded before its signature is checked.
FirstEntry(s, t) == IF Entry(t) THEN t ELSE Unseen

\* The observation a first target leaves: only a valid one is recorded.
First(s, t) == IF Verdict(s, t) = t THEN t ELSE Unseen

\* Mutant: a target that fails its checks leaves the site as it was.
MismatchIfValid(s, t) ==
    IF Verdict(s, t) = t THEN Generic ELSE observation[s]

\* A mismatch makes the site generic before the target is checked.
Mismatch(s, t) == Generic

\* Mutant: a mismatch is not counted.
CountFirstOnly(s, next) ==
    IF observation[s] = Unseen /\ next # Unseen THEN 1 ELSE 0

Count(s, next) == IF next # observation[s] THEN 1 ELSE 0

\* The site has seen this very function: no check is made.
Repeat(s, t) ==
    /\ observation[s] = t /\ t \in Functions
    /\ Answer(s, t, t)
    /\ UNCHANGED <<observation, transitions>>

\* Every other resolution runs the checks and moves the observation on.
Check(s, t) ==
    LET next == CASE observation[s] = Unseen  -> First(s, t)
                  [] observation[s] = Generic -> Generic
                  [] OTHER                    -> Mismatch(s, t)
    IN  /\ ~(observation[s] = t /\ t \in Functions)
        /\ observation' = [observation EXCEPT ![s] = next]
        /\ transitions' = transitions + Count(s, next)
        /\ Answer(s, t, Verdict(s, t))

SitesNext == \E s \in Sites, t \in Targets : Repeat(s, t) \/ Check(s, t)

SitesSpec == SitesInit /\ [][SitesNext]_sitesVars

-----------------------------------------------------------------------------
(* abc_vm_site_stats: generic starts as the number of sites and is counted *)
(* down, so "generic" means the sites that still await a first target.     *)

Specific == {s \in Sites : observation[s] \in Functions}
Final == {s \in Sites : observation[s] = Generic}

Stats == [generic  |-> Cardinality(Sites) - Cardinality(Specific)
                                          - Cardinality(Final),
          specific |-> Cardinality(Specific),
          final_generic |-> Cardinality(Final),
          transitions |-> transitions]

-----------------------------------------------------------------------------
(* Properties *)

\* Every variable has its type, and a site that skips its checks holds a
\* function that may be entered.
SitesTypeOK ==
    /\ observation \in [Sites -> {Unseen, Generic} \cup (Functions \ Uncallable)]
    /\ transitions \in Nat
    /\ answer = Promise!NoAnswer
       \/ /\ answer.site \in Sites /\ answer.target \in Targets
          /\ answer.outcome \in {"invalid", "arguments"} \cup Functions

\* A resolution answers what the checks alone would, whatever the site has
\* seen: skipping the checks for a repeated target is never observable.
CacheTransparent == Promise!Spec

\* The history of a site runs unseen, one function, generic, and never back
\* (docs/callable-profile.md); and once a site has seen one function, any other
\* target makes it generic, even a target that is then refused.
NeverBack ==
    [][\A s \in Sites :
          /\ observation'[s] # observation[s] =>
               \/ observation[s] = Unseen /\ observation'[s] \in Functions
               \/ observation[s] \in Functions /\ observation'[s] = Generic
          /\ (/\ answer' # answer /\ answer'.site = s
              /\ observation[s] \in Functions /\ answer'.target # observation[s])
             => observation'[s] = Generic]_sitesVars

\* The host's statistics add up: no count wraps below zero, and the number of
\* transitions is the one the states of the sites account for.
StatsAddUp ==
    /\ Stats.generic = Cardinality({s \in Sites : observation[s] = Unseen})
    /\ Stats.transitions = Stats.specific + 2 * Stats.final_generic
=============================================================================
